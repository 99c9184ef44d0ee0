---------------------------- MODULE MCResources ----------------------------
(***************************************************************************)
(* Instances of Resources.  Attributes of kinds with the same handlers     *)
(* that have the same line in every table of Attributes, and that no       *)
(* definition of Resources names, behave alike: one of each is followed.   *)
(* All the monitor types have the handlers of one resource; proxy, docker  *)
(* host and notification have alike ones, and so have tag and browser.     *)
(***************************************************************************)
EXTENDS Resources

MonitorSubjects ==
    ({"monitor_group"} \X
         {"name", "interval", "retry_interval", "resend_interval", "timeout", "weight",
          "active", "description", "notification_ids", "tags"})
    \cup ({"monitor_http"} \X
         {"expiry_notification", "ignore_tls", "url", "auth_method", "method",
          "oauth_auth_method", "http_body_encoding", "accepted_status_codes",
          "save_error_response"})
    \cup {<<"monitor_port", "port">>, <<"monitor_push", "push_token">>}

MaintenanceSubjects ==
    {"maintenance"} \X
        {"title", "strategy", "active", "cron", "timezone", "duration_minutes",
         "interval_day", "start_date", "start_time", "weekdays", "monitor_ids",
         "status_page_ids"}

PageSubjects ==
    ({"status_page"} \X
        {"slug", "title", "description", "footer_text", "domain_names", "group",
         "analytics_type", "icon", "theme", "auto_refresh_interval", "show_tags",
         "show_powered_by"})
    \cup ({"status_page_incident"} \X {"status_page_slug", "title", "style", "pinned"})

OtherSubjects ==
    ({"proxy"} \X {"active", "port", "host", "username", "default", "apply_existing"})
    \cup ({"api_key"} \X {"name", "active", "expires", "key"})
    \cup {<<"notification", "settings">>, <<"tag", "name">>, <<"settings", "settings">>}

AllSubjects ==
    MonitorSubjects \cup MaintenanceSubjects \cup PageSubjects \cup OtherSubjects

PageSlug  == {<<"status_page", "slug">>}
APIKeyKey == {<<"api_key", "key">>}
=============================================================================
