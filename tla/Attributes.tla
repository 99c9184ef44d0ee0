----------------------------- MODULE Attributes -----------------------------
(***************************************************************************)
(* The attributes of every resource, and what becomes of a value on its    *)
(* way from the plan to a column of the server and back to the state.      *)
(*                                                                         *)
(* A value is abstracted to what the conversions tell apart: null, not yet *)
(* known, the zero of its type ("", 0, false, an empty set), two others a  *)
(* user may write (of which One is the default when there is one), and one *)
(* only the server makes (a generated token, the path of an upload).       *)
(* A conversion is a function between such values; a resource has one      *)
(* table of them for its schema, one for its payload and one for reading   *)
(* back, after the functions of the source.  Attributes that are Computed  *)
(* and nothing else are left out, the clear text of an API key excepted.   *)
(***************************************************************************)
Null    == "null"
Unknown == "unknown"
Zero    == "zero"
One     == "one"
Two     == "two"
Own     == "own"
Absent  == "absent"   \* a key the payload does not have

Known   == {Zero, One, Two, Own}
Columns == Known \cup {Null}
Values  == Columns \cup {Unknown}

\* What the validators of an attribute let a user write.
Free     == {Zero, One, Two}
Positive == {One, Two}
Flag     == {Zero, One}

\* Two tables in one, the first before the second: @@ of the module TLC, which
\* has a meaning for TLC alone.
f ++ g == [x \in DOMAIN f \cup DOMAIN g |-> IF x \in DOMAIN f THEN f[x] ELSE g[x]]

Each(names, entry) == [a \in names |-> entry]
Then(f, g) == [x \in DOMAIN f |-> g[f[x]]]

-----------------------------------------------------------------------------
(* internal/common/helpers.go: nil is Null, and a function over Columns    *)
(* reads what a function over Values sent.                                 *)

IsSet(v) == v \notin {Null, Unknown}

OrElse(d) == [v \in Values |-> IF IsSet(v) THEN v ELSE d]
ValueOf   == OrElse(Zero)   \* the framework's ValueString and its like
Ptr       == OrElse(Null)
Elements  == OrElse(Null)

NullAs(d)  == [c \in Columns |-> IF c = Null THEN d ELSE c]
EmptyAs(d) == [c \in Columns |-> IF c \in {Null, Zero} THEN d ELSE c]

Value          == NullAs(Null)
Plain          == NullAs(Zero)   \* a field that is not a pointer
OptionalString == EmptyAs(Null)
BoolOrTrue     == NullAs(One)
BoolOrFalse    == NullAs(Zero)

\* A schema entry: who gives the value, what a user may write, whether the
\* plan takes an unset one from the state, whether a change replaces the row.
Entry(class, domain) ==
    [class |-> class, domain |-> domain, sticky |-> FALSE, replace |-> FALSE]
Required(domain) == Entry("required", domain)
Optional(domain) == Entry("optional", domain)
Both(domain)     == Entry("both", domain)
Sticky(entry)    == [entry EXCEPT !.sticky = TRUE]
Replaces(entry)  == [entry EXCEPT !.replace = TRUE]

-----------------------------------------------------------------------------
(* Monitors                                                                *)

BaseSchema ==
    Each({"name"}, Required(Free))
    ++ Each({"interval", "retry_interval"}, Both(Positive))
    ++ Each({"resend_interval", "max_retries", "timeout", "weight"}, Both(Free))
    ++ Each({"active", "upside_down"}, Both(Flag))
    ++ Each({"description", "parent_id", "notification_ids", "tags"}, Optional(Free))

applyBase ==
    Each({"name", "retry_interval"}, ValueOf)
    ++ Each({"interval"}, OrElse(One))
    ++ Each({"resend_interval", "max_retries", "notification_ids"}, OrElse(Zero))
    ++ Each({"description", "timeout", "active", "upside_down", "weight",
             "parent_id"}, Ptr)

readBase ==
    Each({"name", "interval", "retry_interval", "resend_interval",
          "max_retries"}, Plain)
    ++ Each({"description", "weight", "parent_id"}, Value)
    ++ Each({"upside_down"}, BoolOrFalse)
    ++ Each({"active"}, BoolOrTrue)
    ++ Each({"timeout", "notification_ids"}, EmptyAs(Null))

readTags == Each({"tags"}, EmptyAs(Null))

tagAssociations == Each({"tags"}, OrElse(Zero))

HTTPText ==
    {"body", "headers", "basic_auth_user", "basic_auth_pass", "auth_domain",
     "auth_workstation", "bearer_token", "oauth_client_id", "oauth_client_secret",
     "oauth_token_url", "oauth_scopes", "oauth_audience", "tls_ca", "tls_cert",
     "tls_key"}
HTTPOffFlags ==
    {"ignore_tls", "expiry_notification", "domain_expiry_notification",
     "cache_bust", "save_response"}

httpAttributes ==
    Each({"url"}, Required(Free))
    ++ Each(HTTPText \cup {"proxy_id"}, Optional(Free))
    ++ Each({"auth_method", "oauth_auth_method"}, Optional(Positive))
    ++ Each({"method", "http_body_encoding"}, Both(Positive))
    ++ Each({"max_redirects", "accepted_status_codes", "response_max_length"}, Both(Free))
    ++ Each(HTTPOffFlags \cup {"save_error_response"}, Both(Flag))

applyHTTPBase ==
    Each({"accepted_status_codes"}, Elements)
    ++ Each(DOMAIN httpAttributes \ {"accepted_status_codes"}, Ptr)

readHTTPBase ==
    Each(HTTPText \cup {"url", "method", "max_redirects", "proxy_id",
         "oauth_auth_method", "response_max_length"}, Value)
    ++ Each(HTTPOffFlags, BoolOrFalse)
    ++ Each({"save_error_response"}, BoolOrTrue)
    ++ Each({"http_body_encoding"}, EmptyAs(One))
    ++ Each({"accepted_status_codes", "auth_method"}, EmptyAs(Null))

\* A monitor type: its attributes, how they are sent, how they are read.
HTTP == [schema |-> httpAttributes, apply |-> applyHTTPBase, read |-> readHTTPBase]

And(t, u) ==
    [schema |-> t.schema ++ u.schema, apply |-> t.apply ++ u.apply,
     read |-> t.read ++ u.read]

Keyword ==
    LET flags == {"invert_keyword", "retry_only_on_status_code_failure"} IN
    [schema |-> Each({"keyword"}, Required(Free)) ++ Each(flags, Both(Flag)),
     apply  |-> Each({"keyword"} \cup flags, Ptr),
     read   |-> Each({"keyword"}, Value) ++ Each(flags, BoolOrFalse)]

JSONQuery ==
    [schema |-> Each({"json_path", "expected_value"}, Required(Free))
                ++ Each({"json_path_operator"}, Both(Positive)),
     apply  |-> Each({"json_path", "expected_value", "json_path_operator"}, Ptr),
     read   |-> Each({"json_path", "expected_value", "json_path_operator"}, Value)]

Ping ==
    LET sizes == {"packet_size", "ping_count", "ping_per_request_timeout"} IN
    [schema |-> Each({"hostname"}, Required(Free)) ++ Each(sizes, Both(Positive))
                ++ Each({"ping_numeric"}, Both(Flag))
                ++ Each({"ip_family"}, Optional(Positive)),
     apply  |-> Each(sizes \cup {"hostname", "ping_numeric", "ip_family"}, Ptr),
     read   |-> Each(sizes \cup {"hostname"}, Value)
                ++ Each({"ping_numeric"}, BoolOrFalse)
                ++ Each({"ip_family"}, OptionalString)]

Port ==
    [schema |-> Each({"hostname"}, Required(Free)) ++ Each({"port"}, Required(Positive))
                ++ Each({"ip_family"}, Optional(Positive)),
     apply  |-> Each({"hostname", "port", "ip_family"}, Ptr),
     read   |-> Each({"hostname", "port"}, Value)
                ++ Each({"ip_family"}, OptionalString)]

DNS ==
    LET names == {"hostname", "resolver_server", "port", "resolve_type"} IN
    [schema |-> Each({"hostname"}, Required(Free))
                ++ Each({"resolver_server"}, Both(Free))
                ++ Each({"port", "resolve_type"}, Both(Positive)),
     apply  |-> Each(names, Ptr),
     read   |-> Each(names, Value)]

Docker ==
    [schema |-> Each({"container_name", "docker_host_id"}, Required(Free)),
     apply  |-> Each({"container_name", "docker_host_id"}, Ptr),
     read   |-> Each({"container_name", "docker_host_id"}, Value)]

Push ==
    [schema |-> Each({"push_token"}, Sticky(Both(Free))),
     apply  |-> Each({"push_token"}, Ptr),
     read   |-> Each({"push_token"}, Value)]

\* What the payload gets where the model left a field nil, or empty.
NormalizeMonitor ==
    Each({"accepted_status_codes"}, NullAs(One))
    ++ Each({"retry_interval"}, EmptyAs(One))   \* the interval
    ++ Each({"push_token"}, EmptyAs(Own))       \* generatePushToken

Base == [schema |-> BaseSchema, apply |-> applyBase ++ tagAssociations,
         read |-> readBase ++ readTags]

MonitorTypes ==
    [monitor_http    |-> HTTP, monitor_keyword |-> And(HTTP, Keyword),
     monitor_json_query |-> And(HTTP, JSONQuery), monitor_ping |-> Ping,
     monitor_port    |-> Port, monitor_dns     |-> DNS,
     monitor_docker  |-> Docker, monitor_push  |-> Push,
     monitor_group   |-> [schema |-> <<>>, apply |-> <<>>, read |-> <<>>]]

Monitors == DOMAIN MonitorTypes

\* Fields of the Monitor struct whose JSON key stays when they are empty.
MonitorKeys ==
    {"name", "interval", "retry_interval", "resend_interval", "max_retries",
     "notification_ids", "accepted_status_codes"}

-----------------------------------------------------------------------------
(* Maintenance windows; the strategy is a recurring one, which is when the *)
(* times are read back.                                                    *)

Times        == {"start_time", "end_time"}
Associations == {"monitor_ids", "status_page_ids"}

MaintenanceSchema ==
    Each({"title", "description"}, Required(Free))
    ++ Each({"strategy"}, Required(Positive))
    ++ Each({"active"}, Both(Flag))
    ++ Each({"cron", "timezone"}, Both(Free))
    ++ Each({"duration_minutes"}, Both(Positive))
    ++ Each({"interval_day"}, Optional(Positive))
    ++ Each({"start_date", "end_date", "weekdays", "days_of_month"} \cup Times
            \cup Associations, Optional(Free))

MaintenanceWire ==
    Each({"title", "description", "strategy"}, ValueOf)
    ++ Each({"active", "interval_day", "cron", "timezone", "start_date", "end_date",
             "duration_minutes"} \cup Times, Ptr)
    ++ Each({"weekdays", "days_of_month"}, Elements)
    ++ Each(Associations, OrElse(Zero))

\* Midnight is Zero: parseClockTime gives it for an end that is not set.
NormalizeMaintenance ==
    Each({"active", "timezone"}, NullAs(One))
    ++ Each({"weekdays", "days_of_month"} \cup Times, NullAs(Zero))

readIdentity ==
    Each({"title", "description", "strategy"}, Plain) ++ Each({"active"}, BoolOrTrue)

readSchedule ==
    Each(Times, Plain)
    ++ Each({"start_date", "end_date", "interval_day", "duration_minutes"}, Value)
    ++ Each({"weekdays", "days_of_month", "cron"}, EmptyAs(Null))
    ++ Each({"timezone"}, EmptyAs(One))

readAssociations == Each(Associations, EmptyAs(Null))

\* Fields with omitempty: encoding/json drops an empty slice with a nil one.
MaintenanceOmitted ==
    Each({"active", "interval_day", "cron", "duration_minutes"}, {Null})
    ++ Each({"weekdays", "days_of_month"}, {Null, Zero})

-----------------------------------------------------------------------------
(* Status pages and their incidents                                        *)

PageTexts == {"footer_text", "custom_css", "rss_title", "analytics_id",
              "analytics_script_url"}
PageFlags == {"show_tags", "show_certificate_expiry", "show_only_last_heartbeat",
              "show_powered_by"}

PageSchema ==
    Each({"slug"}, Required(Positive)) ++ Each({"title"}, Required(Free))
    ++ Each(PageTexts \cup {"description", "domain_names"}, Optional(Free))
    ++ Each({"group", "analytics_type"}, Optional(Positive))
    ++ Each({"icon"}, Both(Free))
    ++ Each({"theme", "auto_refresh_interval"}, Both(Positive))
    ++ Each(PageFlags, Both(Flag))

\* config, groups and icon: what saveStatusPage is given.
PageConfig ==
    Each({"slug", "title", "theme"}, ValueOf)
    ++ Each(PageTexts \cup PageFlags
            \cup {"description", "auto_refresh_interval", "analytics_type"}, Ptr)
    ++ Each({"domain_names"}, OrElse(Zero))
PageGroups == Each({"group"}, OrElse(Zero))
PageIcon   == Each({"icon"}, OrElse(One))

normalizeStatusPage ==
    Each({"domain_names"}, NullAs(Zero)) ++ Each({"theme"}, EmptyAs(One))

PageReadInto ==
    Each({"slug", "title", "theme"}, Plain)
    ++ Each({"description", "auto_refresh_interval"}, Value)
    ++ Each(PageTexts \cup {"analytics_type", "icon", "domain_names", "group"},
            OptionalString)
    ++ Each(PageFlags \ {"show_powered_by"}, BoolOrFalse)
    ++ Each({"show_powered_by"}, BoolOrTrue)

PageOmitted == Each(PageFlags \cup {"auto_refresh_interval"}, {Null})

IncidentSchema ==
    Each({"status_page_slug"}, Replaces(Required(Positive)))
    ++ Each({"title", "content"}, Required(Free))
    ++ Each({"style"}, Both(Positive)) ++ Each({"pinned"}, Both(Flag))

IncidentWire ==
    Each({"title", "content", "status_page_slug"}, ValueOf)
    ++ Each({"style"}, Then(ValueOf, EmptyAs(One)))

IncidentReadInto ==
    Each({"title", "content", "style", "status_page_slug"}, Plain)
    ++ Each({"pinned"}, BoolOrFalse)

-----------------------------------------------------------------------------
(* The smaller resources.  An attribute with no way to be read back is not *)
(* in the third table: the model keeps what the plan or the state had.     *)

ProxySchema ==
    Each({"protocol", "port"}, Required(Positive)) ++ Each({"host"}, Required(Free))
    ++ Each({"username", "password"}, Optional(Free))
    ++ Each({"active", "default"}, Both(Flag)) ++ Each({"apply_existing"}, Optional(Flag))
ProxyWire ==
    Each({"protocol", "port", "host", "default", "apply_existing"}, ValueOf)
    ++ Each({"username", "password"}, Ptr) ++ Each({"active"}, OrElse(One))
ProxyReadInto ==
    Each({"protocol", "port", "host", "active", "default"}, Plain)
    ++ Each({"username", "password"}, OptionalString)

DockerHostSchema ==
    Each({"name", "daemon"}, Required(Free)) ++ Each({"connection_type"}, Required(Positive))
DockerHostWire     == Each(DOMAIN DockerHostSchema, ValueOf)
DockerHostReadInto == Each(DOMAIN DockerHostSchema, Plain)

RemoteBrowserSchema == Each({"name", "url"}, Required(Free))
TagSchema           == Each({"name", "color"}, Required(Free))

APIKeySchema ==
    Each({"name"}, Replaces(Required(Free))) ++ Each({"active"}, Both(Flag))
    ++ Each({"expires"}, Replaces(Optional(Free)))
    ++ Each({"key"}, Sticky(Entry("computed", {})))
APIKeyWire ==
    Each({"name"}, ValueOf) ++ Each({"active"}, OrElse(One)) ++ Each({"expires"}, Ptr)
    ++ Each({"key"}, OrElse(Own))   \* the server makes it
APIKeyReadInto ==
    Each({"name", "active"}, Plain) ++ Each({"expires"}, OptionalString)

NotificationSchema ==
    Each({"name", "type"}, Required(Free))
    ++ Each({"is_default"}, Both(Flag)) ++ Each({"settings"}, Both(Free))
    ++ Each({"apply_existing"}, Optional(Flag))
\* BuildPayload: no settings and an empty object send the same keys.
NotificationPayload == Each(DOMAIN NotificationSchema, ValueOf)
NotificationReadInto ==
    Each(DOMAIN NotificationSchema \ {"apply_existing"}, Plain)

SettingsSchema   == Each({"settings"}, Required(Free))
SettingsDesired  == Each({"settings"}, ValueOf)
SettingsReadInto == Each({"settings"}, Plain)

-----------------------------------------------------------------------------

Table(schema, apply, read) == [schema |-> schema, apply |-> apply, read |-> read]

Tables ==
    [k \in Monitors |-> And(Base, MonitorTypes[k])] ++
    [maintenance |->
         Table(MaintenanceSchema, MaintenanceWire,
               readIdentity ++ readSchedule ++ readAssociations),
     status_page |->
         Table(PageSchema, PageConfig ++ PageGroups ++ PageIcon, PageReadInto),
     status_page_incident |-> Table(IncidentSchema, IncidentWire, IncidentReadInto),
     proxy          |-> Table(ProxySchema, ProxyWire, ProxyReadInto),
     docker_host    |-> Table(DockerHostSchema, DockerHostWire, DockerHostReadInto),
     remote_browser |-> Table(RemoteBrowserSchema, Each({"name", "url"}, ValueOf),
                              Each({"name", "url"}, Plain)),
     tag            |-> Table(TagSchema, Each({"name", "color"}, ValueOf),
                              Each({"name", "color"}, Plain)),
     api_key        |-> Table(APIKeySchema, APIKeyWire, APIKeyReadInto),
     notification   |-> Table(NotificationSchema, NotificationPayload, NotificationReadInto),
     settings       |-> Table(SettingsSchema, SettingsDesired, SettingsReadInto)]

Kinds == DOMAIN Tables

SchemaOf(k, a) == Tables[k].schema[a]

\* A table with nothing for the attribute leaves the value alone.
At(table, a, v) == IF a \in DOMAIN table THEN table[a][v] ELSE v

Normalized(k, a, v) ==
    CASE k \in Monitors     -> At(NormalizeMonitor, a, v)
      [] k = "maintenance" -> At(NormalizeMaintenance, a, v)
      [] k = "status_page" -> At(normalizeStatusPage, a, v)
      [] OTHER             -> v

Omitted(k, a) ==
    CASE k \in Monitors     -> IF a \in MonitorKeys THEN {} ELSE {Null}
      [] k = "maintenance" -> IF a \in DOMAIN MaintenanceOmitted
                                THEN MaintenanceOmitted[a] ELSE {}
      [] k = "status_page" -> IF a \in DOMAIN PageOmitted THEN PageOmitted[a] ELSE {}
      [] OTHER             -> {}

\* What the payload made from a model says of an attribute.
Sent(k, a, v) ==
    LET w == Normalized(k, a, At(Tables[k].apply, a, v))
    IN  IF w \in Omitted(k, a) THEN Absent ELSE w

IsRead(k, a)        == a \in DOMAIN Tables[k].read
ReadBack(k, a, c)   == Tables[k].read[a][c]

\* The attributes whose empty value is read back as null or as a default.
EmptyIsUnset ==
    {"timeout", "notification_ids", "tags", "accepted_status_codes", "username",
     "password", "expires", "weekdays", "days_of_month", "cron", "timezone", "icon",
     "domain_names", "monitor_ids", "status_page_ids", "push_token"} \cup PageTexts

-----------------------------------------------------------------------------
(* The server, as types.go and the descriptions of the schemas tell it: a  *)
(* new row has a column's default where the payload has no such key, an    *)
(* edit sets the column to NULL, and some values are the server's own.     *)

ColumnDefault(k, a) ==
    IF a \in {"active", "expiry_notification", "save_error_response",
              "show_powered_by", "pinned"} THEN One
    ELSE IF k = "maintenance" /\ a \in {"cron", "duration_minutes"} THEN Own
    ELSE IF SchemaOf(k, a).class = "optional" THEN Null
    ELSE IF SchemaOf(k, a).domain = Flag THEN Zero
    ELSE One

StoredByCreate(k, a, v) ==
    IF Sent(k, a, v) = Absent THEN ColumnDefault(k, a)
    ELSE IF a = "icon" /\ v = Two THEN Own    \* an upload, kept as a file
    ELSE Sent(k, a, v)

\* A window's cron and duration are worked out again from its schedule.
StoredByEdit(k, a, v) ==
    IF Sent(k, a, v) = Absent /\ (k = "maintenance" => ColumnDefault(k, a) # Own)
    THEN Null ELSE StoredByCreate(k, a, v)
=============================================================================
