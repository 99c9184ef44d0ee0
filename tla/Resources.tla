------------------------------ MODULE Resources ------------------------------
(***************************************************************************)
(* The life of one resource: the handlers of internal/resource, each a     *)
(* sequence of calls to the server, between Terraform, which refreshes,    *)
(* plans, applies and records, and the server, which keeps the rows.       *)
(*                                                                         *)
(* One resource of some kind is followed through one of its attributes;    *)
(* a row is the column of that attribute.  The other attributes matter by  *)
(* the calls they cause, which may fail, and by the updates they trigger.  *)
(* A call is done, or its answer is lost on the way (a timeout, a broken   *)
(* session), or it never gets there, or the server refuses it.             *)
(***************************************************************************)
EXTENDS Attributes, Naturals

CONSTANTS
    Rows,        \* the rows the server may ever have
    Subjects,    \* the pairs <<kind, attribute>> to follow
    MaxFaults,   \* bound on lost, failed and refused calls, kills and drift
    MaxChanges   \* bound on the changes of the configuration

NoID == "no ID"

ASSUME ResourcesAssumption ==
    /\ \A s \in Subjects : s[1] \in Kinds /\ s[2] \in DOMAIN Tables[s[1]].schema
    /\ Rows # {} /\ Rows \cap (Columns \cup {NoID}) = {}
    /\ MaxFaults \in Nat
    /\ MaxChanges \in Nat

VARIABLES
    kind, attr,  \* what is followed
    config,      \* the value the configuration gives, or Gone: no such block
    touched,     \* another attribute of the block has changed
    recorded,    \* Terraform's state: [id, value, tainted], or None
    refreshed,   \* the state has just been refreshed, a plan may follow
    rows,        \* the server's table: a column, or NoRow
    op,          \* the handler that runs, or "idle"
    calls,       \* the calls it has still to make
    tries,       \* which attempt at the first of them this is
    plan,        \* the value planned for the last create or update
    model,       \* the value in the handler's model
    target,      \* the ID (of a page, the slug) the calls name
    diags,       \* an error is in the diagnostics, and the handler goes on
    last,        \* the last handler to end and what came of it
    strays,      \* rows the user has been told of, or never had in the state
    faults, changes

terraform == <<config, touched, recorded, refreshed, plan, last, changes>>
handler   == <<op, calls, tries, model, target, diags>>
subject   == <<kind, attr>>
vars == <<subject, terraform, handler, rows, strays, faults>>

Gone    == "gone"      \* no block in the configuration
None    == [id |-> NoID, value |-> Null, tainted |-> FALSE]   \* not recorded
NoRow   == "no row"

Attempts == 3          \* of RetryRPC

Live(r) == rows[r] # NoRow

Schema == SchemaOf(kind, attr)

\* A page goes by its slug, everything else by the ID of its row.
Key(table, r) ==
    IF kind # "status_page" THEN r ELSE IF attr = "slug" THEN table[r] ELSE One

Named(id) == {r \in Rows : Live(r) /\ Key(rows, r) = id}

-----------------------------------------------------------------------------
(* The calls of each handler.  All of them go through their calls in the   *)
(* same order, that of Rank.                                               *)

Rank ==
    [add |-> 1, edit |-> 2, save |-> 3, detach |-> 4, attach |-> 5, monitors |-> 6,
     pages |-> 7, look |-> 8, toggle |-> 9, resolve |-> 10, repost |-> 11, set |-> 12,
     enable |-> 13, get |-> 14, remove |-> 15]

Calls == DOMAIN Rank

MonitorHandlers ==
    [create |-> {"add", "attach", "look", "toggle", "get"}, read |-> {"get"},
     update |-> {"edit", "detach", "attach", "look", "toggle", "get"},
     delete |-> {"remove"}]
MaintenanceHandlers ==
    [create |-> {"add", "monitors", "pages", "get"}, read |-> {"get"},
     update |-> {"edit", "monitors", "pages", "get"}, delete |-> {"remove"}]
PageHandlers ==
    [create |-> {"add", "save", "get"}, read |-> {"get"},
     update |-> {"save", "get"}, delete |-> {"remove"}]
IncidentHandlers ==
    [create |-> {"add", "resolve"}, read |-> {"get"},
     update |-> {"edit", "resolve", "repost"}, delete |-> {"remove"}]
ProxyHandlers ==
    [create |-> {"add", "get"}, read |-> {"get"},
     update |-> {"edit", "get"}, delete |-> {"remove"}]
DockerHostHandlers ==
    [create |-> {"add", "get"}, read |-> {"get"},
     update |-> {"edit", "get"}, delete |-> {"remove"}]
NotificationHandlers ==
    [create |-> {"add", "get"}, read |-> {"get"},
     update |-> {"edit", "get"}, delete |-> {"remove"}]
RemoteBrowserHandlers ==
    [create |-> {"add"}, read |-> {"get"}, update |-> {"edit"}, delete |-> {"remove"}]
\* Mutation: the update records the plan and forgets the call.
TagHandlersSilent ==
    [create |-> {"add"}, read |-> {"get"}, update |-> {}, delete |-> {"remove"}]
TagHandlers ==
    [create |-> {"add"}, read |-> {"get"}, update |-> {"edit"}, delete |-> {"remove"}]
APIKeyHandlers ==
    [create |-> {"add", "get"}, read |-> {"get"},
     update |-> {"enable", "get"}, delete |-> {"remove"}]
SettingsHandlers ==
    [create |-> {"look", "set", "get"}, read |-> {"get"},
     update |-> {"look", "set", "get"}, delete |-> {}]

HandlersOf(k) ==
    CASE k \in Monitors               -> MonitorHandlers
      [] k = "maintenance"            -> MaintenanceHandlers
      [] k = "status_page"            -> PageHandlers
      [] k = "status_page_incident"   -> IncidentHandlers
      [] k = "proxy"                  -> ProxyHandlers
      [] k = "docker_host"            -> DockerHostHandlers
      [] k = "notification"           -> NotificationHandlers
      [] k = "remote_browser"         -> RemoteBrowserHandlers
      [] k = "tag"                    -> TagHandlers
      [] k = "api_key"                -> APIKeyHandlers
      [] k = "settings"               -> SettingsHandlers

\* The next call to make.
Due(c) == c \in calls /\ \A d \in calls : Rank[c] <= Rank[d]

Retried == {"add", "edit", "save", "set", "enable", "remove"}

(* Whether the handler o makes call c for the planned value v.  A call that *)
(* is about another attribute is made: that one is set, and changed.        *)

\* Tags that are planned and not recorded are attached, the reverse detached.
reconcileTags(c, v) ==
    attr = "tags" => /\ v # recorded.value
                     /\ (IF c = "attach" THEN v ELSE recorded.value) \notin {Null, Zero}

\* Mutation: it pauses monitors and resumes none.
pauseOnly(o, c, v) ==
    IF c = "look" THEN attr = "active" => IsSet(v)
    ELSE /\ attr = "active" /\ v = Zero /\ o = "update"
         /\ \E r \in Named(recorded.id) : BoolOrTrue[rows[r]] # v

\* The monitor is read only for a planned value, and toggled if it differs.
reconcileActive(o, c, v) ==
    IF c = "look" THEN attr = "active" => IsSet(v)
    ELSE /\ attr = "active" /\ IsSet(v) /\ o = "update"
         /\ \E r \in Named(recorded.id) : BoolOrTrue[rows[r]] # v

\* An incident is unpinned by a resolve and pinned again by a new post.
reconcilePinned(o, c, v) ==
    /\ attr = "pinned" /\ IsSet(v)
    /\ v = IF c = "resolve" THEN Zero ELSE One
    /\ o = "update" => v # ValueOf[recorded.value]

\* A new window has no association to remove, an old one is always sent its own.
Attached(o, c, v) ==
    o = "create" /\ attr = (IF c = "monitors" THEN "monitor_ids" ELSE "status_page_ids")
        => v \notin {Null, Zero}

Needed(o, c, v) ==
    CASE c \in {"attach", "detach"}  -> reconcileTags(c, v)
      [] c \in {"look", "toggle"}    -> reconcileActive(o, c, v)
      [] c \in {"resolve", "repost"} -> reconcilePinned(o, c, v)
      [] c \in {"monitors", "pages"} -> Attached(o, c, v)
      [] c = "enable"                -> ValueOf[v] # recorded.value
      [] OTHER                       -> TRUE

\* The calls that store the attribute.
Writers ==
    CASE kind \in Monitors /\ attr = "active"         -> {"add", "toggle"}
      [] kind \in Monitors /\ attr = "tags"           -> {"attach"}
      [] kind = "maintenance" /\ attr = "monitor_ids" -> {"monitors"}
      [] kind = "maintenance" /\ attr = "status_page_ids" -> {"pages"}
      [] kind = "status_page" -> IF attr \in {"slug", "title"} THEN {"add", "save"}
                                                               ELSE {"save"}
      [] kind = "api_key"     -> IF attr = "active" THEN {"add", "enable"} ELSE {"add"}
      [] attr = "pinned"      -> {}
      [] OTHER                -> {"add", "edit", "set"}

\* An incident that is pinned again is posted anew.
Makes(c) == c \in {"add", "repost"}

\* What call c leaves in the column of the row it names.
Written(c, column) ==
    CASE c = "add" /\ c \in Writers        -> StoredByCreate(kind, attr, model)
      [] Makes(c) /\ c \notin Writers      -> ColumnDefault(kind, attr)
      [] ~Makes(c) /\ c \in Writers        -> StoredByEdit(kind, attr, model)
      [] c = "detach" /\ attr = "tags"     -> Zero
      [] c = "resolve" /\ attr = "pinned"  -> Zero
      [] c = "remove"                      -> NoRow
      [] OTHER                             -> column

\* A row that is gone and that nothing names any more stands for a new one.
Vacant(r) == ~Live(r) /\ r \notin {recorded.id, target}

\* A call takes a vacant row, or is about the one it names.
Subject(c) == IF Makes(c) THEN {CHOOSE r \in Rows : Vacant(r)} ELSE Named(target)

\* Posting an incident unpins the others.
After(c, r) ==
    [q \in Rows |->
        CASE q = r -> Written(c, rows[q])
          [] q # r /\ Makes(c) /\ attr = "pinned" /\ Live(q) -> Zero
          [] OTHER -> rows[q]]

Room == \E r \in Rows : Vacant(r)

\* The server turns down a slug that is taken and a write to a row that is gone.
Taken(c) ==
    /\ kind = "status_page" /\ c \in {"add", "save"}
    /\ \E r \in Rows \ Named(target) :
           Live(r) /\ Key(rows, r) = (IF attr = "slug" THEN model ELSE One)
Missing(c) == ~Makes(c) /\ Named(target) = {}

\* The attribute is read back: a new key's name and expiry are not.
ReadHere ==
    /\ IsRead(kind, attr)
    /\ kind = "api_key" /\ op \notin {"read", "import"} => attr = "active"

\* Mutation: it clears what the server never returns again.
AnsweredAfresh(c, column) ==
    CASE c = "get" /\ ReadHere -> ReadBack(kind, attr, column)
      [] c = "get" /\ attr = "key" /\ op # "create" -> Null
      [] c = "add" /\ attr = "key" -> Own
      [] kind = "status_page_incident" /\ c # "remove" -> ReadBack(kind, attr, column)
      [] OTHER -> model

\* What the handler's model holds once call c has answered, column c stored.
Answered(c, column) ==
    CASE c = "get" /\ ReadHere -> ReadBack(kind, attr, column)
      [] c = "get" /\ attr = "key" /\ op = "update" -> recorded.value
      [] c = "add" /\ attr = "key" -> Own
      [] kind = "status_page_incident" /\ c # "remove" -> ReadBack(kind, attr, column)
      [] OTHER -> model

-----------------------------------------------------------------------------
(* How a handler ends.                                                     *)

Reported(what) == last' = <<op, what>>

\* The live rows the state does not name.  The user is told of them when a
\* create or an update reports an error.
Unnamed(table, state) ==
    {r \in Rows : /\ table[r] # NoRow
                  /\ state = None \/ Key(table, r) # state.id}

Idle == op' = "idle" /\ calls' = {} /\ tries' = 1 /\ diags' = FALSE
        /\ model' = Null /\ target' = NoID

\* Terraform compares what it gets with what it planned, the ID included.
Differs(v) == plan # Unknown /\ v # plan
Kept(v)    == ~Differs(v) /\ (op = "update" => target = recorded.id)

Fail ==
    /\ recorded' = IF op = "create" /\ kind = "status_page" /\ Due("save")
                   THEN [id |-> target, tainted |-> TRUE,
                         value |-> IF model = Unknown THEN Null ELSE model]
                   ELSE recorded
    /\ strays' = IF op \in {"create", "update"} THEN Unnamed(rows', recorded')
                                                ELSE strays
    /\ Idle /\ Reported("failed") /\ refreshed' = FALSE
    /\ UNCHANGED <<config, touched, plan, changes>>

\* Call c has failed for good.  Tags that cannot be changed do not keep
\* reconcileActive from running.
GiveUp(c) ==
    IF op = "update" /\ c \in {"detach", "attach"} /\ "look" \in calls
    THEN /\ calls' = calls \cap {"look", "toggle"}
         /\ diags' = TRUE /\ tries' = 1
         /\ UNCHANGED <<terraform, op, model, target, strays>>
    ELSE Fail

\* Mutation: one attempt too many.
TransientTooOften(c, made) ==
    IF c \in Retried /\ tries <= Attempts
    THEN /\ tries' = tries + 1 /\ strays' = strays \cup made
         /\ UNCHANGED <<terraform, op, calls, model, target, diags>>
    ELSE GiveUp(c)

\* RetryRPC repeats a call of its own after a transient failure, whatever rows
\* the failed attempt has made.
Transient(c, made) ==
    IF c \in Retried /\ tries < Attempts
    THEN /\ tries' = tries + 1 /\ strays' = strays \cup made
         /\ UNCHANGED <<terraform, op, calls, model, target, diags>>
    ELSE GiveUp(c)

-----------------------------------------------------------------------------
(* The calls.                                                              *)

Calling(c) == op # "idle" /\ Due(c)

\* The failing attempts at one call count as one fault.
Fault ==
    \/ tries = 1 /\ faults < MaxFaults /\ faults' = faults + 1
    \/ tries > 1 /\ UNCHANGED faults

\* The server does what call c asks and the answer arrives.
Done(c) ==
    /\ \E r \in Subject(c) :
        /\ rows' = After(c, r)
        /\ model' = Answered(c, rows'[r])
        /\ target' = IF Makes(c) THEN Key(rows', r)
                     ELSE IF c = "save" /\ attr = "slug" THEN model ELSE target
    /\ calls' = calls \ {c} /\ tries' = 1
    /\ UNCHANGED <<terraform, op, diags, strays>>

\* Mutation: a row that is gone is an error.
NotFoundFails(c) ==
    IF c = "remove"
    THEN /\ calls' = calls \ {c} /\ tries' = 1
         /\ UNCHANGED <<terraform, op, model, target, diags, strays>>
    ELSE GiveUp(c)

\* The server answers that there is no such row, or that it will not.
NotFound(c) ==
    IF c = "remove"
    THEN /\ calls' = calls \ {c} /\ tries' = 1
         /\ UNCHANGED <<terraform, op, model, target, diags, strays>>
    ELSE IF op = "read"
    THEN /\ recorded' = None /\ refreshed' = TRUE /\ Reported("gone") /\ Idle
         /\ UNCHANGED <<config, touched, plan, changes, strays>>
    ELSE GiveUp(c)

\* The server's side of the next call, and what the handler makes of it.
Answer ==
    \E c \in calls :
        /\ Calling(c)
        /\ \/ Taken(c) /\ UNCHANGED rows /\ GiveUp(c)
           \/ ~Taken(c) /\ Missing(c) /\ UNCHANGED rows /\ NotFound(c)
           \/ ~Taken(c) /\ ~Missing(c) /\ (Makes(c) => Room) /\ Done(c)
        /\ UNCHANGED <<subject, faults>>

\* The call is carried out, its answer is not received in time.
Lost ==
    \E c \in calls :
        /\ Calling(c) /\ Fault
        /\ ~Taken(c) /\ ~Missing(c) /\ (Makes(c) => Room)
        /\ \E r \in Subject(c) :
            /\ rows' = After(c, r)
            /\ Transient(c, IF Makes(c) THEN {r} ELSE {})
        /\ UNCHANGED subject

\* The call does not reach the server.
Down ==
    \E c \in calls :
        /\ Calling(c) /\ Fault
        /\ UNCHANGED <<subject, rows>>
        /\ Transient(c, {})

\* Mutation: every rejection means that the row is gone.
RefusedAsGone ==
    \E c \in calls :
        /\ Calling(c) /\ Fault
        /\ UNCHANGED <<subject, rows>>
        /\ NotFound(c)

\* The server rejects the call: IsRetryable says no.
Refused ==
    \E c \in calls :
        /\ Calling(c) /\ Fault
        /\ UNCHANGED <<subject, rows>>
        /\ GiveUp(c)

\* The run is cancelled while RetryRPC waits.
Cancelled ==
    /\ op # "idle" /\ calls # {} /\ Fault /\ tries > 1
    /\ UNCHANGED <<subject, rows>>
    /\ Fail

\* The provider is killed: Terraform has the state it had.
Killed ==
    /\ op # "idle" /\ Fault
    /\ recorded' = recorded
    /\ strays' = IF op \in {"create", "update"} THEN Unnamed(rows, recorded) ELSE strays
    /\ Idle /\ Reported("killed") /\ refreshed' = FALSE
    /\ UNCHANGED <<subject, config, touched, plan, changes, rows>>

\* Every call is made: the handler sets the state, or has told its errors.
Return ==
    /\ op # "idle" /\ calls = {}
    /\ UNCHANGED <<subject, rows, faults>>
    /\ IF diags THEN Fail
       ELSE LET good == op \in {"create", "update"} => Kept(model) IN
            /\ recorded' = IF op = "delete" THEN None
                           ELSE [id |-> target, value |-> model,
                                 tainted |-> \/ op = "create" /\ ~good
                                             \/ op = "read" /\ recorded.tainted]
            /\ strays' = IF good THEN strays \cap Unnamed(rows, recorded')
                                 ELSE Unnamed(rows, recorded')
            /\ touched' = (touched /\ op \notin {"create", "update"})
            /\ refreshed' = (op = "read")
            /\ Reported(IF good THEN "ok" ELSE "inconsistent") /\ Idle
            /\ UNCHANGED <<config, plan, changes>>

-----------------------------------------------------------------------------
(* Terraform, which refreshes before it plans, and its user.               *)

Begin(o, v, id) ==
    /\ op = "idle" /\ op' = o
    /\ LET todo == HandlersOf(kind)[IF o = "import" THEN "read" ELSE o] IN
       calls' = {c \in todo : Needed(o, c, v)}
    /\ model' = v /\ target' = id /\ tries' = 1 /\ diags' = FALSE

Refresh ==
    /\ recorded # None /\ ~refreshed
    /\ Begin("read", recorded.value, recorded.id)
    /\ UNCHANGED <<subject, terraform, rows, strays, faults>>

\* The value planned: what is configured, or else what the schema says of an
\* attribute that is not.
Planned(o) ==
    IF config # Null THEN config
    ELSE IF Schema.class = "optional" THEN Null
    ELSE IF o = "update" /\ Schema.sticky /\ recorded.value # Null THEN recorded.value
    ELSE Unknown

Changed ==
    \/ config # Null /\ config # recorded.value
    \/ config = Null /\ Schema.class = "optional" /\ recorded.value # Null

\* Every other attribute of an API key replaces it.
Replacing ==
    \/ recorded.tainted
    \/ Changed /\ Schema.replace
    \/ touched /\ kind = "api_key"

Ready == op = "idle" /\ (refreshed \/ recorded = None)

\* The rows a create is about: settings are always there, and so is their row.
Adopted == IF kind = "settings" THEN CHOOSE r \in Rows : Live(r) ELSE NoID

ApplyCreate ==
    /\ Ready /\ config # Gone /\ recorded = None
    /\ plan' = Planned("create")
    /\ Begin("create", plan', Adopted)
    /\ UNCHANGED <<subject, config, touched, recorded, refreshed, last, changes,
                   rows, strays, faults>>

ApplyUpdate ==
    /\ Ready /\ config # Gone /\ recorded # None
    /\ ~Replacing /\ (Changed \/ touched)
    /\ plan' = Planned("update")
    /\ Begin("update", plan', recorded.id)
    /\ UNCHANGED <<subject, config, touched, recorded, refreshed, last, changes,
                   rows, strays, faults>>

ApplyDelete ==
    /\ Ready /\ recorded # None
    /\ config = Gone \/ Replacing
    /\ Begin("delete", recorded.value, recorded.id)
    /\ UNCHANGED <<subject, terraform, rows, strays, faults>>

\* ImportState passes the ID on, and Read does the rest.
Import ==
    /\ config # Gone /\ recorded = None
    /\ \E r \in Rows : Live(r) /\ Begin("import", Null, Key(rows, r))
    /\ UNCHANGED <<subject, terraform, rows, strays, faults>>

\* What a user may write for the attribute, and leaving it out.
Writable ==
    Schema.domain \cup (IF Schema.class = "required" THEN {} ELSE {Null})

Configure ==
    /\ op = "idle" /\ changes < MaxChanges /\ changes' = changes + 1
    /\ \/ config' \in (Writable \cup {Gone}) \ {config} /\ UNCHANGED touched
       \/ config # Gone /\ ~touched /\ touched' = TRUE /\ UNCHANGED config
    /\ UNCHANGED <<subject, recorded, refreshed, plan, last, handler, rows, strays,
                   faults>>

\* Somebody else changes or deletes a row in the web UI between two runs.
Drift ==
    /\ op = "idle" /\ ~refreshed /\ Fault
    /\ \E r \in Rows :
        /\ Live(r)
        /\ \E c \in (Schema.domain \ {rows[r]})
                     \cup (IF kind = "settings" THEN {} ELSE {NoRow}) :
               /\ attr = "slug" => \A q \in Rows : rows[q] # c \/ c = NoRow
               /\ rows' = [rows EXCEPT ![r] = c]
        /\ strays' = IF attr = "slug" THEN strays \cup {r} ELSE strays
    /\ Reported("drift")
    /\ UNCHANGED <<subject, config, touched, recorded, refreshed, plan, changes,
                   handler>>

-----------------------------------------------------------------------------

Init ==
    /\ \E s \in Subjects : kind = s[1] /\ attr = s[2]
    /\ config = Gone /\ touched = FALSE
    /\ recorded = None /\ refreshed = FALSE
    /\ LET first == CHOOSE r \in Rows : TRUE IN
       rows = [r \in Rows |-> IF kind = "settings" /\ r = first
                              THEN ColumnDefault(kind, attr) ELSE NoRow]
    /\ strays = {}
    /\ op = "idle" /\ calls = {} /\ tries = 1
    /\ plan = Unknown /\ model = Null /\ target = NoID
    /\ diags = FALSE /\ last = <<"none", "none">>
    /\ faults = 0 /\ changes = 0

Program == Answer \/ Return
Faults  == Lost \/ Down \/ Refused \/ Cancelled \/ Killed \/ Drift
Runs    == Refresh \/ ApplyCreate \/ ApplyUpdate \/ ApplyDelete
Next    == Program \/ Faults \/ Runs \/ Import \/ Configure

Spec == Init /\ [][Next]_vars

\* The handlers run to their end, and the user runs Terraform until it has
\* nothing left to do.
FairSpec == Spec /\ WF_vars(Program) /\ WF_vars(Runs)

-----------------------------------------------------------------------------
(* Properties                                                              *)

\* Every variable has its type.
TypeOK ==
    /\ kind \in Kinds /\ attr \in DOMAIN Tables[kind].schema
    /\ config \in Columns \cup {Gone} /\ plan \in Values /\ model \in Values
    /\ recorded \in {None} \cup
         [id : Rows \cup Known, value : Columns, tainted : BOOLEAN]
    /\ rows \in [Rows -> Columns \cup {NoRow}]
    /\ op \in {"idle", "create", "read", "update", "delete", "import"}
    /\ tries \in 1..Attempts /\ calls \subseteq Calls
    /\ target \in Rows \cup Known \cup {NoID} /\ strays \subseteq Rows
    /\ {touched, refreshed, diags} \subseteq BOOLEAN
    /\ faults \in 0..MaxFaults /\ changes \in 0..MaxChanges

Applied == last \in {"create", "update"} \X {"ok"}

\* A create or an update that reports no error has left the row it names as
\* planned: what was planned is recorded, the next refresh reads the very
\* value recorded, and an Optional attribute taken out of the configuration
\* no longer has its old value on the server.
SuccessIsApplied ==
    Applied =>
        \E r \in Named(recorded.id) :
            /\ plan # Unknown => recorded.value = plan
            /\ IsRead(kind, attr) => \/ recorded.value = ReadBack(kind, attr, rows[r])
                                     \/ kind = "api_key" /\ plan = Zero
            /\ plan = Null => rows[r] \in {Null, Zero}

\* The state forgets no row without a word: a live row is named by the state,
\* or was there before, or an operation told the user of an error, or RetryRPC
\* warned that it repeats a create whose answer was lost.  Settings have no
\* row to lose.
NothingForgotten ==
    op = "idle" /\ kind # "settings" => Unnamed(rows, recorded) \subseteq strays

\* Terraform is given something else than it planned only for an empty value
\* that is read back as unset, for a time of day that is left out of a window
\* that recurs, for an icon that is uploaded, and for a page that is renamed
\* or an incident that is pinned again, whose ID is a new one.
InconsistentOnlyFor ==
    last[2] = "inconsistent" =>
        \/ plan = Zero /\ attr \in EmptyIsUnset
        \/ plan = Null /\ attr \in Times
        \/ plan = Two /\ attr = "icon"
        \/ last[1] = "update" /\ attr \in {"slug", "pinned"}

\* The clear text of an API key, once recorded, stays in the state as long as
\* the state names the key: no refresh or update overwrites it.
KeyIsKept ==
    [][attr = "key" /\ recorded # None /\ recorded' # None
       /\ recorded'.id = recorded.id
         => recorded'.value = recorded.value]_vars

\* What is configured is recorded, and a plan would find nothing to change.
Settled ==
    IF config = Gone THEN recorded = None
    ELSE recorded # None /\ ~recorded.tainted /\ ~Changed /\ ~touched

\* The slug that is configured is held by a page the state does not name.
Collides ==
    /\ kind = "status_page"
    /\ LET slug == IF attr = "slug" THEN config ELSE One IN
       slug # recorded.id /\ Named(slug) # {}

\* Values no apply ever settles.
NeverSettles ==
    \/ config = Zero /\ attr \in EmptyIsUnset
    \/ config = Null /\ attr \in Times
    \/ config = Two /\ attr = "icon"

\* Once the faults are over and the configuration stays, repeated runs bring
\* the state to the configuration and find nothing more to change, but for
\* the values above and for a page whose slug an unrecorded page holds.
ApplyConverges == <>[](Settled \/ Collides \/ NeverSettles)

\* A page is renamed by saving it under its old slug with the new one in the
\* payload, and Terraform takes the result.
RenameWorks == attr = "slug" => last # <<"update", "inconsistent">>

\* The clear text of an API key, which only the answer to its create has, is
\* in the state when that create ends, unless the provider is killed.
ClearTextStored ==
    [][attr = "key" /\ op = "create" /\ model = Own
       /\ op' = "idle" /\ last'[2] # "killed"
         => recorded'.value = Own]_vars
=============================================================================
