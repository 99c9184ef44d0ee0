-------------------------- MODULE ConsistencyProofs --------------------------
(***************************************************************************)
(* Proof that Terraform is given something else than it planned only for   *)
(* the values named in InconsistentOnlyFor: with the invariant of          *)
(* ResourcesProofs, the plan is followed through the model, the column and *)
(* back, call by call; RoundTrip says what one such trip makes of it.      *)
(***************************************************************************)
EXTENDS ResourcesProofs, RoundTripProofs

-----------------------------------------------------------------------------
(* The inductive invariant.                                                *)

\* A create or an update that has met no error, of a value that is known and
\* comes back as it is.
Firm == Applying /\ ~diags /\ plan # Unknown /\ ~Exempt(attr, plan)

\* What is planned may be planned.
Plans ==
    Applying =>
        /\ plan \in Plannable(kind, attr) \cup {Unknown}
        /\ attr = "key" => plan = Unknown \/ (op = "update" /\ plan = recorded.value)

\* The model holds the plan until the handler ends.  An incident that is not to
\* be pinned is posted pinned first.
ModelHolds ==
    Firm => \/ model = plan
            \/ attr = "pinned" /\ (op = "update" \/ "resolve" \in calls)

\* Once every call that stores the attribute is made, reading the row gives the
\* plan.
Stores(c) == c \in Writers \/ (c = "detach" /\ attr = "tags")
ColumnHolds ==
    Firm /\ ReadHere /\ "get" \in calls /\ (\A c \in calls : ~Stores(c))
        => \A r \in Named(target) : ReadBack(kind, attr, rows[r]) = plan

\* The attributes kept in a table of their own, which a call of its own fills.
Linked ==
    \/ kind \in Monitors /\ attr = "tags"
    \/ kind = "maintenance" /\ attr \in Associations

\* A call that is left out was not needed for the plan.
CallsFit ==
    /\ Firm /\ Linked /\ calls \cap {"add", "detach"} # {} /\ calls \cap Writers = {}
         => plan = Null
    /\ Firm /\ op = "create" /\ attr = "pinned" =>
         /\ "resolve" \in calls => plan = Zero
         /\ "add" \in calls /\ "resolve" \notin calls => plan = One
    /\ Applying /\ calls \cap {"resolve", "repost"} # {} => attr = "pinned"
    /\ op = "create" /\ kind = "status_page" /\ "add" \in calls => "save" \in calls
    /\ op = "update" => target = recorded.id \/ attr \in {"slug", "pinned"}

\* A state that has just been refreshed is what the server has.
Fresh ==
    IsRead(kind, attr) =>
        /\ op = "idle" /\ refreshed
             => \A r \in Named(recorded.id) : recorded.value = ReadBack(kind, attr, rows[r])
        /\ op = "read" /\ calls = {}
             => \A r \in Named(target) : model = ReadBack(kind, attr, rows[r])

\* Between an inconsistent result and the end of the next refresh nothing is
\* planned.
Told ==
    /\ last[2] = "inconsistent" => op \in {"idle", "read"} /\ recorded # None /\ ~refreshed
    /\ InconsistentOnlyFor

Faithful ==
    Plans /\ ModelHolds /\ ColumnHolds /\ CallsFit /\ Fresh /\ Told

-----------------------------------------------------------------------------
(* The tables and the calls.                                               *)

\* A flag is read with a default of its own, and the plan always has one.
LEMMA FlagTables ==
    /\ \A k \in Monitors : /\ SchemaOf(k, "active") = Both(Flag)
                           /\ \A c \in Columns : ReadBack(k, "active", c) = BoolOrTrue[c]
    /\ SchemaOf("api_key", "active") = Both(Flag)
    /\ SchemaOf("status_page_incident", "pinned") = Both(Flag)
    /\ \A c \in {Zero, One} : ReadBack("status_page_incident", "pinned", c) = c
  <1>1. BaseSchema["active"] = Both(Flag) /\ "active" \in DOMAIN BaseSchema
    BY DEF BaseSchema, ++, Each
  <1>2. /\ (readBase ++ readTags)["active"] = BoolOrTrue
        /\ "active" \in DOMAIN (readBase ++ readTags)
    BY DEF readBase, readTags, ++, Each
  <1>3. ASSUME NEW k \in Monitors
        PROVE  /\ SchemaOf(k, "active") = Both(Flag)
               /\ \A c \in Columns : ReadBack(k, "active", c) = BoolOrTrue[c]
    <2>1. /\ Tables[k].schema = BaseSchema ++ MonitorTypes[k].schema
          /\ Tables[k].read = (readBase ++ readTags) ++ MonitorTypes[k].read
      BY TablesDef DEF And, Base
    <2>2. /\ Tables[k].schema["active"] = BaseSchema["active"]
          /\ Tables[k].read["active"] = (readBase ++ readTags)["active"]
      BY <1>1, <1>2, <2>1, InMerge DEF ++
    <2>3. QED  BY <1>1, <1>2, <2>2 DEF SchemaOf, ReadBack
  <1>4. SchemaOf("api_key", "active") = Both(Flag)
    BY TablesDef DEF SchemaOf, Table, APIKeySchema, ++, Each
  <1>5. SchemaOf("status_page_incident", "pinned") = Both(Flag)
    BY TablesDef DEF SchemaOf, Table, IncidentSchema, ++, Each
  <1>6. Tables["status_page_incident"].read["pinned"] = BoolOrFalse
    BY TablesDef DEF Table, IncidentReadInto, ++, Each
  <1>7. QED
    BY <1>3, <1>4, <1>5, <1>6
       DEF ReadBack, BoolOrFalse, NullAs, Columns, Known, Null, Zero, One

\* Nothing linked is read as null, and so is a column of nothing; an empty list
\* may be read as something else than it was planned.
LEMMA LinkedTables ==
    ASSUME NEW k \in Kinds, NEW a \in DOMAIN Tables[k].schema,
           (k \in Monitors /\ a = "tags") \/ (k = "maintenance" /\ a \in Associations),
           IsRead(k, a)
    PROVE  /\ a \in EmptyIsUnset
           /\ \A c \in Columns : ReadBack(k, a, c) # Zero
           /\ ReadBack(k, a, Null) = Null /\ ReadBack(k, a, Zero) = Null
           /\ SchemaOf(k, a).class = "optional" => ColumnDefault(k, a) = Null
  <1>1. a \in Lists /\ a \in NullableOf(k) /\ a \in EmptyIsUnset
    BY DEF Lists, NullableOf, Nullable, Associations, EmptyIsUnset
  <1>2. ReadKept(a, Tables[k].read[a], NullableOf(k))
    BY TablesKept DEF KindKept, ReadTable, IsRead
  <1>3. ReadBack(k, a, Null) = Null /\ ReadBack(k, a, Zero) = Null
    BY <1>1, <1>2 DEF ReadKept, ReadBack
  <1>4. Tables[k].read[a] \in ReadEntry
    BY TablesOK DEF TableOK, All, IsRead
  <1>5. \A c \in {One, Two, Own} : ReadBack(k, a, c) = c
    BY <1>4 DEF ReadEntry, NormalEntry, Keeps, ReadBack
  <1>6. \A c \in Columns : ReadBack(k, a, c) # Zero
    BY <1>3, <1>5 DEF Columns, Known, Null, Zero, One, Two, Own
  <1>7. QED  BY <1>1, <1>3, <1>6, DefaultOfNullable

\* The calls that store the attribute, by what it is.
LEMMA WriterFacts ==
    ASSUME kind \in Kinds, attr \in DOMAIN Tables[kind].schema
    PROVE  /\ Writers \subseteq {"add", "edit", "save", "set", "attach", "toggle",
                                 "monitors", "pages", "enable"}
           /\ kind \in Monitors /\ attr = "tags" => Writers = {"attach"}
           /\ kind = "maintenance" /\ attr = "monitor_ids" => Writers = {"monitors"}
           /\ kind = "maintenance" /\ attr = "status_page_ids" => Writers = {"pages"}
           /\ "add" \notin Writers =>
                Linked \/ attr = "pinned" \/ (kind = "status_page" /\ "save" \in Writers)
           /\ kind = "status_page_incident" /\ attr # "pinned"
                => "add" \in Writers /\ "edit" \in Writers
  BY CallFacts, TablesDef DEF Writers, Others, Linked, Associations

\* What an update always calls, one of which stores the attribute: all but the
\* tags and the active flag of a monitor and the active flag of a key.
LEMMA UpdateStores ==
    ASSUME kind \in Kinds, attr \in DOMAIN Tables[kind].schema,
           kind # "status_page_incident"
    PROVE  \/ kind \in Monitors /\ attr \in {"active", "tags"}
           \/ kind = "api_key"
           \/ \E c \in HandlersOf(kind)["update"] : c \in Writers /\ \A v : Needed("update", c, v)
  <1>1. CASE kind \in Monitors
    <2>1. HandlersOf(kind) = MonitorHandlers
      BY <1>1, TablesDef DEF HandlersOf, Others
    <2>2. attr \notin {"active", "tags", "pinned"} => "edit" \in Writers
      BY <1>1, TablesDef DEF Writers, Others
    <2>3. attr # "pinned"
      BY <1>1, KindOfAttribute, TablesDef DEF Others
    <2>4. QED  BY <1>1, <2>1, <2>2, <2>3, AlwaysNeeded DEF MonitorHandlers
  <1>2. CASE kind = "maintenance"
    <2>1. HandlersOf(kind) = MaintenanceHandlers
      BY <1>2, TablesDef DEF HandlersOf, Others
    <2>2. attr # "pinned"
      BY <1>2, KindOfAttribute
    <2>3. \E c \in {"edit", "monitors", "pages"} : c \in Writers
      BY <1>2, <2>2, TablesDef DEF Writers, Others
    <2>4. \A c \in {"edit", "monitors", "pages"} : \A v : Needed("update", c, v)
      BY DEF Needed, Attached
    <2>5. QED  BY <2>1, <2>3, <2>4 DEF MaintenanceHandlers
  <1>3. CASE kind = "status_page"
    <2>1. "save" \in HandlersOf(kind)["update"]
      BY <1>3, HandlerFacts
    <2>2. "save" \in Writers
      BY <1>3, KindOfAttribute, TablesDef DEF Writers, Others
    <2>3. QED  BY <2>1, <2>2, AlwaysNeeded
  <1>4. CASE kind = "settings"
    <2>1. HandlersOf(kind) = SettingsHandlers
      BY <1>4, TablesDef DEF HandlersOf, Others
    <2>2. attr # "pinned"
      BY <1>4, KindOfAttribute
    <2>3. "set" \in Writers
      BY <1>4, <2>2, TablesDef DEF Writers, Others
    <2>4. \A v : Needed("update", "set", v)
      BY DEF Needed
    <2>5. QED  BY <2>1, <2>3, <2>4 DEF SettingsHandlers
  <1>5. CASE kind \in {"proxy", "docker_host", "notification", "tag", "remote_browser"}
    <2>1. "edit" \in HandlersOf(kind)["update"]
      BY <1>5, TablesDef DEF HandlersOf, Others, ProxyHandlers, DockerHostHandlers,
         NotificationHandlers, TagHandlers, RemoteBrowserHandlers
    <2>2. attr # "pinned"
      BY <1>5, KindOfAttribute
    <2>3. "edit" \in Writers
      BY <1>5, <2>2, TablesDef DEF Writers, Others
    <2>4. QED  BY <2>1, <2>3, AlwaysNeeded
  <1>6. QED  BY <1>1, <1>2, <1>3, <1>4, <1>5, TablesDef DEF Others

-----------------------------------------------------------------------------
(* The end of a handler, and a call that fails.                            *)

\* What a step has to keep when no create or update runs after it.
LEMMA NotApplying ==
    ASSUME ~Applying', Fresh', Told'
    PROVE  Faithful'
  BY DEF Faithful, Plans, ModelHolds, ColumnHolds, CallsFit, Firm, Applying

\* No key is that of no row.
LEMMA NothingNamed ==
    ASSUME NEW table, Consistent(table)
    PROVE  {r \in Rows : table[r] # NoRow /\ Key(table, r) = NoID} = {}
  BY KeyType, MarksDiffer

\* An error and a kill leave nothing refreshed.
LEMMA FailFaithful ==
    ASSUME Fail \/ Killed
    PROVE  Faithful'
  <1>1. op' = "idle" /\ refreshed' = FALSE /\ last'[2] \in {"failed", "killed"}
    BY DEF Fail, Killed, Idle, Reported
  <1>2. ~Applying' /\ Fresh' /\ Told'
    BY <1>1 DEF Applying, Fresh, Told, InconsistentOnlyFor
  <1>3. QED  BY <1>2, NotApplying

\* Tags that cannot be changed: what follows is told with an error.
LEMMA GiveUpFaithful ==
    ASSUME Inv, Faithful, UNCHANGED subject, NEW c, GiveUp(c)
    PROVE  Faithful'
  <1>1. CASE Fail
    BY <1>1, FailFaithful
  <1>2. CASE ~Fail
    <2>1. /\ op = "update" /\ op' = op /\ diags' = TRUE
          /\ calls' = calls \cap {"look", "toggle"}
          /\ kind' = kind /\ attr' = attr /\ plan' = plan /\ recorded' = recorded
          /\ target' = target /\ last' = last /\ refreshed' = refreshed
      BY <1>2 DEF GiveUp, subject, terraform
    <2>2. Plans' /\ CallsFit'
      BY <2>1 DEF Faithful, Plans, CallsFit, Applying, Firm
    <2>3. ModelHolds' /\ ColumnHolds'
      BY <2>1 DEF ModelHolds, ColumnHolds, Firm
    <2>4. Fresh' /\ Told'
      BY <2>1 DEF Faithful, Fresh, Told, InconsistentOnlyFor
    <2>5. QED  BY <2>2, <2>3, <2>4 DEF Faithful
  <1>3. QED  BY <1>1, <1>2

\* A call that RetryRPC repeats has stored the plan, if anything: the row is
\* read only when no call is left that stores.
LEMMA RetryFaithful ==
    ASSUME Inv, Faithful, Running, NEW c \in calls, Due(c), UNCHANGED subject,
           UNCHANGED rows \/ \E r \in Subject(c) : Served(c, r),
           c \in Retried, UNCHANGED <<terraform, op, calls, model, target, diags>>
    PROVE  Faithful'
  <1>1. /\ kind' = kind /\ attr' = attr /\ op' = op /\ model' = model /\ target' = target
        /\ plan' = plan /\ recorded' = recorded /\ refreshed' = refreshed /\ last' = last
        /\ calls' = calls /\ diags' = diags /\ ReadHere' = ReadHere
        /\ Writers' = Writers
    BY DEF subject, terraform, ReadHere, Writers
  <1>2. op \notin {"idle", "read"}
    BY HandlerInv DEF Retried, Running
  <1>3. Plans' /\ ModelHolds' /\ CallsFit'
    BY <1>1 DEF Faithful, Plans, ModelHolds, CallsFit, Firm, Applying, Linked
  <1>4. Fresh' /\ Told'
    BY <1>1, <1>2 DEF Faithful, Fresh, Told, InconsistentOnlyFor
  <1>5. ColumnHolds'
    <2> SUFFICES ASSUME Firm, ReadHere, "get" \in calls, \A d \in calls : ~Stores(d),
                        NEW q \in Rows, rows'[q] # NoRow, Key(rows', q) = target
                 PROVE  ReadBack(kind, attr, rows'[q]) = plan
      BY <1>1 DEF ColumnHolds, Firm, Applying, Stores, Named, Live, Key
    <2>1. CASE UNCHANGED rows
      BY <2>1 DEF Faithful, ColumnHolds, Named, Live
    <2>2. ASSUME NEW r \in Subject(c), Served(c, r)
          PROVE  ReadBack(kind, attr, rows'[q]) = plan
      <3>1. /\ c # "repost" /\ c # "resolve" /\ c # "get"
            /\ c # "remove" /\ (c = "add" => op = "create")
        <4>1. Applying /\ op # "delete"
          BY DEF Firm, Applying
        <4>2. QED  BY <4>1, HandlerInv DEF Retried
      <3>2. CASE c = "add"
        <4>1. target = NoID
          BY <3>1, <3>2 DEF Inv, Control
        <4>2. Consistent(rows)' /\ kind' = kind /\ attr' = attr
          BY <1>1, TableAfter
        <4>3. Consistent(rows')
          BY <4>2 DEF Consistent, Key
        <4>4. QED  BY <4>1, <4>3, NothingNamed
      <3>3. CASE c # "add"
        <4>1. ~Makes(c) /\ ~Stores(c)
          BY <3>1, <3>3 DEF Makes
        <4>2. \A p \in Rows : Written(c, rows[p]) = rows[p]
          BY <3>1, <3>3, <4>1 DEF Written, Stores
        <4>3. rows'[q] = rows[q]
          BY <2>2, <4>1, <4>2 DEF Served, After
        <4>4. Key(rows', q) = Key(rows, q)
          BY <4>3 DEF Key
        <4>5. q \in Named(target)
          BY <4>3, <4>4 DEF Named, Live
        <4>6. QED  BY <4>3, <4>5 DEF Faithful, ColumnHolds
      <3>4. QED  BY <3>2, <3>3
    <2>3. QED  BY <2>1, <2>2
  <1>6. QED  BY <1>3, <1>4, <1>5 DEF Faithful

\* A call that may be repeated, or is given up.
LEMMA TransientFaithful ==
    ASSUME Inv, Faithful, Running, NEW c \in calls, Due(c), UNCHANGED subject, NEW made,
           UNCHANGED rows \/ \E r \in Subject(c) : Served(c, r), Transient(c, made)
    PROVE  Faithful'
  <1>1. CASE c \in Retried /\ tries < Attempts
    <2>1. UNCHANGED <<terraform, op, calls, model, target, diags>>
      BY <1>1 DEF Transient
    <2>2. QED  BY <1>1, <2>1, RetryFaithful
  <1>2. CASE ~(c \in Retried /\ tries < Attempts)
    <2>1. GiveUp(c)
      BY <1>2 DEF Transient
    <2>2. QED  BY <2>1, GiveUpFaithful
  <1>3. QED  BY <1>1, <1>2

\* A fault, whichever it is, while a handler runs.
LEMMA FaultFaithful ==
    ASSUME Inv, Faithful, Lost \/ Down \/ Refused \/ Cancelled \/ Killed
    PROVE  Faithful'
  <1>1. CASE Lost
    <2>1. PICK c \in calls :
            /\ Calling(c) /\ ~Taken(c) /\ ~Missing(c) /\ (Makes(c) => Room)
            /\ \E r \in Subject(c) :
                 rows' = After(c, r) /\ Transient(c, IF Makes(c) THEN {r} ELSE {})
            /\ UNCHANGED subject
      BY <1>1 DEF Lost
    <2>2. PICK r \in Subject(c) :
            rows' = After(c, r) /\ Transient(c, IF Makes(c) THEN {r} ELSE {})
      BY <2>1
    <2>3. Running /\ Due(c) /\ Served(c, r)
      BY <2>1, <2>2 DEF Calling, Running, Served
    <2>4. QED  BY <2>1, <2>2, <2>3, TransientFaithful
  <1>2. CASE Down
    <2>1. PICK c \in calls :
            Calling(c) /\ UNCHANGED <<subject, rows>> /\ Transient(c, {})
      BY <1>2 DEF Down
    <2>2. Running /\ Due(c)
      BY <2>1 DEF Calling, Running
    <2>3. QED  BY <2>1, <2>2, TransientFaithful
  <1>3. CASE Refused
    <2>1. PICK c \in calls : UNCHANGED subject /\ GiveUp(c)
      BY <1>3 DEF Refused
    <2>2. QED  BY <2>1, GiveUpFaithful
  <1>4. CASE Cancelled \/ Killed
    BY <1>4, FailFaithful DEF Cancelled
  <1>5. QED  BY <1>1, <1>2, <1>3, <1>4

-----------------------------------------------------------------------------
(* A call that is answered.                                                *)

\* What the trip of the plan to the server and back makes of it.
LEMMA PlanReturns ==
    ASSUME Inv, Faithful, Firm, attr # "pinned", IsRead(kind, attr)
    PROVE  /\ ReadBack(kind, attr, StoredByCreate(kind, attr, plan)) = plan
           /\ ReadBack(kind, attr, StoredByEdit(kind, attr, plan)) = plan
  <1>1. plan \in Plannable(kind, attr) /\ ~Exempt(attr, plan)
    BY DEF Faithful, Plans, Firm
  <1>2. kind \in Kinds /\ attr \in DOMAIN Tables[kind].schema
    BY DEF Inv, TypeOK
  <1>3. QED  BY <1>1, <1>2, RoundTrip

\* The calls left still fit the plan.
LEMMA ArrivedFits ==
    ASSUME Inv, Faithful, NEW c, NEW r, Arrived(c, r)
    PROVE  CallsFit'
  <1>0. /\ c \in calls /\ Running /\ Due(c) /\ calls' = calls \ {c}
        /\ kind' = kind /\ attr' = attr /\ op' = op /\ plan' = plan /\ recorded' = recorded
        /\ diags' = diags
        /\ "add" \in calls => c = "add"
        /\ c = "add" => op = "create"
        /\ c = "repost" => attr = "pinned" \/ ~Applying
        /\ kind \in Kinds /\ attr \in DOMAIN Tables[kind].schema
        /\ calls \subseteq Calls
    BY ArrivedKeeps, HandlerInv, DueFacts DEF Faithful, CallsFit
  <1>1. Firm' = Firm /\ Linked' = Linked /\ Writers' = Writers /\ Applying' = Applying
    BY <1>0 DEF Firm, Applying, Linked, Writers
  <1>2. ASSUME Firm, Linked, calls' \cap {"add", "detach"} # {}, calls' \cap Writers = {}
        PROVE  plan = Null
    <2>1. Writers \in {{"attach"}, {"monitors"}, {"pages"}}
      BY <1>0, <1>2, WriterFacts DEF Linked, Associations
    <2>2. "detach" \in calls /\ "add" \notin calls'
      BY <1>0, <1>2
    <2>3. c \notin {"attach", "monitors", "pages"}
      BY <1>0, <2>2 DEF Due, Rank
    <2>4. calls \cap Writers = {}
      BY <1>0, <1>2, <2>1, <2>3
    <2>5. QED  BY <1>2, <2>2, <2>4 DEF Faithful, CallsFit
  <1>3. op = "update" => target' = recorded.id \/ attr \in {"slug", "pinned"}
    <2> SUFFICES ASSUME op = "update", attr \notin {"slug", "pinned"}
                 PROVE  target' = recorded.id
      OBVIOUS
    <2>1. ~Makes(c)
      BY <1>0 DEF Makes, Applying
    <2>2. target' = target
      BY <2>1 DEF Arrived
    <2>3. QED  BY <2>2 DEF Faithful, CallsFit
  <1>4. Firm /\ op = "create" /\ attr = "pinned" =>
          /\ "resolve" \in calls' => plan = Zero
          /\ "add" \notin calls'
    BY <1>0 DEF Faithful, CallsFit
  <1>5. /\ Applying /\ calls' \cap {"resolve", "repost"} # {} => attr = "pinned"
        /\ "add" \notin calls'
    BY <1>0 DEF Faithful, CallsFit
  <1>6. QED  BY <1>0, <1>1, <1>2, <1>3, <1>4, <1>5 DEF CallsFit

\* The model: what has been read is what was planned.
LEMMA ArrivedHolds ==
    ASSUME Inv, Faithful, NEW c, NEW r, Arrived(c, r)
    PROVE  ModelHolds'
  <1>0. /\ c \in calls /\ Running /\ Due(c) /\ calls' = calls \ {c}
        /\ kind' = kind /\ attr' = attr /\ op' = op /\ plan' = plan /\ diags' = diags
        /\ c = "add" => op = "create"
        /\ c = "edit" => op = "update"
        /\ kind \in Kinds /\ attr \in DOMAIN Tables[kind].schema
        /\ calls \subseteq Handler
        /\ c = "get" => calls \subseteq {"get", "remove"}
        /\ c = "remove" => op = "delete"
    BY ArrivedKeeps, HandlerInv, DueFacts
  <1> SUFFICES ASSUME Firm
               PROVE  \/ model' = plan
                      \/ attr = "pinned" /\ (op = "update" \/ "resolve" \in calls')
    BY <1>0 DEF ModelHolds, Firm, Applying
  <1>1. c # "remove" /\ op \in {"create", "update"}
    BY <1>0 DEF Firm, Applying
  <1>2. attr # "pinned" => model = plan
    BY DEF Faithful, ModelHolds
  <1>3. CASE kind = "status_page_incident"
    <2>1. model' = ReadBack(kind, attr, rows'[r]) /\ rows'[r] = Written(c, rows[r])
      BY <1>1, <1>3, ArrivedModel, ArrivedRow
    <2>2. calls \subseteq IF op = "create" THEN {"add", "resolve"}
                                           ELSE {"edit", "resolve", "repost"}
      BY <1>0, <1>1, <1>3, HandlerFacts DEF Handler
    <2>3. CASE attr = "pinned" /\ op = "create"
      <3>1. kind \notin Monitors /\ Writers \cap {"resolve"} = {}
        BY <1>0, <1>3, WriterFacts, TablesDef DEF Others
      <3>2. CASE c = "resolve"
        <4>1. rows'[r] = Zero
          BY <2>1, <2>3, <3>1, <3>2 DEF Written, Makes
        <4>2. plan = Zero
          BY <1>0, <2>3, <3>2 DEF Faithful, CallsFit
        <4>3. QED  BY <1>3, <2>1, <2>3, <4>1, <4>2, FlagTables
      <3>3. CASE c = "add" /\ "resolve" \notin calls
        <4>1. "add" \notin Writers
          BY <1>3, <2>3, <3>1, TablesDef DEF Writers, Others
        <4>2. rows'[r] = ColumnDefault(kind, attr)
          BY <2>1, <3>3, <4>1 DEF Written, Makes
        <4>3. ColumnDefault(kind, attr) = One
          BY <2>3 DEF ColumnDefault
        <4>4. plan = One
          BY <1>0, <2>3, <3>3 DEF Faithful, CallsFit
        <4>5. QED  BY <1>3, <2>1, <2>3, <4>2, <4>3, <4>4, FlagTables
      <3>4. CASE c = "add" /\ "resolve" \in calls
        BY <1>0, <2>3, <3>4
      <3>5. QED  BY <1>0, <2>2, <2>3, <3>2, <3>3, <3>4
    <2>4. CASE attr # "pinned"
      <3>1. calls \cap {"resolve", "repost"} = {}
        BY <1>1, <2>4 DEF Faithful, CallsFit, Applying
      <3>2. c \in {"add", "edit"} /\ c \in Writers
        BY <1>0, <1>3, <2>2, <2>4, <3>1, WriterFacts
      <3>3. IsRead(kind, attr)
        BY <1>0, <1>3, PagesAreRead
      <3>4. rows'[r] = IF c = "add" THEN StoredByCreate(kind, attr, plan)
                                    ELSE StoredByEdit(kind, attr, plan)
        BY <1>2, <2>1, <2>4, <3>2 DEF Written, Makes
      <3>5. QED  BY <2>1, <2>4, <3>3, <3>4, PlanReturns
    <2>5. QED  BY <1>1, <2>3, <2>4
  <1>4. CASE kind # "status_page_incident"
    <2>1. attr # "pinned" /\ model = plan
      BY <1>0, <1>2, <1>4, KindOfAttribute
    <2>2. CASE c = "get" /\ ReadHere
      <3>1. model' = ReadBack(kind, attr, rows[r]) /\ r \in Named(target)
        BY <2>2, ArrivedModel, ArrivedRow DEF Makes, Named, Live
      <3>2. \A d \in calls : ~Stores(d)
        BY <1>0, <2>2, WriterFacts DEF Stores
      <3>3. QED  BY <1>0, <2>2, <3>1, <3>2 DEF Faithful, ColumnHolds
    <2>3. CASE c = "get" /\ attr = "key" /\ op = "update"
      <3>1. model' = recorded.value
        BY <2>3, ArrivedModel
      <3>2. QED  BY <2>3, <3>1 DEF Faithful, Plans, Firm
    <2>4. CASE c = "add" /\ attr = "key"
      BY <1>0, <2>4 DEF Faithful, Plans, Firm
    <2>5. CASE model' = model
      BY <2>1, <2>5
    <2>6. QED  BY <1>4, <2>2, <2>3, <2>4, <2>5, ArrivedModel
  <1>5. QED  BY <1>3, <1>4

\* The column: once no call is left that stores, it reads as planned.
LEMMA ArrivedColumn ==
    ASSUME Inv, Faithful, NEW c, NEW r, Arrived(c, r)
    PROVE  ColumnHolds'
  <1>0. /\ c \in calls /\ Running /\ Due(c) /\ calls' = calls \ {c}
        /\ kind' = kind /\ attr' = attr /\ op' = op /\ plan' = plan /\ diags' = diags
        /\ calls \subseteq Handler /\ ReadHere' = ReadHere
        /\ c = "add" => op = "create"
        /\ c = "get" => calls \subseteq {"get", "remove"}
        /\ c = "repost" => kind = "status_page_incident"
        /\ c = "remove" => op = "delete"
        /\ c \in {"attach", "detach"} => kind \in Monitors
        /\ kind \in Kinds /\ attr \in DOMAIN Tables[kind].schema
    BY ArrivedKeeps, HandlerInv, DueFacts
  <1> SUFFICES ASSUME Firm, ReadHere, "get" \in calls', \A d \in calls' : ~Stores(d),
                      NEW q \in Rows, rows'[q] # NoRow, Key(rows', q) = target'
               PROVE  ReadBack(kind, attr, rows'[q]) = plan
    BY <1>0 DEF ColumnHolds, Firm, Applying, Stores, Writers, Named, Live, Key
  <1>1. /\ op \in {"create", "update"} /\ "get" \in calls /\ c \notin {"get", "remove"}
        /\ kind # "status_page_incident" /\ attr # "pinned" /\ (Makes(c) => c = "add")
    <2>1. op \in {"create", "update"} /\ "get" \in calls /\ c \notin {"get", "remove"}
      BY <1>0 DEF Firm, Applying
    <2>2. kind # "status_page_incident"
      BY <1>0, <2>1, HandlerFacts DEF Handler
    <2>3. QED  BY <1>0, <2>1, <2>2, KindOfAttribute DEF Makes
  <1>2. model = plan /\ IsRead(kind, attr)
    BY <1>1 DEF Faithful, ModelHolds, ReadHere
  <1>3. q = r /\ rows'[r] = Written(c, rows[r])
    <2>1. r \in Rows /\ rows'[r] # NoRow /\ Key(rows', r) = target' /\ Consistent(rows')
          /\ rows'[r] = Written(c, rows[r])
      BY <1>1, ArrivedRow
    <2>2. QED  BY <2>1, OneRow
  <1>4. CASE c \in Writers
    <2>1. c \notin {"detach", "resolve", "remove"}
      BY <1>0, <1>4, WriterFacts
    <2>2. rows'[r] = IF c = "add" THEN StoredByCreate(kind, attr, plan)
                                  ELSE StoredByEdit(kind, attr, plan)
      BY <1>1, <1>2, <1>3, <1>4, <2>1 DEF Written, Makes
    <2>3. QED  BY <1>1, <1>2, <1>3, <2>2, PlanReturns
  <1>5. CASE c \notin Writers /\ c \in {"add", "detach"} /\ (c = "detach" => attr = "tags")
    <2>1. Linked
      <3>1. CASE c = "add"
        <4>1. kind = "status_page" => "save" \in calls'
          BY <1>0, <3>1 DEF Faithful, CallsFit
        <4>2. QED  BY <1>0, <1>1, <1>5, <3>1, <4>1, WriterFacts DEF Stores
      <3>2. CASE c = "detach"
        BY <1>0, <1>5, <3>2 DEF Linked
      <3>3. QED  BY <1>5, <3>1, <3>2
    <2>2. calls \cap Writers = {}
      BY <1>0, <1>5 DEF Stores
    <2>3. plan = Null
      BY <1>0, <1>5, <2>1, <2>2 DEF Faithful, CallsFit
    <2>4. Schema.class = "optional"
      BY <1>1, <2>3 DEF Inv, Valued, Applying
    <2>5. /\ ReadBack(kind, attr, Null) = Null /\ ReadBack(kind, attr, Zero) = Null
          /\ ColumnDefault(kind, attr) = Null
      BY <1>0, <1>2, <2>1, <2>4, LinkedTables DEF Linked, Schema
    <2>6. rows'[r] = IF c = "add" THEN ColumnDefault(kind, attr) ELSE Zero
      BY <1>3, <1>5 DEF Written, Makes
    <2>7. QED  BY <1>3, <2>3, <2>5, <2>6
  <1>6. CASE c \notin Writers /\ c # "add" /\ ~(c = "detach" /\ attr = "tags")
    <2>1. rows'[r] = rows[r] /\ ~Makes(c)
      BY <1>1, <1>3, <1>6 DEF Written
    <2>2. r \in Named(target)
      BY <2>1, ArrivedRow DEF Named, Live
    <2>3. \A d \in calls : ~Stores(d)
      BY <1>0, <1>6 DEF Stores
    <2>4. QED  BY <1>1, <1>3, <2>1, <2>2, <2>3 DEF Faithful, ColumnHolds
  <1>7. QED  BY <1>4, <1>5, <1>6

\* A call that is answered.
LEMMA ArrivedFaithful ==
    ASSUME Inv, Faithful, NEW c, NEW r, Arrived(c, r)
    PROVE  Faithful'
  <1>1. /\ kind' = kind /\ attr' = attr /\ op' = op /\ plan' = plan /\ recorded' = recorded
        /\ refreshed' = refreshed /\ last' = last /\ Running /\ Applying' = Applying
        /\ c \in calls /\ Due(c)
    BY ArrivedKeeps
  <1>2. Plans' /\ Told'
    BY <1>1 DEF Faithful, Plans, Told, InconsistentOnlyFor
  <1>3. Fresh'
    <2> SUFFICES ASSUME IsRead(kind, attr), op = "read",
                        NEW q \in Rows, rows'[q] # NoRow, Key(rows', q) = target'
                 PROVE  model' = ReadBack(kind, attr, rows'[q])
      BY <1>1 DEF Fresh, Running, Named, Live, Key
    <2>1. c = "get" /\ ReadHere
      BY <1>1, HandlerInv DEF ReadHere
    <2>2. r \in Rows /\ rows'[r] # NoRow /\ Key(rows', r) = target' /\ Consistent(rows')
      BY <2>1, ArrivedRow
    <2>3. q = r
      BY <2>2, OneRow
    <2>4. QED  BY <2>1, <2>3, ArrivedModel
  <1>4. QED  BY <1>2, <1>3, ArrivedFits, ArrivedHolds, ArrivedColumn DEF Faithful

\* A call about a row that is gone.
LEMMA NotFoundFaithful ==
    ASSUME Inv, Faithful, Running, NEW c \in calls, Due(c), Missing(c), NotFound(c),
           UNCHANGED <<subject, rows, faults>>
    PROVE  Faithful'
  <1>0. kind' = kind /\ attr' = attr /\ rows' = rows
    BY DEF subject
  <1>1. CASE c = "remove"
    <2>1. op = "delete"
      BY <1>1, HandlerInv
    <2>2. op' = op /\ last' = last
      BY <1>1 DEF NotFound, terraform
    <2>3. ~Applying' /\ Fresh' /\ Told'
      BY <2>1, <2>2 DEF Faithful, Told, Applying, Fresh, InconsistentOnlyFor
    <2>4. QED  BY <2>3, NotApplying
  <1>2. CASE c # "remove" /\ op = "read"
    <2>1. recorded' = None /\ op' = "idle" /\ last'[2] = "gone"
      BY <1>2 DEF NotFound, Reported, Idle
    <2>2. Named(recorded.id)' = {}
      <3>1. Named(recorded.id)' = {r \in Rows : rows[r] # NoRow /\ Key(rows, r) = NoID}
        BY <1>0, <2>1 DEF Named, Live, Key, None
      <3>2. QED  BY <3>1, NothingNamed DEF Inv
    <2>3. ~Applying' /\ Fresh' /\ Told'
      BY <2>1, <2>2 DEF Applying, Fresh, Told, InconsistentOnlyFor
    <2>4. QED  BY <2>3, NotApplying
  <1>3. CASE c # "remove" /\ op # "read"
    <2>1. GiveUp(c)
      BY <1>3 DEF NotFound
    <2>2. QED  BY <2>1, GiveUpFaithful
  <1>4. QED  BY <1>1, <1>2, <1>3

\* A call and what comes of it.
LEMMA AnswerFaithful ==
    ASSUME Inv, Faithful, Answer
    PROVE  Faithful'
  <1>1. PICK c \in calls :
          /\ Calling(c)
          /\ \/ Taken(c) /\ UNCHANGED rows /\ GiveUp(c)
             \/ ~Taken(c) /\ Missing(c) /\ UNCHANGED rows /\ NotFound(c)
             \/ ~Taken(c) /\ ~Missing(c) /\ (Makes(c) => Room) /\ Done(c)
          /\ UNCHANGED <<subject, faults>>
    BY DEF Answer
  <1>2. Running /\ Due(c)
    BY <1>1 DEF Calling, Running
  <1>3. CASE GiveUp(c)
    BY <1>1, <1>3, GiveUpFaithful
  <1>4. CASE ~Taken(c) /\ Missing(c) /\ UNCHANGED rows /\ NotFound(c)
    BY <1>1, <1>2, <1>4, NotFoundFaithful
  <1>5. CASE ~Taken(c) /\ ~Missing(c) /\ (Makes(c) => Room) /\ Done(c)
    <2>1. PICK r \in Subject(c) :
            /\ rows' = After(c, r) /\ model' = Answered(c, rows'[r])
            /\ target' = IF Makes(c) THEN Key(rows', r)
                         ELSE IF c = "save" /\ attr = "slug" THEN model ELSE target
      BY <1>5 DEF Done
    <2>2. Arrived(c, r)
      BY <1>1, <1>2, <1>5, <2>1 DEF Arrived, Served, Done
    <2>3. QED  BY <2>2, ArrivedFaithful
  <1>6. QED  BY <1>1, <1>3, <1>4, <1>5

\* A handler that has made all its calls returns what was planned.
LEMMA ReturnFaithful ==
    ASSUME Inv, Faithful, Return
    PROVE  Faithful'
  <1>0. Running /\ calls = {} /\ kind' = kind /\ attr' = attr /\ rows' = rows
    BY DEF Return, Running, subject
  <1>1. CASE diags
    BY <1>1, FailFaithful DEF Return
  <1>2. CASE ~diags
    <2> DEFINE good == op \in {"create", "update"} => Kept(model)
    <2>1. /\ op # "delete" => recorded'.id = target /\ recorded'.value = model
          /\ refreshed' = (op = "read") /\ plan' = plan /\ op' = "idle"
          /\ last' = <<op, IF good THEN "ok" ELSE "inconsistent">>
      BY <1>2 DEF Return, Reported, Idle
    <2>2. Fresh'
      <3>1. op = "read" => Named(recorded.id)' = Named(target)
        BY <1>0, <2>1 DEF Named, Live, Key
      <3>2. QED  BY <1>0, <2>1, <3>1 DEF Faithful, Fresh
    <2>3. Told'
      <3> SUFFICES ASSUME ~good
                   PROVE  /\ recorded' # None
                          /\ \/ Exempt(attr, plan)
                             \/ op = "update" /\ attr \in {"slug", "pinned"}
        BY <1>0, <2>1 DEF Told, InconsistentOnlyFor, Exempt
      <3>1. recorded' # None
        <4>1. target # NoID
          BY <1>0, <1>2, ReturnValue, MarksDiffer
        <4>2. QED  BY <2>1, <4>1 DEF None
      <3>2. CASE Differs(model)
        BY <1>0, <1>2, <3>1, <3>2 DEF Faithful, ModelHolds, Firm, Applying, Differs
      <3>3. CASE ~Differs(model)
        <4>1. op = "update" /\ target # recorded.id
          BY <3>3 DEF Kept
        <4>2. QED  BY <3>1, <4>1 DEF Faithful, CallsFit
      <3>4. QED  BY <3>2, <3>3
    <2>4. ~Applying'
      BY <2>1 DEF Applying
    <2>5. QED  BY <2>2, <2>3, <2>4, NotApplying
  <1>3. QED  BY <1>1, <1>2

-----------------------------------------------------------------------------
(* Terraform and its user.                                                 *)

\* Nothing is planned on a state that is not refreshed.
LEMMA ReadyIsTold ==
    ASSUME Faithful, Ready \/ recorded = None
    PROVE  last[2] # "inconsistent"
  BY DEF Faithful, Told, Ready

\* A handler that reads or deletes.
LEMMA ReadFaithful ==
    ASSUME Inv, Faithful, NEW o \in {"read", "delete", "import"}, NEW v, NEW id,
           Begin(o, v, id), Started, plan' = plan,
           o = "read" => recorded # None /\ ~refreshed,
           o # "read" => last[2] # "inconsistent"
    PROVE  Faithful'
  <1>1. /\ op' = o /\ kind' = kind /\ attr' = attr /\ kind \in Kinds
        /\ Handler' = HandlersOf(kind)[IF o = "import" THEN "read" ELSE o]
        /\ "get" \in calls' <=> "get" \in Handler'
        /\ recorded' = recorded /\ refreshed' = refreshed /\ last' = last
    BY BeginFacts DEF Started
  <1>2. Fresh'
    <2>1. o = "read" => calls' # {}
      BY <1>1, HandlerFacts
    <2>2. QED  BY <1>1, <2>1 DEF Fresh
  <1>3. ~Applying' /\ Told'
    BY <1>1 DEF Faithful, Applying, Told, InconsistentOnlyFor
  <1>4. QED  BY <1>2, <1>3, NotApplying

\* What is planned may be planned.
LEMMA ApplyPlans ==
    ASSUME Inv, NEW o \in {"create", "update"}, config # Gone, op' = o,
           UNCHANGED <<subject, recorded>>, plan' = Planned(o)
    PROVE  Plans'
  <1>0. /\ kind' = kind /\ attr' = attr /\ recorded' = recorded
        /\ kind \in Kinds /\ attr \in DOMAIN Tables[kind].schema
        /\ config \in Writable /\ recorded.value \in Columns
    BY DEF subject, Inv, TypeOK, Control, None, Columns
  <1>1. Planned(o) \in Plannable(kind, attr) \cup {Unknown}
    BY <1>0 DEF Planned, Plannable, Writable, Schema, Columns
  <1>2. attr = "key" => \/ Planned(o) = Unknown
                        \/ o = "update" /\ Planned(o) = recorded.value
    <2> SUFFICES ASSUME attr = "key"
                 PROVE  \/ Planned(o) = Unknown
                        \/ o = "update" /\ Planned(o) = recorded.value
      OBVIOUS
    <2>1. Schema.domain = {} /\ Schema.class = "computed"
      BY <1>0, KindOfAttribute, KeyTable DEF Schema, Sticky, Entry
    <2>2. config = Null
      BY <1>0, <2>1 DEF Writable
    <2>3. QED  BY <2>1, <2>2 DEF Planned
  <1>3. QED  BY <1>0, <1>1, <1>2 DEF Plans

\* A handler that creates or updates starts: what the calls that are left out
\* would have stored is there already.
LEMMA StartStored ==
    ASSUME Inv, Faithful, NEW id, Ready, recorded # None, config # Gone,
           plan' = Planned("update"), Begin("update", plan', id), id = recorded.id,
           Started, Plans', plan' # Unknown, ~Exempt(attr, plan'), ReadHere',
           "get" \in calls', \A c \in calls' : ~Stores(c),
           NEW r \in Named(recorded.id)
    PROVE  ReadBack(kind, attr, rows[r]) = plan'
  <1>0. /\ kind' = kind /\ attr' = attr /\ op' = "update" /\ op = "idle"
        /\ kind \in Kinds /\ attr \in DOMAIN Tables[kind].schema
        /\ calls' = {c \in HandlersOf(kind)["update"] : Needed("update", c, plan')}
        /\ refreshed /\ rows[r] \in Columns /\ recorded.value \in Columns
        /\ plan' \in Values
    BY PlannedFacts DEF Begin, Started, subject, Ready, Inv, TypeOK, Named, Live, None, Columns
  <1>1. IsRead(kind, attr) /\ (kind = "api_key" => attr = "active")
    BY <1>0 DEF ReadHere
  <1>2. recorded.value = ReadBack(kind, attr, rows[r])
    BY <1>0, <1>1 DEF Faithful, Fresh
  <1>3. Schema.class = "both" => IsSet(plan')
    BY PlannedFacts DEF IsSet
  <1>4. CASE kind \in Monitors /\ attr = "active"
    <2>1. IsSet(plan')
      BY <1>3, <1>4, FlagTables DEF Schema, Both, Entry
    <2>2. "toggle" \in Writers
      BY <1>4, TablesDef DEF Writers, Others
    <2>3. "toggle" \in HandlersOf(kind)["update"]
      BY <1>4, TablesDef DEF HandlersOf, Others, MonitorHandlers
    <2>4. ~Needed("update", "toggle", plan')
      BY <1>0, <2>2, <2>3 DEF Stores
    <2>5. BoolOrTrue[rows[r]] = plan'
      BY <1>4, <2>1, <2>4 DEF Needed, reconcileActive
    <2>6. QED  BY <1>0, <1>4, <2>5, FlagTables
  <1>5. CASE kind \in Monitors /\ attr = "tags"
    <2>1. Stores("attach") /\ Stores("detach")
      BY <1>0, <1>5, WriterFacts DEF Stores
    <2>2. {"attach", "detach"} \subseteq HandlersOf(kind)["update"]
      BY <1>5, TablesDef DEF HandlersOf, Others, MonitorHandlers
    <2>3. ~Needed("update", "attach", plan') /\ ~Needed("update", "detach", plan')
      BY <1>0, <2>1, <2>2
    <2>4. \/ plan' = recorded.value
          \/ plan' \in {Null, Zero} /\ recorded.value \in {Null, Zero}
      BY <1>5, <2>3 DEF Needed, reconcileTags
    <2>5. plan' # Zero /\ recorded.value # Zero
      BY <1>0, <1>1, <1>2, <1>5, LinkedTables DEF Exempt
    <2>6. QED  BY <1>2, <2>4, <2>5
  <1>6. CASE kind = "api_key"
    <2>1. IsSet(plan') /\ kind \notin Monitors
      BY <1>1, <1>3, <1>6, FlagTables, TablesDef DEF Schema, Both, Entry, Others
    <2>2. Stores("enable")
      BY <1>1, <1>6, <2>1 DEF Stores, Writers
    <2>3. "enable" \in HandlersOf(kind)["update"]
      BY <1>6, TablesDef DEF HandlersOf, Others, APIKeyHandlers
    <2>4. ~Needed("update", "enable", plan')
      BY <1>0, <2>2, <2>3
    <2>5. ValueOf[plan'] = recorded.value
      BY <2>4 DEF Needed
    <2>6. ValueOf[plan'] = plan'
      BY <1>0, <2>1 DEF ValueOf, OrElse
    <2>7. QED  BY <1>2, <2>5, <2>6
  <1>7. CASE ~(kind \in Monitors /\ attr \in {"active", "tags"}) /\ kind # "api_key"
             /\ kind # "status_page_incident"
    <2>1. PICK c \in HandlersOf(kind)["update"] :
            c \in Writers /\ \A v : Needed("update", c, v)
      BY <1>0, <1>7, UpdateStores
    <2>2. QED  BY <1>0, <2>1 DEF Stores
  <1>8. kind # "status_page_incident"
    BY <1>0, HandlerFacts
  <1>9. QED  BY <1>4, <1>5, <1>6, <1>7, <1>8

\* The calls of a handler that starts fit the plan.
LEMMA StartFits ==
    ASSUME Inv, NEW o \in {"create", "update"}, NEW id, config # Gone,
           plan' = Planned(o), Begin(o, plan', id), Started, Plans',
           o = "create" => recorded = None,
           o = "update" => id = recorded.id
    PROVE  CallsFit'
  <1>0. /\ kind' = kind /\ attr' = attr /\ op' = o /\ recorded' = recorded
        /\ target' = id /\ diags' = FALSE
        /\ kind \in Kinds /\ attr \in DOMAIN Tables[kind].schema
        /\ Handler' = HandlersOf(kind)[o] /\ plan' \in Values
        /\ \A c \in {"add", "edit", "save", "get", "remove"} :
             c \in calls' <=> c \in Handler'
    BY BeginFacts, PlannedFacts DEF Started
  <1>1. calls' = {c \in HandlersOf(kind)[o] : Needed(o, c, plan')}
    BY DEF Begin
  <1>2. /\ Firm' <=> plan' # Unknown /\ ~Exempt(attr, plan')
        /\ Linked' = Linked /\ Writers' = Writers
    BY <1>0 DEF Firm, Applying, Linked, Writers
  <1>3. ASSUME plan' # Unknown, ~Exempt(attr, plan'), Linked,
               calls' \cap {"add", "detach"} # {}, calls' \cap Writers = {}
        PROVE  plan' = Null
    <2>1. attr \in EmptyIsUnset /\ attr # "pinned"
      BY <1>3 DEF Linked, Associations, EmptyIsUnset
    <2>2. plan' # Zero
      BY <1>3, <2>1 DEF Exempt
    <2>3. CASE kind \in Monitors /\ attr = "tags"
      <3>1. Writers = {"attach"} /\ HandlersOf(kind) = MonitorHandlers
        BY <1>0, <2>3, WriterFacts, TablesDef DEF HandlersOf, Others
      <3>2. "attach" \in HandlersOf(kind)[o] /\ ~Needed(o, "attach", plan')
        BY <1>1, <1>3, <3>1 DEF MonitorHandlers
      <3>3. plan' = recorded.value \/ plan' \in {Null, Zero}
        BY <2>3, <3>2 DEF Needed, reconcileTags
      <3>4. CASE o = "create"
        BY <2>2, <3>3, <3>4 DEF None
      <3>5. CASE o = "update"
        <4>1. "add" \notin calls'
          BY <1>0, <3>5, HandlerFacts
        <4>2. Needed(o, "detach", plan')
          BY <1>1, <1>3, <4>1
        <4>3. plan' # recorded.value
          BY <2>3, <4>2 DEF Needed, reconcileTags
        <4>4. QED  BY <2>2, <3>3, <4>3
      <3>6. QED  BY <3>4, <3>5
    <2>4. CASE kind = "maintenance" /\ attr \in Associations
      <3>1. HandlersOf(kind) = MaintenanceHandlers
        BY <2>4, TablesDef DEF HandlersOf, Others
      <3>2. "add" \in calls' /\ o = "create"
        BY <1>0, <1>1, <1>3, <3>1, HandlerFacts DEF MaintenanceHandlers
      <3>3. PICK c \in {"monitors", "pages"} :
              c \in Writers /\ attr = (IF c = "monitors" THEN "monitor_ids"
                                                         ELSE "status_page_ids")
        BY <1>0, <2>4, WriterFacts DEF Associations
      <3>4. c \in HandlersOf(kind)[o] /\ ~Needed(o, c, plan')
        BY <1>1, <1>3, <3>1, <3>2, <3>3 DEF MaintenanceHandlers
      <3>5. plan' \in {Null, Zero}
        BY <3>3, <3>4 DEF Needed, Attached
      <3>6. QED  BY <2>2, <3>5
    <2>5. QED  BY <1>3, <2>3, <2>4 DEF Linked
  <1>4. ASSUME plan' # Unknown, o = "create", attr = "pinned"
        PROVE  /\ "resolve" \in calls' => plan' = Zero
               /\ "resolve" \notin calls' => plan' = One
    <2>1. kind = "status_page_incident" /\ Schema = Both(Flag)
      BY <1>0, <1>4, KindOfAttribute, FlagTables DEF Schema
    <2>2. plan' \in {Zero, One}
      BY <1>0, <1>4, <2>1 DEF Plans, Applying, Plannable, Schema, Both, Entry, Flag
    <2>3. "resolve" \in HandlersOf(kind)[o]
      BY <1>0, <1>4, <2>1, HandlerFacts
    <2>4. Needed(o, "resolve", plan') <=> plan' = Zero
      BY <1>4, <2>2 DEF Needed, reconcilePinned, IsSet, Null, Unknown, Zero, One
    <2>5. QED  BY <1>1, <2>2, <2>3, <2>4
  <1>5. calls' \cap {"resolve", "repost"} # {} => attr = "pinned"
    BY <1>1 DEF Needed, reconcilePinned
  <1>6. kind = "status_page" /\ "add" \in calls' => "save" \in calls'
    BY <1>0, HandlerFacts
  <1>7. QED  BY <1>0, <1>2, <1>3, <1>4, <1>5, <1>6 DEF CallsFit

\* A handler that creates or updates.
LEMMA ApplyFaithful ==
    ASSUME Inv, Faithful, NEW o \in {"create", "update"}, NEW id, Ready, config # Gone,
           plan' = Planned(o), Begin(o, plan', id), Started,
           o = "create" => recorded = None /\ id = Adopted,
           o = "update" => recorded # None /\ id = recorded.id
    PROVE  Faithful'
  <1>0. /\ kind' = kind /\ attr' = attr /\ op' = o /\ op = "idle" /\ recorded' = recorded
        /\ model' = plan' /\ target' = id /\ diags' = FALSE /\ rows' = rows
        /\ refreshed' = refreshed /\ last' = last
        /\ kind \in Kinds /\ attr \in DOMAIN Tables[kind].schema
    BY BeginFacts DEF Started
  <1>1. Plans'
    BY <1>0, ApplyPlans DEF subject
  <1>2. CallsFit'
    BY <1>1, StartFits
  <1>3. ModelHolds'
    BY <1>0 DEF ModelHolds
  <1>4. Fresh' /\ Told'
    <2>1. last[2] # "inconsistent"
      BY ReadyIsTold
    <2>2. QED  BY <1>0, <2>1 DEF Fresh, Told, InconsistentOnlyFor
  <1>5. ColumnHolds'
    <2> SUFFICES ASSUME plan' # Unknown, ~Exempt(attr, plan'), ReadHere', "get" \in calls',
                        \A c \in calls' : ~Stores(c),
                        NEW r \in Rows, rows[r] # NoRow, Key(rows, r) = id
                 PROVE  ReadBack(kind, attr, rows[r]) = plan'
      BY <1>0 DEF ColumnHolds, Firm, Applying, Stores, Writers, Named, Live, Key
    <2>1. CASE o = "update"
      <3>1. r \in Named(recorded.id)
        BY <2>1 DEF Named, Live
      <3>2. QED  BY <1>1, <2>1, <3>1, StartStored
    <2>2. CASE o = "create" /\ kind # "settings"
      <3>1. id = NoID
        BY <2>2 DEF Adopted
      <3>2. QED  BY <3>1, NothingNamed DEF Inv
    <2>3. CASE o = "create" /\ kind = "settings"
      <3>1. "set" \in HandlersOf(kind)[o]
        BY <2>3, TablesDef DEF HandlersOf, Others, SettingsHandlers
      <3>2. Needed(o, "set", plan')
        BY DEF Needed
      <3>3. "set" \in calls'
        BY <1>0, <2>3, <3>1, <3>2 DEF Begin
      <3>4. attr # "pinned"
        BY <1>0, <2>3, KindOfAttribute
      <3>5. Stores("set")
        BY <2>3, <3>4, TablesDef DEF Stores, Writers, Others
      <3>6. QED  BY <3>3, <3>5
    <2>4. QED  BY <2>1, <2>2, <2>3
  <1>6. QED  BY <1>1, <1>2, <1>3, <1>4, <1>5 DEF Faithful

\* A run of Terraform, or of its import command, starts a handler.
LEMMA RunFaithful ==
    ASSUME Inv, Faithful, Refresh \/ ApplyCreate \/ ApplyUpdate \/ ApplyDelete \/ Import
    PROVE  Faithful'
  <1>1. CASE Refresh
    <2>1. Begin("read", recorded.value, recorded.id) /\ Started /\ plan' = plan
          /\ recorded # None /\ ~refreshed
      BY <1>1 DEF Refresh, Started, terraform
    <2>2. QED  BY <2>1, ReadFaithful
  <1>2. CASE ApplyDelete
    <2>1. Begin("delete", recorded.value, recorded.id) /\ Started /\ plan' = plan /\ Ready
      BY <1>2 DEF ApplyDelete, Started, terraform
    <2>2. QED  BY <2>1, ReadyIsTold, ReadFaithful
  <1>3. CASE Import
    <2>1. PICK r \in Rows : Begin("import", Null, Key(rows, r))
      BY <1>3 DEF Import
    <2>2. Started /\ plan' = plan /\ recorded = None
      BY <1>3 DEF Import, Started, terraform
    <2>3. QED  BY <2>1, <2>2, ReadyIsTold, ReadFaithful
  <1>4. CASE ApplyCreate
    <2>1. /\ config # Gone /\ recorded = None /\ plan' = Planned("create") /\ Ready
          /\ Begin("create", plan', Adopted) /\ Started
      BY <1>4 DEF ApplyCreate, Started
    <2>2. QED  BY <2>1, ApplyFaithful
  <1>5. CASE ApplyUpdate
    <2>1. /\ config # Gone /\ recorded # None /\ plan' = Planned("update") /\ Ready
          /\ Begin("update", plan', recorded.id) /\ Started
      BY <1>5 DEF ApplyUpdate, Started
    <2>2. QED  BY <2>1, ApplyFaithful
  <1>6. QED  BY <1>1, <1>2, <1>3, <1>4, <1>5

\* Between two runs the user changes the configuration, and somebody else a row,
\* the latter only before the state is refreshed.
LEMMA BetweenFaithful ==
    ASSUME Inv, Faithful, Configure \/ Drift
    PROVE  Faithful'
  <1>1. /\ op = "idle" /\ op' = op /\ kind' = kind /\ attr' = attr
        /\ recorded' = recorded /\ refreshed' = refreshed /\ plan' = plan
    BY DEF Configure, Drift, subject, handler
  <1>2. CASE Configure
    <2>1. last' = last /\ rows' = rows
      BY <1>2 DEF Configure
    <2>2. Fresh'
      BY <1>1, <2>1 DEF Faithful, Fresh, Named, Live, Key
    <2>3. ~Applying' /\ Told'
      BY <1>1, <2>1 DEF Faithful, Applying, Told, InconsistentOnlyFor
    <2>4. QED  BY <2>2, <2>3, NotApplying
  <1>3. CASE Drift
    <2>1. ~refreshed /\ last'[2] = "drift"
      BY <1>3 DEF Drift, Reported
    <2>2. ~Applying' /\ Fresh' /\ Told'
      BY <1>1, <2>1 DEF Applying, Fresh, Told, InconsistentOnlyFor
    <2>3. QED  BY <2>2, NotApplying
  <1>4. QED  BY <1>2, <1>3

-----------------------------------------------------------------------------
(* The theorem.                                                            *)

\* At first nothing runs and nothing is refreshed.
LEMMA InitFaithful == Init => Faithful
  BY DEF Init, Faithful, Plans, ModelHolds, ColumnHolds, CallsFit, Fresh, Told, Firm,
     Applying, InconsistentOnlyFor

\* And every step keeps it.
LEMMA NextFaithful == Inv /\ Faithful /\ [Next]_vars => Faithful'
  <1> SUFFICES ASSUME Inv, Faithful, [Next]_vars PROVE Faithful'
    OBVIOUS
  <1>1. CASE Answer
    BY <1>1, AnswerFaithful
  <1>2. CASE Return
    BY <1>2, ReturnFaithful
  <1>3. CASE Lost \/ Down \/ Refused \/ Cancelled \/ Killed
    BY <1>3, FaultFaithful
  <1>4. CASE Drift \/ Configure
    BY <1>4, BetweenFaithful
  <1>5. CASE Refresh \/ ApplyCreate \/ ApplyUpdate \/ ApplyDelete \/ Import
    BY <1>5, RunFaithful
  <1>6. CASE UNCHANGED vars
    <2>1. /\ op' = op /\ calls' = calls /\ model' = model /\ target' = target
          /\ diags' = diags /\ kind' = kind /\ attr' = attr /\ recorded' = recorded
          /\ refreshed' = refreshed /\ plan' = plan /\ last' = last /\ rows' = rows
      BY <1>6 DEF vars, subject, terraform, handler
    <2>2. Plans' /\ ModelHolds' /\ CallsFit'
      BY <2>1 DEF Faithful, Plans, ModelHolds, CallsFit, Firm, Applying, Linked, Writers
    <2>3. ColumnHolds'
      BY <2>1 DEF Faithful, ColumnHolds, Firm, Applying, ReadHere, Stores, Writers, Named,
         Live, Key
    <2>4. Fresh' /\ Told'
      BY <2>1 DEF Faithful, Fresh, Told, InconsistentOnlyFor, Named, Live, Key
    <2>5. QED  BY <2>2, <2>3, <2>4 DEF Faithful
  <1>7. QED
    BY <1>1, <1>2, <1>3, <1>4, <1>5, <1>6 DEF Next, Program, Faults, Runs

\* Terraform is never given something else than it planned but for the values
\* listed, for every attribute of every kind and whatever fails on the way.
THEOREM SpecInconsistentOnlyFor == Spec => []InconsistentOnlyFor
  <1>1. Inv /\ Faithful => InconsistentOnlyFor
    BY DEF Faithful, Told
  <1>2. QED  BY <1>1, SpecInv, InitFaithful, NextFaithful, PTL DEF Spec
=============================================================================
