-------------------------- MODULE ResourcesProofs --------------------------
(***************************************************************************)
(* Proofs about Resources, for every set of rows and of subjects and every *)
(* number of faults and of changes: the types, that no row is forgotten,   *)
(* that an apply without an error is applied, and that a recorded key is   *)
(* kept.  All of them follow from one inductive invariant, Inv.            *)
(***************************************************************************)
EXTENDS Resources, AttributesProofs, TLAPS

-----------------------------------------------------------------------------
(* The inductive invariant.                                                *)

Running == op # "idle"
Applying == op \in {"create", "update"}

\* The calls of the handler that runs.
Handler == HandlersOf(kind)[IF op = "import" THEN "read" ELSE op]

\* What holds of the server's table at all times: the pages have different
\* slugs, none of them empty, and the settings are there.
Consistent(table) ==
    /\ table \in [Rows -> Columns \cup {NoRow}]
    /\ kind = "status_page" =>
         \A q, r \in Rows :
            table[q] # NoRow /\ table[r] # NoRow /\ Key(table, q) = Key(table, r) => q = r
    /\ attr = "slug" => table \in [Rows -> Positive \cup {NoRow}]
    /\ kind = "settings" => \E r \in Rows : table[r] # NoRow

\* Where a handler stands: what it has still to call, whether the state has
\* the resource, and which row the calls name.
Control ==
    /\ config \in Writable \cup {Gone}
    /\ Running => calls \subseteq Handler
    /\ op \in {"create", "import"} => recorded = None
    /\ op \in {"read", "update", "delete"} => recorded # None
    /\ op \in {"read", "delete"} => target = recorded.id
    /\ op = "create" /\ "add" \in calls => target = NoID
    /\ op = "update" /\ "save" \in calls => target = recorded.id
    /\ Running /\ "add" \notin calls => target # NoID
    /\ op = "delete" /\ kind # "settings" /\ Named(target) # {} => "remove" \in calls

\* A call that is still to come reads back the value the plan left open.
ReadLater ==
    CASE kind = "status_page_incident"    -> calls \cap {"add", "edit"} # {}
      [] attr = "key" /\ op = "create"    -> "add" \in calls
      [] OTHER                            -> "get" \in calls /\ (ReadHere \/ attr = "key")

\* The value in the model, on its way from the plan to the state.
Valued ==
    /\ Applying => /\ config # Gone
                   /\ config # Null \/ Schema.class = "optional" => plan = config
                   /\ plan = Null => Schema.class = "optional"
    /\ model = Unknown => Applying /\ (diags \/ ReadLater)
    /\ Applying /\ calls \cap {"add", "edit"} # {} => model = plan
    /\ Applying /\ ~diags /\ "get" \in Handler /\ calls # {} => "get" \in calls
    /\ op = "update" /\ kind = "api_key" => attr \notin {"name", "expires"}

\* The slug a create or an update is about.
Slugs ==
    attr = "slug" =>
        /\ Applying => model \in Positive
        /\ op = "create" /\ "add" \notin calls => target = model

\* The live rows the ID does not name.
Astray(table, id) == {r \in Rows : table[r] # NoRow /\ Key(table, r) # id}

\* A page that was renamed by a call whose answer was lost: the retry asks
\* for the old slug, and fails.
LostRename == kind = "status_page" /\ "save" \in calls /\ Named(target) = {}

\* Which rows nothing but strays accounts for while a handler runs.
Accounted ==
    kind # "settings" =>
        CASE op = "create" -> Astray(rows, target) \subseteq strays
          [] op = "update" -> target = recorded.id /\ ~LostRename
                                => Astray(rows, target) \subseteq strays
          [] OTHER         -> Astray(rows, recorded.id) \subseteq strays

\* The handler holds the clear text that the state has.
KeyHeld ==
    attr = "key" =>
        /\ op = "read" => model = recorded.value
        /\ op = "update" /\ ~diags => model = recorded.value \/ "get" \in calls

\* What a create or an update has stored in row r so far.
Stored(r) ==
    /\ attr = "apply_existing" /\ plan = Null => rows[r] \in {Null, Zero}
    /\ IsRead(kind, attr) /\ (calls = {} \/ (kind = "api_key" /\ attr # "active"))
         => \/ model = ReadBack(kind, attr, rows[r])
            \/ (kind = "api_key" /\ plan = Zero)

\* Once its first call is done, or all of them.
StoreDue ==
    /\ Applying /\ ~diags /\ calls \cap {"add", "edit"} = {}
    /\ \/ calls = {}
       \/ kind \in {"proxy", "notification"}
       \/ kind = "api_key" /\ op = "create"
StoredInTime == StoreDue => \E r \in Named(target) : Stored(r)

\* Between an apply without an error and the end of the next refresh.
StillApplied ==
    /\ Applied => op \in {"idle", "read"} /\ recorded # None /\ ~refreshed
    /\ SuccessIsApplied

Inv ==
    /\ TypeOK /\ Consistent(rows) /\ Control /\ Valued /\ Slugs
    /\ Accounted /\ KeyHeld /\ StoredInTime /\ StillApplied

-----------------------------------------------------------------------------
(* The handlers.                                                           *)

\* What the calls of a handler are, whatever the kind.
LEMMA HandlerFacts ==
    ASSUME NEW k \in Kinds
    PROVE  /\ \A o \in {"create", "read", "update", "delete"} :
                HandlersOf(k)[o] \subseteq Calls
           /\ HandlersOf(k)["read"] = {"get"}
           /\ HandlersOf(k)["delete"] = IF k = "settings" THEN {} ELSE {"remove"}
           /\ \A o \in {"create", "update"} :
                /\ "remove" \notin HandlersOf(k)[o]
                /\ "add" \in HandlersOf(k)[o] <=> o = "create" /\ k # "settings"
                /\ "repost" \in HandlersOf(k)[o] => o = "update" /\ k = "status_page_incident"
                /\ "edit" \in HandlersOf(k)[o] => o = "update"
                /\ "save" \in HandlersOf(k)[o] <=> k = "status_page"
                /\ "get" \in HandlersOf(k)[o]
                     <=> k \notin {"status_page_incident", "tag", "remote_browser"}
                /\ "detach" \in HandlersOf(k)[o] \/ "attach" \in HandlersOf(k)[o]
                     => k \in Monitors
           /\ k \in {"proxy", "notification", "tag", "remote_browser",
                     "status_page_incident"} => "edit" \in HandlersOf(k)["update"]
           /\ k \in {"proxy", "notification", "api_key"}
                => HandlersOf(k)["create"] = {"add", "get"}
           /\ k \in {"proxy", "notification"} => HandlersOf(k)["update"] = {"edit", "get"}
           /\ k \in {"tag", "remote_browser"} => /\ HandlersOf(k)["create"] = {"add"}
                                                 /\ HandlersOf(k)["update"] = {"edit"}
           /\ k = "status_page" => /\ HandlersOf(k)["create"] = {"add", "save", "get"}
                                   /\ HandlersOf(k)["update"] = {"save", "get"}
           /\ k = "status_page_incident" =>
                /\ HandlersOf(k)["create"] = {"add", "resolve"}
                /\ HandlersOf(k)["update"] = {"edit", "resolve", "repost"}
  <1>1. k \in Monitors \cup Others /\ Monitors \cap Others = {}
    BY TablesDef
  <1>2. CASE k \in Monitors
    <2>1. HandlersOf(k) = MonitorHandlers /\ k \notin Others
      BY <1>1, <1>2 DEF HandlersOf, Others
    <2>2. QED  BY <1>2, <2>1 DEF MonitorHandlers, Others, Calls, Rank
  <1>3. CASE k = "maintenance"
    <2>1. HandlersOf(k) = MaintenanceHandlers /\ k \notin Monitors
      BY <1>1, <1>3 DEF HandlersOf, Others
    <2>2. QED  BY <1>3, <2>1 DEF MaintenanceHandlers, Calls, Rank
  <1>4. CASE k = "status_page"
    <2>1. HandlersOf(k) = PageHandlers /\ k \notin Monitors
      BY <1>1, <1>4 DEF HandlersOf, Others
    <2>2. QED  BY <1>4, <2>1 DEF PageHandlers, Calls, Rank
  <1>5. CASE k = "status_page_incident"
    <2>1. HandlersOf(k) = IncidentHandlers /\ k \notin Monitors
      BY <1>1, <1>5 DEF HandlersOf, Others
    <2>2. QED  BY <1>5, <2>1 DEF IncidentHandlers, Calls, Rank
  <1>6. CASE k = "proxy"
    <2>1. HandlersOf(k) = ProxyHandlers /\ k \notin Monitors
      BY <1>1, <1>6 DEF HandlersOf, Others
    <2>2. QED  BY <1>6, <2>1 DEF ProxyHandlers, Calls, Rank
  <1>7. CASE k = "docker_host"
    <2>1. HandlersOf(k) = DockerHostHandlers /\ k \notin Monitors
      BY <1>1, <1>7 DEF HandlersOf, Others
    <2>2. QED  BY <1>7, <2>1 DEF DockerHostHandlers, Calls, Rank
  <1>8. CASE k = "notification"
    <2>1. HandlersOf(k) = NotificationHandlers /\ k \notin Monitors
      BY <1>1, <1>8 DEF HandlersOf, Others
    <2>2. QED  BY <1>8, <2>1 DEF NotificationHandlers, Calls, Rank
  <1>9. CASE k = "remote_browser"
    <2>1. HandlersOf(k) = RemoteBrowserHandlers /\ k \notin Monitors
      BY <1>1, <1>9 DEF HandlersOf, Others
    <2>2. QED  BY <1>9, <2>1 DEF RemoteBrowserHandlers, Calls, Rank
  <1>10. CASE k = "tag"
    <2>1. HandlersOf(k) = TagHandlers /\ k \notin Monitors
      BY <1>1, <1>10 DEF HandlersOf, Others
    <2>2. QED  BY <1>10, <2>1 DEF TagHandlers, Calls, Rank
  <1>11. CASE k = "api_key"
    <2>1. HandlersOf(k) = APIKeyHandlers /\ k \notin Monitors
      BY <1>1, <1>11 DEF HandlersOf, Others
    <2>2. QED  BY <1>11, <2>1 DEF APIKeyHandlers, Calls, Rank
  <1>12. CASE k = "settings"
    <2>1. HandlersOf(k) = SettingsHandlers /\ k \notin Monitors
      BY <1>1, <1>12 DEF HandlersOf, Others
    <2>2. QED  BY <1>12, <2>1 DEF SettingsHandlers, Calls, Rank
  <1>13. QED
    BY <1>1, <1>2, <1>3, <1>4, <1>5, <1>6, <1>7, <1>8, <1>9, <1>10, <1>11, <1>12
       DEF Others

\* The first and the last calls of a handler.
LEMMA DueFacts ==
    ASSUME calls \subseteq Calls, NEW c, Due(c)
    PROVE  /\ c \in calls /\ c \in Calls
           /\ "add" \in calls => c = "add"
           /\ "edit" \in calls => c \in {"add", "edit"}
           /\ "save" \in calls => c \in {"add", "edit", "save"}
           /\ c = "get" => calls \subseteq {"get", "remove"}
  BY DEF Due, Calls, Rank

\* The calls no condition holds back.
LEMMA AlwaysNeeded ==
    ASSUME NEW o, NEW v
    PROVE  \A c \in {"add", "edit", "save", "get", "remove"} : Needed(o, c, v)
  BY DEF Needed

\* Which call makes a row, which may store the attribute.
LEMMA CallFacts ==
    /\ \A c : Makes(c) <=> c \in {"add", "repost"}
    /\ Writers \subseteq {"add", "edit", "save", "set", "attach", "toggle", "monitors",
                          "pages", "enable"}
  BY DEF Makes, Writers
-----------------------------------------------------------------------------
(* The server's table.                                                     *)

\* No mark stands for a row or an ID.
LEMMA MarksDiffer ==
    /\ NoRow \notin Columns /\ NoID \notin Rows \cup Known /\ Gone \notin Columns
    /\ Unknown \notin Columns /\ Positive \subseteq Known /\ Null \notin Known
  BY ResourcesAssumption DEF NoRow, NoID, Columns, Known, Null, Zero, One, Two, Own,
     Unknown, Positive, Gone

\* The key of a live row is an ID.
LEMMA KeyType ==
    ASSUME NEW table, Consistent(table), NEW r \in Rows, table[r] # NoRow
    PROVE  Key(table, r) \in Rows \cup Known
  BY MarksDiffer DEF Consistent, Key, Known, Positive, One

\* The live rows the state does not name are those its ID does not name.
LEMMA UnnamedIsAstray ==
    ASSUME NEW table, Consistent(table),
           NEW state \in {None} \cup
                 [id : Rows \cup Known, value : Columns, tainted : BOOLEAN]
    PROVE  Unnamed(table, state) = Astray(table, state.id)
  <1>1. CASE state = None
    <2>1. state.id = NoID
      BY <1>1 DEF None
    <2>2. QED  BY <1>1, <2>1, KeyType, MarksDiffer DEF Unnamed, Astray
  <1>2. CASE state # None
    BY <1>2 DEF Unnamed, Astray
  <1>3. QED  BY <1>1, <1>2

\* What a call the server carries out does to its table.
LEMMA CallOnTable ==
    ASSUME Inv, Running, NEW c \in calls, Due(c),
           ~Taken(c), ~Missing(c), Makes(c) => Room, NEW r \in Subject(c)
    PROVE  LET t == After(c, r) IN
           /\ r \in Rows
           /\ IF Makes(c) THEN ~Live(r) /\ r \notin {recorded.id, target}
                          ELSE Live(r) /\ Key(rows, r) = target
           /\ Consistent(t)
           /\ t[r] = Written(c, rows[r])
           /\ t[r] = NoRow <=> c = "remove"
           /\ \A q \in Rows \ {r} : /\ t[q] = NoRow <=> rows[q] = NoRow
                                    /\ Key(t, q) = Key(rows, q)
           /\ attr = "slug" /\ c \in {"add", "save"} => t[r] = model
           /\ ~Makes(c) /\ ~(attr = "slug" /\ c = "save") /\ c # "remove"
                => Key(t, r) = Key(rows, r)
           /\ c \in {"get", "look"} => t = rows
  <1> DEFINE t == After(c, r)
  <1>0. /\ calls \subseteq Calls /\ kind \in Kinds /\ attr \in DOMAIN Tables[kind].schema
        /\ model \in Values /\ rows \in [Rows -> Columns \cup {NoRow}]
        /\ calls \subseteq Handler /\ Consistent(rows) /\ c \in Calls
        /\ op \in {"create", "read", "update", "delete", "import"}
    BY DEF Inv, TypeOK, Control, Consistent, Running
  <1>1. /\ c \in {"add", "save", "edit"} => Applying
        /\ kind = "status_page" => c \in {"add", "save", "get", "remove"}
        /\ kind = "settings" => c # "remove"
        /\ c = "save" => kind = "status_page"
        /\ c = "add" => op = "create"
    <2>1. Handler = HandlersOf(kind)[IF op = "import" THEN "read" ELSE op]
      BY DEF Handler
    <2>2. CASE op = "create"
      BY <1>0, <2>1, <2>2, HandlerFacts DEF Applying
    <2>3. CASE op = "update"
      BY <1>0, <2>1, <2>3, HandlerFacts DEF Applying
    <2>4. CASE op \in {"read", "import", "delete"}
      BY <1>0, <2>1, <2>4, HandlerFacts DEF Applying
    <2>5. QED  BY <1>0, <2>2, <2>3, <2>4
  <1>2. r \in Rows /\ IF Makes(c) THEN ~Live(r) /\ r \notin {recorded.id, target}
                                  ELSE Live(r) /\ Key(rows, r) = target
    <2>1. CASE Makes(c)
      <3>1. PICK v \in Rows : Vacant(v)
        BY <2>1 DEF Room
      <3>2. r = CHOOSE q \in Rows : Vacant(q)
        BY <2>1 DEF Subject
      <3>3. r \in Rows /\ Vacant(r)
        BY <3>1, <3>2
      <3>4. QED  BY <2>1, <3>3 DEF Vacant
    <2>2. CASE ~Makes(c)
      BY <2>2 DEF Subject, Named
    <2>3. QED  BY <2>1, <2>2
  <1>3. c = "remove" => Written(c, rows[r]) = NoRow
    BY CallFacts DEF Written, Makes
  <1>4. c # "remove" => Written(c, rows[r]) \in Columns
    <2>1. c \in Writers => attr # "pinned"
      BY <1>0, TablesDef, KindOfAttribute DEF Writers, Others
    <2>2. rows[r] \in Columns \/ Makes(c)
      BY <1>0, <1>2 DEF Live
    <2>3. ColumnDefault(kind, attr) \in Columns /\ Zero \in Columns
      BY <1>0, StoredType DEF Columns, Known
    <2>4. c \in Writers => /\ StoredByCreate(kind, attr, model) \in Columns
                           /\ StoredByEdit(kind, attr, model) \in Columns
      BY <1>0, <2>1, StoredType
    <2>5. CASE Makes(c)
      BY <2>3, <2>4, <2>5, CallFacts DEF Written
    <2>6. CASE ~Makes(c)
      BY <2>2, <2>3, <2>4, <2>6, CallFacts DEF Written
    <2>7. QED  BY <2>5, <2>6
  <1>5. /\ t \in [Rows -> Columns \cup {NoRow}]
        /\ t[r] = Written(c, rows[r])
        /\ t[r] = NoRow <=> c = "remove"
        /\ \A q \in Rows \ {r} : t[q] = NoRow <=> rows[q] = NoRow
        /\ \A q \in Rows \ {r} : attr # "pinned" => t[q] = rows[q]
    <2>1. Zero \in Columns
      BY DEF Columns, Known
    <2>2. QED
      BY <1>0, <1>2, <1>3, <1>4, <2>1, MarksDiffer DEF After, Live
  <1>6. \A q \in Rows \ {r} : Key(t, q) = Key(rows, q)
    BY <1>5 DEF Key
  <1>7. attr = "slug" =>
          /\ kind = "status_page"
          /\ t[r] = IF c \in {"add", "save"} THEN model
                    ELSE IF c = "remove" THEN NoRow ELSE rows[r]
          /\ t[r] \in Positive \cup {NoRow}
    <2>1. CASE attr = "slug"
      <3>1. kind = "status_page" /\ Writers = {"add", "save"}
        BY <1>0, <2>1, KindOfAttribute, TablesDef DEF Writers, Others
      <3>2. c \in {"add", "save"} => model \in Positive
        BY <1>1, <2>1 DEF Inv, Slugs
      <3>3. c \in {"add", "save"} => Written(c, rows[r]) = model
        BY <2>1, <3>1, <3>2, SlugTable DEF Written, Makes
      <3>4. c \notin {"add", "save", "remove"} => Written(c, rows[r]) = rows[r]
        BY <1>1, <2>1, <3>1 DEF Written, Makes
      <3>5. c \notin {"add", "save", "remove"} => rows[r] \in Positive
        BY <1>0, <1>1, <1>2, <2>1, <3>1 DEF Consistent, Live, Makes
      <3>6. QED  BY <1>3, <1>5, <3>1, <3>2, <3>3, <3>4, <3>5
    <2>2. QED  BY <2>1
  <1>8. ~Makes(c) /\ ~(attr = "slug" /\ c = "save") /\ c # "remove"
          => Key(t, r) = Key(rows, r)
    BY <1>7 DEF Key, Makes
  <1>9. kind = "status_page" =>
          \A p, q \in Rows : t[p] # NoRow /\ t[q] # NoRow /\ Key(t, p) = Key(t, q) => p = q
    <2> SUFFICES ASSUME kind = "status_page", NEW p \in Rows, NEW q \in Rows,
                        t[p] # NoRow, t[q] # NoRow, Key(t, p) = Key(t, q)
                 PROVE  p = q
      OBVIOUS
    <2>1. ASSUME NEW x \in Rows \ {r}, rows[x] # NoRow, t[r] # NoRow
          PROVE  Key(t, r) # Key(rows, x)
      <3>1. CASE c \in {"add", "save"}
        <4>1. Key(t, r) = IF attr = "slug" THEN model ELSE One
          BY <1>7, <3>1 DEF Key
        <4>2. x \notin Named(target)
          <5>1. CASE c = "add"
            <6>1. target = NoID
              BY <1>1, <5>1 DEF Inv, Control
            <6>2. QED  BY <1>0, <2>1, <6>1, KeyType, MarksDiffer DEF Named
          <5>2. CASE c = "save"
            BY <1>0, <1>2, <2>1, <5>2 DEF Named, Makes, Consistent, Live
          <5>3. QED  BY <3>1, <5>1, <5>2
        <4>3. QED  BY <2>1, <3>1, <4>1, <4>2 DEF Taken, Live
      <3>2. CASE c \notin {"add", "save"}
        <4>1. Key(t, r) = Key(rows, r) /\ rows[r] # NoRow
          BY <1>1, <1>2, <1>5, <1>8, <2>1, <3>2 DEF Makes, Live
        <4>2. QED  BY <1>0, <1>2, <2>1, <4>1 DEF Consistent
      <3>3. QED  BY <3>1, <3>2
    <2>2. CASE p = r \/ q = r
      BY <1>2, <1>5, <1>6, <2>1, <2>2
    <2>3. CASE p # r /\ q # r
      BY <1>0, <1>5, <1>6, <2>3 DEF Consistent
    <2>4. QED  BY <2>2, <2>3
  <1>10. Consistent(t)
    <2>1. attr = "slug" => t \in [Rows -> Positive \cup {NoRow}]
      BY <1>0, <1>5, <1>7 DEF Consistent
    <2>2. kind = "settings" => \E q \in Rows : t[q] # NoRow
      BY <1>0, <1>1, <1>2, <1>5 DEF Consistent
    <2>3. QED  BY <1>5, <1>9, <2>1, <2>2 DEF Consistent
  <1>11. c \in {"get", "look"} => t = rows
    BY <1>0 DEF After, Written, Makes, Writers
  <1>12. QED
    BY <1>2, <1>5, <1>6, <1>7, <1>8, <1>10, <1>11

-----------------------------------------------------------------------------
(* The end of a handler.                                                   *)

\* Between two handlers, little of the invariant has anything to say.
LEMMA EndStep ==
    ASSUME Inv, Idle, UNCHANGED <<subject, config>>, TypeOK', Consistent(rows)',
           kind # "settings" => Unnamed(rows, recorded)' \subseteq strays',
           StillApplied'
    PROVE  Inv'
  <1>0. kind' = kind /\ attr' = attr
    BY DEF subject
  <1>1. op' = "idle" /\ calls' = {} /\ model' = Null
    BY DEF Idle
  <1>2. Control'
    <2>1. config' \in Writable' \cup {Gone}
      BY DEF Inv, Control, Writable, Schema, subject
    <2>2. QED  BY <1>1, <2>1 DEF Control, Running
  <1>3. Valued' /\ Slugs' /\ KeyHeld' /\ StoredInTime'
    BY <1>1 DEF Valued, Slugs, KeyHeld, StoredInTime, StoreDue, Applying, Null, Unknown
  <1>4. Accounted'
    <2>1. Unnamed(rows, recorded)' = Astray(rows, recorded.id)'
      <3>1. recorded' \in {None} \cup
               [id : Rows \cup Known, value : Columns, tainted : BOOLEAN]
        BY DEF TypeOK
      <3>2. Consistent(rows')
        BY <1>0 DEF Consistent, Key
      <3>3. Unnamed(rows', recorded') = Unnamed(rows, recorded)'
        BY <1>0 DEF Unnamed, Key
      <3>4. Astray(rows', recorded'.id) = Astray(rows, recorded.id)'
        BY <1>0 DEF Astray, Key
      <3>5. QED  BY <3>1, <3>2, <3>3, <3>4, UnnamedIsAstray
    <2>2. QED  BY <1>0, <1>1, <2>1 DEF Accounted
  <1>5. QED  BY <1>2, <1>3, <1>4 DEF Inv

\* A fault is counted.
LEMMA FaultCount ==
    ASSUME TypeOK, Fault
    PROVE  faults' \in 0..MaxFaults
  BY ResourcesAssumption DEF TypeOK, Fault

\* The table has only rows it had, under the keys they had.
Dwindled ==
    \A q \in Rows :
        rows'[q] # NoRow => rows[q] # NoRow /\ Key(rows', q) = Key(rows, q)

\* A handler that fails.
LEMMA FailStep ==
    ASSUME Inv, Running, Fail, UNCHANGED subject, Consistent(rows)',
           faults' \in 0..MaxFaults, ~Applying => Dwindled
    PROVE  Inv'
  <1>1. /\ Idle /\ UNCHANGED <<config, touched, plan, changes>>
        /\ last' = <<op, "failed">> /\ refreshed' = FALSE
    BY DEF Fail, Reported
  <1>2. recorded' \in {None} \cup
           [id : Rows \cup Known, value : Columns, tainted : BOOLEAN]
    <2>1. CASE op = "create" /\ kind = "status_page" /\ Due("save")
      <3>1. "add" \notin calls
        BY <2>1, DueFacts DEF Inv, TypeOK
      <3>2. target \in Rows \cup Known
        BY <2>1, <3>1 DEF Inv, TypeOK, Control, Running
      <3>3. (IF model = Unknown THEN Null ELSE model) \in Columns
        BY DEF Inv, TypeOK, Values, Columns
      <3>4. recorded' = [id |-> target, tainted |-> TRUE,
                         value |-> IF model = Unknown THEN Null ELSE model]
        BY <2>1 DEF Fail
      <3>5. QED  BY <3>2, <3>3, <3>4
    <2>2. CASE ~(op = "create" /\ kind = "status_page" /\ Due("save"))
      BY <2>2 DEF Fail, Inv, TypeOK
    <2>3. QED  BY <2>1, <2>2
  <1>3. strays' \subseteq Rows
    BY DEF Fail, Unnamed, Inv, TypeOK
  <1>4. TypeOK'
    <2>1. rows' \in [Rows -> Columns \cup {NoRow}]
      BY DEF Consistent
    <2>2. kind' = kind /\ attr' = attr /\ 1 \in 1..Attempts /\ Null \in Values
      BY DEF subject, Attempts, Values, Columns
    <2>3. QED
      BY <1>1, <1>2, <1>3, <2>1, <2>2 DEF Inv, TypeOK, Idle
  <1>5. kind # "settings" => Unnamed(rows, recorded)' \subseteq strays'
    <2>1. Unnamed(rows, recorded)' = Unnamed(rows', recorded')
      BY DEF subject, Unnamed, Key
    <2>2. CASE Applying
      BY <2>1, <2>2 DEF Fail, Applying
    <2>3. CASE ~Applying
      <3>1. recorded' = recorded /\ strays' = strays
        BY <2>3 DEF Fail, Applying
      <3>2. Unnamed(rows', recorded) \subseteq Unnamed(rows, recorded)
        BY <2>3 DEF Unnamed, Dwindled
      <3>3. Unnamed(rows, recorded) = Astray(rows, recorded.id)
        BY UnnamedIsAstray DEF Inv, TypeOK
      <3>4. kind # "settings" => Astray(rows, recorded.id) \subseteq strays
        BY <2>3 DEF Inv, Accounted, Applying
      <3>5. QED  BY <2>1, <3>1, <3>2, <3>3, <3>4
    <2>4. QED  BY <2>2, <2>3
  <1>6. StillApplied'
    BY <1>1 DEF StillApplied, SuccessIsApplied, Applied
  <1>7. QED  BY <1>1, <1>4, <1>5, <1>6, EndStep

-----------------------------------------------------------------------------
(* A call that is not answered, or answered by a refusal.                  *)

\* The server has carried out the call, on row r.
Served(c, r) ==
    /\ ~Taken(c) /\ ~Missing(c) /\ (Makes(c) => Room)
    /\ r \in Subject(c) /\ rows' = After(c, r)

\* The table has the rows it had, under the keys they had.
SameKeys ==
    \A q \in Rows : /\ rows'[q] = NoRow <=> rows[q] = NoRow
                    /\ Key(rows', q) = Key(rows, q)

\* What every handler has in common.
LEMMA HandlerInv ==
    ASSUME Inv, Running, NEW c \in calls, Due(c)
    PROVE  /\ calls \subseteq Calls /\ calls \subseteq Handler
           /\ kind \in Kinds /\ attr \in DOMAIN Tables[kind].schema
           /\ op \in {"create", "read", "update", "delete", "import"}
           /\ op \in {"read", "import"} => c = "get" /\ calls = {"get"}
           /\ op = "delete" => c = "remove" /\ calls = {"remove"} /\ kind # "settings"
           /\ c = "remove" => op = "delete"
           /\ c = "add" => op = "create" /\ kind # "settings"
           /\ c = "repost" => op = "update" /\ kind = "status_page_incident"
           /\ c = "save" => Applying /\ kind = "status_page"
           /\ c = "edit" => op = "update"
           /\ c \in {"attach", "detach"} => kind \in Monitors
  <1>1. /\ calls \subseteq Calls /\ calls \subseteq Handler
        /\ kind \in Kinds /\ attr \in DOMAIN Tables[kind].schema
        /\ op \in {"create", "read", "update", "delete", "import"}
    BY DEF Inv, TypeOK, Control, Running
  <1>2. CASE op = "create"
    BY <1>1, <1>2, HandlerFacts DEF Handler, Applying
  <1>3. CASE op = "update"
    BY <1>1, <1>3, HandlerFacts DEF Handler, Applying
  <1>4. CASE op \in {"read", "import", "delete"}
    BY <1>1, <1>4, HandlerFacts DEF Handler
  <1>5. QED  BY <1>1, <1>2, <1>3, <1>4

\* The table after a call that has failed on the way there or back.
LEMMA TableAfter ==
    ASSUME Inv, Running, NEW c \in calls, Due(c), UNCHANGED subject,
           UNCHANGED rows \/ \E r \in Subject(c) : Served(c, r)
    PROVE  /\ Consistent(rows)'
           /\ ~Applying => Dwindled
           /\ c \in {"attach", "detach"} => SameKeys
  <1>1. kind' = kind /\ attr' = attr
    BY DEF subject
  <1>2. CASE UNCHANGED rows
    BY <1>1, <1>2 DEF Inv, Consistent, Key, Dwindled, SameKeys
  <1>3. ASSUME NEW r \in Subject(c), Served(c, r)
        PROVE  /\ Consistent(rows)'
               /\ ~Applying => Dwindled
               /\ c \in {"attach", "detach"} => SameKeys
    <2>1. /\ r \in Rows /\ Consistent(rows')
          /\ Makes(c) \/ (rows[r] # NoRow /\ Key(rows, r) = target)
          /\ rows'[r] = NoRow <=> c = "remove"
          /\ \A q \in Rows \ {r} : /\ rows'[q] = NoRow <=> rows[q] = NoRow
                                   /\ Key(rows', q) = Key(rows, q)
          /\ ~Makes(c) /\ ~(attr = "slug" /\ c = "save") /\ c # "remove"
                => Key(rows', r) = Key(rows, r)
          /\ c \in {"get", "look"} => rows' = rows
      BY <1>3, CallOnTable DEF Served, Live
    <2>2. Consistent(rows)'
      BY <1>1, <2>1 DEF Consistent, Key
    <2>3. ~Applying => c \in {"get", "remove"}
      BY HandlerInv DEF Applying
    <2>4. QED  BY <2>1, <2>2, <2>3 DEF Dwindled, SameKeys, Makes
  <1>4. QED  BY <1>2, <1>3

\* A call that has failed for good.
LEMMA GiveUpStep ==
    ASSUME Inv, Running, NEW c \in calls, Due(c), UNCHANGED subject,
           UNCHANGED rows \/ \E r \in Subject(c) : Served(c, r),
           GiveUp(c), faults' \in 0..MaxFaults
    PROVE  Inv'
  <1>1. CASE Fail
    BY <1>1, TableAfter, FailStep
  <1>2. CASE ~Fail
    <2>1. /\ op = "update" /\ c \in {"detach", "attach"}
          /\ calls' = calls \cap {"look", "toggle"} /\ diags' = TRUE /\ tries' = 1
          /\ UNCHANGED <<terraform, op, model, target, strays>>
      BY <1>2 DEF GiveUp
    <2>2. /\ kind' = kind /\ attr' = attr /\ op' = op /\ model' = model /\ target' = target
          /\ config' = config /\ recorded' = recorded /\ strays' = strays /\ last' = last
          /\ UNCHANGED <<touched, refreshed, plan, changes>>
      BY <2>1 DEF subject, terraform
    <2>3. Consistent(rows)' /\ SameKeys /\ kind \in Monitors
      BY <2>1, TableAfter, HandlerInv
    <2>4. TypeOK'
      <3>1. 1 \in 1..Attempts /\ rows' \in [Rows -> Columns \cup {NoRow}]
        BY <2>3 DEF Attempts, Consistent
      <3>2. QED  BY <2>1, <2>2, <3>1 DEF Inv, TypeOK
    <2>5. Control'
      <3>1. config' \in Writable' \cup {Gone}
        BY <2>2 DEF Inv, Control, Writable, Schema
      <3>2. Handler' = Handler
        BY <2>2 DEF Handler
      <3>3. "add" \notin calls
        BY <2>1, HandlerInv, DueFacts
      <3>4. QED
        BY <2>1, <2>2, <3>1, <3>2, <3>3 DEF Inv, Control, Running
    <2>6. Valued' /\ Slugs' /\ KeyHeld' /\ StoredInTime'
      BY <2>1, <2>2 DEF Inv, Valued, Slugs, KeyHeld, StoredInTime, StoreDue, Applying, Schema
    <2>7. Accounted'
      <3>1. kind # "status_page"
        BY <2>3, TablesDef DEF Others
      <3>2. Astray(rows, target)' = Astray(rows, target)
        BY <2>2, <2>3 DEF Astray, SameKeys, Key
      <3>3. QED  BY <2>1, <2>2, <3>1, <3>2 DEF Inv, Accounted, LostRename
    <2>8. StillApplied'
      BY <2>1, <2>2 DEF Inv, StillApplied, SuccessIsApplied, Applied
    <2>9. QED  BY <2>3, <2>4, <2>5, <2>6, <2>7, <2>8 DEF Inv
  <1>3. QED  BY <1>1, <1>2

\* A call that RetryRPC repeats: what it may have done already is kept track
\* of, and the handler stands where it stood.
LEMMA RetryStep ==
    ASSUME Inv, Running, NEW c \in calls, Due(c), UNCHANGED subject,
           NEW made,
           \/ UNCHANGED rows /\ made = {}
           \/ \E r \in Subject(c) : Served(c, r) /\ made = IF Makes(c) THEN {r} ELSE {},
           c \in Retried, tries < Attempts, tries' = tries + 1,
           strays' = strays \cup made,
           UNCHANGED <<terraform, op, calls, model, target, diags>>,
           faults' \in 0..MaxFaults
    PROVE  Inv'
  <1>1. /\ kind' = kind /\ attr' = attr /\ op' = op /\ model' = model /\ target' = target
        /\ config' = config /\ recorded' = recorded /\ last' = last /\ calls' = calls
        /\ UNCHANGED <<touched, refreshed, plan, changes, diags>>
    BY DEF subject, terraform
  <1>2. Consistent(rows)' /\ (~Applying => Dwindled)
    BY TableAfter
  <1>3. c # "get" /\ c # "repost" /\ op \notin {"idle", "read", "import"}
    BY HandlerInv DEF Retried, Running
  <1>4. made \subseteq Rows
    BY CallOnTable DEF Served
  <1>5. TypeOK'
    <2>1. tries' \in 1..Attempts
      BY DEF Inv, TypeOK, Attempts
    <2>2. rows' \in [Rows -> Columns \cup {NoRow}]
      BY <1>2 DEF Consistent
    <2>3. QED  BY <1>1, <1>4, <2>1, <2>2 DEF Inv, TypeOK
  <1>6. Control'
    <2>1. config' \in Writable' \cup {Gone} /\ Handler' = Handler
      BY <1>1 DEF Inv, Control, Writable, Schema, Handler
    <2>2. op = "delete" => "remove" \in calls
      BY HandlerInv
    <2>3. QED  BY <1>1, <2>1, <2>2 DEF Inv, Control, Running
  <1>7. Valued' /\ Slugs' /\ KeyHeld'
    <2>1. ReadLater' = ReadLater /\ Handler' = Handler
      BY <1>1 DEF ReadLater, ReadHere, Handler
    <2>2. QED  BY <1>1, <2>1 DEF Inv, Valued, Slugs, KeyHeld, Applying, Schema
  <1>8. StoredInTime'
    <2>1. CASE Applying /\ (kind \in {"proxy", "notification"}
                            \/ (kind = "api_key" /\ op = "create"))
      <3>1. c \in {"add", "edit", "get"}
        BY <2>1, HandlerInv, HandlerFacts DEF Handler, Applying
      <3>2. calls \cap {"add", "edit"} # {}
        BY <1>3, <3>1
      <3>3. QED  BY <1>1, <3>2 DEF StoredInTime, StoreDue
    <2>2. CASE ~(Applying /\ (kind \in {"proxy", "notification"}
                              \/ (kind = "api_key" /\ op = "create")))
      <3>1. ~StoreDue'
        BY <1>1, <2>2 DEF StoreDue, Applying
      <3>2. QED  BY <3>1 DEF StoredInTime
    <2>3. QED  BY <2>1, <2>2
  <1>9. StillApplied'
    BY <1>1, <1>3 DEF Inv, StillApplied, SuccessIsApplied, Applied
  <1>10. Accounted'
    <2>1. Astray(rows', target) = Astray(rows, target)' /\ Named(target)' =
            {q \in Rows : rows'[q] # NoRow /\ Key(rows', q) = target}
      BY <1>1 DEF Astray, Named, Live, Key
    <2>2. CASE UNCHANGED rows /\ made = {}
      <3>1. Astray(rows, target)' = Astray(rows, target) /\ LostRename' = LostRename
            /\ Astray(rows, recorded.id)' = Astray(rows, recorded.id)
        BY <1>1, <2>2 DEF Astray, Key, LostRename, Named, Live
      <3>2. QED  BY <1>1, <2>2, <3>1 DEF Inv, Accounted
    <2>3. ASSUME NEW r \in Subject(c), Served(c, r),
                 made = IF Makes(c) THEN {r} ELSE {}
          PROVE  Accounted'
      <3>1. /\ r \in Rows
            /\ Makes(c) \/ (rows[r] # NoRow /\ Key(rows, r) = target)
            /\ rows'[r] = NoRow <=> c = "remove"
            /\ \A q \in Rows \ {r} : /\ rows'[q] = NoRow <=> rows[q] = NoRow
                                     /\ Key(rows', q) = Key(rows, q)
            /\ ~Makes(c) /\ ~(attr = "slug" /\ c = "save") /\ c # "remove"
                 => Key(rows', r) = Key(rows, r)
            /\ attr = "slug" /\ c \in {"add", "save"} => rows'[r] = model
        BY <2>3, CallOnTable DEF Served, Live
      <3>2. attr = "slug" => kind = "status_page"
        BY HandlerInv, KindOfAttribute
      <3>3. CASE op = "create" /\ kind # "settings"
        <4>1. Astray(rows, target) \subseteq strays
          BY <3>3 DEF Inv, Accounted
        <4>2. CASE Makes(c)
          BY <1>1, <2>1, <2>3, <3>1, <3>3, <4>1, <4>2 DEF Accounted, Astray
        <4>3. CASE ~Makes(c)
          <5>1. c # "remove" /\ "add" \notin calls
            BY <3>3, <4>3, HandlerInv, DueFacts DEF Makes
          <5>2. attr = "slug" => model = target
            BY <3>3, <5>1 DEF Inv, Slugs
          <5>3. Key(rows', r) = target
            BY <3>1, <3>2, <4>3, <5>1, <5>2 DEF Key
          <5>4. QED  BY <1>1, <2>1, <3>1, <3>3, <4>1, <5>3 DEF Accounted, Astray
        <4>4. QED  BY <4>2, <4>3
      <3>4. CASE op = "update" /\ kind # "settings"
        <4>1. SUFFICES ASSUME target = recorded.id, ~LostRename'
                       PROVE  Astray(rows, target)' \subseteq strays
          BY <1>1, <3>4 DEF Accounted
        <4>2. ~Makes(c) /\ c # "remove"
          BY <1>3, <3>4, HandlerInv DEF Makes
        <4>3. CASE Key(rows', r) = target
          <5>1. Astray(rows', target) = Astray(rows, target)
            BY <3>1, <4>2, <4>3 DEF Astray
          <5>2. ~LostRename
            BY <3>1, <4>2 DEF LostRename, Named, Live
          <5>3. QED  BY <2>1, <3>4, <4>1, <5>1, <5>2 DEF Inv, Accounted
        <4>4. CASE Key(rows', r) # target
          <5>1. c = "save" /\ kind = "status_page"
            BY <3>1, <3>2, <4>2, <4>4
          <5>2. \A q \in Rows : rows'[q] # NoRow => Key(rows', q) # target
            BY <3>1, <4>2, <4>4, <5>1 DEF Inv, Consistent
          <5>3. LostRename'
            BY <1>1, <2>1, <5>1, <5>2 DEF LostRename
          <5>4. QED  BY <4>1, <5>3
        <4>5. QED  BY <4>3, <4>4
      <3>5. CASE op = "delete" /\ kind # "settings"
        <4>1. Astray(rows, recorded.id) \subseteq strays
          BY <3>5 DEF Inv, Accounted
        <4>2. Astray(rows, recorded.id)' \subseteq Astray(rows, recorded.id)
          BY <1>1, <1>2, <3>5 DEF Applying, Dwindled, Astray, Key
        <4>3. QED  BY <1>1, <3>5, <4>1, <4>2 DEF Accounted
      <3>6. op \in {"create", "update", "delete"}
        BY <1>3, HandlerInv
      <3>7. QED  BY <1>1, <3>3, <3>4, <3>5, <3>6 DEF Accounted
    <2>4. QED  BY <2>2, <2>3
  <1>11. QED
    BY <1>2, <1>5, <1>6, <1>7, <1>8, <1>9, <1>10 DEF Inv

\* A call that may be repeated, or is given up.
LEMMA TransientStep ==
    ASSUME Inv, Running, NEW c \in calls, Due(c), UNCHANGED subject, NEW made,
           \/ UNCHANGED rows /\ made = {}
           \/ \E r \in Subject(c) : Served(c, r) /\ made = IF Makes(c) THEN {r} ELSE {},
           Transient(c, made), faults' \in 0..MaxFaults
    PROVE  Inv'
  <1>1. CASE c \in Retried /\ tries < Attempts
    BY <1>1, RetryStep DEF Transient
  <1>2. CASE ~(c \in Retried /\ tries < Attempts)
    <2>1. GiveUp(c)
      BY <1>2 DEF Transient
    <2>2. QED  BY <2>1, GiveUpStep
  <1>3. QED  BY <1>1, <1>2

\* The provider is killed.
LEMMA KilledStep ==
    ASSUME Inv, Killed
    PROVE  Inv'
  <1>1. /\ Running /\ Fault /\ Idle /\ recorded' = recorded /\ rows' = rows
        /\ last' = <<op, "killed">> /\ refreshed' = FALSE
        /\ kind' = kind /\ attr' = attr /\ config' = config
        /\ UNCHANGED <<touched, plan, changes>>
        /\ strays' = IF Applying THEN Unnamed(rows, recorded) ELSE strays
    BY DEF Killed, Running, Applying, Reported, subject
  <1>2. TypeOK'
    <2>1. faults' \in 0..MaxFaults
      BY <1>1, FaultCount DEF Inv
    <2>2. 1 \in 1..Attempts /\ Null \in Values /\ strays' \subseteq Rows
      BY <1>1 DEF Attempts, Values, Columns, Unnamed, Inv, TypeOK
    <2>3. QED  BY <1>1, <2>1, <2>2 DEF Inv, TypeOK, Idle
  <1>3. Consistent(rows)'
    BY <1>1 DEF Inv, Consistent, Key
  <1>4. kind # "settings" => Unnamed(rows, recorded)' \subseteq strays'
    <2>1. Unnamed(rows, recorded)' = Unnamed(rows, recorded)
      BY <1>1 DEF Unnamed, Key
    <2>2. Unnamed(rows, recorded) = Astray(rows, recorded.id)
      BY UnnamedIsAstray DEF Inv, TypeOK
    <2>3. QED  BY <1>1, <2>1, <2>2 DEF Inv, Accounted, Applying
  <1>5. StillApplied'
    BY <1>1 DEF StillApplied, SuccessIsApplied, Applied
  <1>6. QED  BY <1>1, <1>2, <1>3, <1>4, <1>5, EndStep DEF subject

\* A fault, whichever it is, while a handler runs.
LEMMA FaultStep ==
    ASSUME Inv, Lost \/ Down \/ Refused \/ Cancelled \/ Killed
    PROVE  Inv'
  <1>1. CASE Lost
    <2>1. PICK c \in calls :
            /\ Calling(c) /\ Fault /\ ~Taken(c) /\ ~Missing(c) /\ (Makes(c) => Room)
            /\ \E r \in Subject(c) :
                 rows' = After(c, r) /\ Transient(c, IF Makes(c) THEN {r} ELSE {})
            /\ UNCHANGED subject
      BY <1>1 DEF Lost
    <2>2. PICK r \in Subject(c) :
            rows' = After(c, r) /\ Transient(c, IF Makes(c) THEN {r} ELSE {})
      BY <2>1
    <2>3. Running /\ Due(c) /\ Served(c, r) /\ faults' \in 0..MaxFaults
      BY <2>1, <2>2, FaultCount DEF Calling, Running, Served, Inv
    <2>4. QED  BY <2>1, <2>2, <2>3, TransientStep
  <1>2. CASE Down
    <2>1. PICK c \in calls :
            /\ Calling(c) /\ Fault /\ UNCHANGED <<subject, rows>> /\ Transient(c, {})
      BY <1>2 DEF Down
    <2>2. Running /\ Due(c) /\ faults' \in 0..MaxFaults
      BY <2>1, FaultCount DEF Calling, Running, Inv
    <2>3. QED  BY <2>1, <2>2, TransientStep
  <1>3. CASE Refused
    <2>1. PICK c \in calls :
            /\ Calling(c) /\ Fault /\ UNCHANGED <<subject, rows>> /\ GiveUp(c)
      BY <1>3 DEF Refused
    <2>2. Running /\ Due(c) /\ faults' \in 0..MaxFaults
      BY <2>1, FaultCount DEF Calling, Running, Inv
    <2>3. QED  BY <2>1, <2>2, GiveUpStep
  <1>4. CASE Cancelled
    <2>1. /\ Running /\ Fail /\ UNCHANGED subject /\ rows' = rows
          /\ faults' \in 0..MaxFaults
      BY <1>4, FaultCount DEF Cancelled, Running, Inv
    <2>2. Consistent(rows)' /\ Dwindled
      BY <2>1 DEF Inv, Consistent, Key, Dwindled, subject
    <2>3. QED  BY <2>1, <2>2, FailStep
  <1>5. CASE Killed
    BY <1>5, KilledStep
  <1>6. QED  BY <1>1, <1>2, <1>3, <1>4, <1>5

-----------------------------------------------------------------------------
(* A call that is answered.                                                *)

\* No two live rows have one key.
LEMMA OneRow ==
    ASSUME NEW table, Consistent(table), NEW q \in Rows, NEW r \in Rows,
           table[q] # NoRow, table[r] # NoRow, Key(table, q) = Key(table, r)
    PROVE  q = r
  <1>1. CASE kind = "status_page"
    BY <1>1 DEF Consistent
  <1>2. CASE kind # "status_page"
    BY <1>2 DEF Key
  <1>3. QED  BY <1>1, <1>2

\* The answer to call c, about row r, has arrived.
Arrived(c, r) ==
    /\ Running /\ c \in calls /\ Due(c) /\ Served(c, r)
    /\ model' = Answered(c, rows'[r])
    /\ target' = IF Makes(c) THEN Key(rows', r)
                 ELSE IF c = "save" /\ attr = "slug" THEN model ELSE target
    /\ calls' = calls \ {c} /\ tries' = 1
    /\ UNCHANGED <<subject, terraform, op, diags, strays, faults>>

\* What it leaves as it was.
LEMMA ArrivedKeeps ==
    ASSUME NEW c, NEW r, Arrived(c, r)
    PROVE  /\ kind' = kind /\ attr' = attr /\ config' = config /\ touched' = touched
           /\ recorded' = recorded /\ refreshed' = refreshed /\ plan' = plan
           /\ last' = last /\ changes' = changes /\ op' = op /\ diags' = diags
           /\ strays' = strays /\ faults' = faults
           /\ calls' = calls \ {c} /\ tries' = 1 /\ Running /\ c \in calls /\ Due(c)
           /\ Schema' = Schema /\ Handler' = Handler /\ ReadHere' = ReadHere
           /\ Applying' = Applying
  <1>1. /\ kind' = kind /\ attr' = attr /\ config' = config /\ touched' = touched
        /\ recorded' = recorded /\ refreshed' = refreshed /\ plan' = plan
        /\ last' = last /\ changes' = changes /\ op' = op /\ diags' = diags
        /\ strays' = strays /\ faults' = faults
        /\ calls' = calls \ {c} /\ tries' = 1 /\ Running /\ c \in calls /\ Due(c)
    BY DEF Arrived, subject, terraform
  <1>2. QED  BY <1>1 DEF Schema, Handler, ReadHere, Applying

\* Which row it is about, and what becomes of the table.
LEMMA ArrivedRow ==
    ASSUME Inv, NEW c, NEW r, Arrived(c, r)
    PROVE  /\ r \in Rows /\ Consistent(rows') /\ Consistent(rows)'
           /\ IF Makes(c) THEN rows[r] = NoRow /\ r \notin {recorded.id, target}
                          ELSE rows[r] # NoRow /\ Key(rows, r) = target
           /\ rows'[r] = Written(c, rows[r])
           /\ rows'[r] = NoRow <=> c = "remove"
           /\ \A q \in Rows \ {r} : /\ rows'[q] = NoRow <=> rows[q] = NoRow
                                    /\ Key(rows', q) = Key(rows, q)
           /\ attr = "slug" /\ c \in {"add", "save"} => rows'[r] = model
           /\ c \in {"get", "look"} => rows' = rows
           /\ ~Applying => Dwindled
           /\ c # "remove" => /\ rows'[r] \in Columns /\ Key(rows', r) = target'
                              /\ target' \in Rows \cup Known /\ r \in Named(target)'
           /\ c = "remove" => target' = target
           /\ calls' \cap {"add", "edit"} = {}
  <1>0. c \in calls /\ Due(c) /\ Running /\ r \in Subject(c) /\ Served(c, r)
        /\ kind' = kind /\ attr' = attr
    BY ArrivedKeeps DEF Arrived, Served
  <1>1. /\ r \in Rows /\ Consistent(rows')
        /\ IF Makes(c) THEN rows[r] = NoRow /\ r \notin {recorded.id, target}
                       ELSE rows[r] # NoRow /\ Key(rows, r) = target
        /\ rows'[r] = Written(c, rows[r])
        /\ rows'[r] = NoRow <=> c = "remove"
        /\ \A q \in Rows \ {r} : /\ rows'[q] = NoRow <=> rows[q] = NoRow
                                 /\ Key(rows', q) = Key(rows, q)
        /\ attr = "slug" /\ c \in {"add", "save"} => rows'[r] = model
        /\ ~Makes(c) /\ ~(attr = "slug" /\ c = "save") /\ c # "remove"
             => Key(rows', r) = Key(rows, r)
        /\ c \in {"get", "look"} => rows' = rows
    BY <1>0, CallOnTable DEF Served, Live
  <1>2. Consistent(rows)' /\ (~Applying => Dwindled)
    <2>1. UNCHANGED subject
      BY <1>0 DEF subject
    <2>2. QED  BY <1>0, <2>1, TableAfter
  <1>3. c # "remove" => rows'[r] \in Columns
    BY <1>1 DEF Consistent
  <1>4. c # "remove" => Key(rows', r) = target'
    <2>1. CASE Makes(c)
      BY <2>1 DEF Arrived
    <2>2. CASE ~Makes(c) /\ c = "save" /\ attr = "slug"
      <3>1. target' = model
        BY <2>2 DEF Arrived
      <3>2. kind = "status_page"
        BY <1>0, <2>2, HandlerInv
      <3>3. QED  BY <1>1, <2>2, <3>1, <3>2 DEF Key
    <2>3. CASE ~Makes(c) /\ ~(c = "save" /\ attr = "slug")
      <3>1. target' = target
        BY <2>3 DEF Arrived
      <3>2. QED  BY <1>1, <2>3, <3>1
    <2>4. QED  BY <2>1, <2>2, <2>3
  <1>5. c # "remove" => Key(rows', r) \in Rows \cup Known
    BY <1>1, KeyType
  <1>6. c # "remove" => r \in Named(target)'
    <2>1. Named(target)' = {q \in Rows : rows'[q] # NoRow /\ Key(rows', q) = target'}
      BY <1>0 DEF Named, Live, Key
    <2>2. QED  BY <1>1, <1>4, <2>1
  <1>7. c = "remove" => target' = target
    BY DEF Arrived, Makes
  <1>8. calls' \cap {"add", "edit"} = {}
    <2>1. calls' = calls \ {c} /\ calls \subseteq Handler /\ calls \subseteq Calls
          /\ kind \in Kinds /\ op \in {"create", "read", "update", "delete", "import"}
          /\ (c = "add" => op = "create")
      BY <1>0, HandlerInv, ArrivedKeeps
    <2>2. c = "add" => "edit" \notin calls
      BY <2>1, HandlerFacts DEF Handler
    <2>3. QED  BY <1>0, <2>1, <2>2, DueFacts
  <1>9. QED
    BY <1>1, <1>2, <1>3, <1>4, <1>5, <1>6, <1>7, <1>8

\* What the handler has in hand.
LEMMA ArrivedModel ==
    ASSUME Inv, NEW c, NEW r, Arrived(c, r)
    PROVE  /\ c = "get" /\ ReadHere
                => model' = ReadBack(kind, attr, rows'[r]) /\ model' \in Columns
           /\ c = "get" /\ attr = "key" /\ op = "update"
                => model' = recorded.value /\ model' \in Columns
           /\ c = "add" /\ attr = "key" => model' = Own
           /\ kind = "status_page_incident" /\ c # "remove"
                => model' = ReadBack(kind, attr, rows'[r]) /\ model' \in Columns
           /\ \/ model' = model
              \/ c = "get" /\ ReadHere
              \/ c = "get" /\ attr = "key" /\ op = "update"
              \/ c = "add" /\ attr = "key"
              \/ kind = "status_page_incident" /\ c # "remove"
           /\ model' \in Values
  <1>0. /\ c # "remove" => rows'[r] \in Columns
        /\ kind \in Kinds /\ attr \in DOMAIN Tables[kind].schema /\ model \in Values
        /\ recorded.value \in Columns
    BY ArrivedRow DEF Inv, TypeOK, None, Columns
  <1>1. model' = Answered(c, rows'[r])
    BY DEF Arrived
  <1>2. attr = "key" => ~ReadHere
    BY <1>0, KeyTable, KindOfAttribute DEF ReadHere
  <1>3. kind = "status_page_incident" => IsRead(kind, attr)
    BY <1>0, PagesAreRead
  <1>4. ReadHere => IsRead(kind, attr)
    BY DEF ReadHere
  <1>5. IsRead(kind, attr) /\ c # "remove" => ReadBack(kind, attr, rows'[r]) \in Columns
    BY <1>0, ReadType
  <1>6. kind = "status_page_incident" => attr # "key"
    BY <1>0, KindOfAttribute
  <1>7. Columns \subseteq Values /\ Own \in Values
    BY DEF Values, Columns, Known
  <1>8. CASE c = "get" /\ ReadHere
    BY <1>1, <1>2, <1>3, <1>4, <1>5, <1>7, <1>8 DEF Answered
  <1>9. CASE c = "get" /\ ~ReadHere
    BY <1>0, <1>1, <1>3, <1>5, <1>6, <1>7, <1>9 DEF Answered
  <1>10. CASE c # "get"
    BY <1>0, <1>1, <1>3, <1>5, <1>6, <1>7, <1>10 DEF Answered
  <1>11. QED  BY <1>8, <1>9, <1>10

\* The types, where the handler stands, and its model.
LEMMA ArrivedControl ==
    ASSUME Inv, NEW c, NEW r, Arrived(c, r)
    PROVE  TypeOK' /\ Control'
  <1>0. /\ c \in calls /\ Running /\ Due(c) /\ calls' = calls \ {c}
        /\ calls \subseteq Handler /\ Handler' = Handler
        /\ c = "remove" <=> op = "delete"
        /\ op \in {"read", "import"} => c = "get"
        /\ op \in {"read", "delete"} => ~Makes(c) /\ c # "save"
        /\ op = "delete" => calls = {"remove"}
        /\ c = "add" => op = "create"
    BY ArrivedKeeps, HandlerInv DEF Makes
  <1>1. TypeOK'
    <2>1. rows' \in [Rows -> Columns \cup {NoRow}]
      BY ArrivedRow DEF Consistent
    <2>2. target' \in Rows \cup Known \cup {NoID}
      BY ArrivedRow DEF Inv, TypeOK
    <2>3. tries' \in 1..Attempts /\ model' \in Values
      BY ArrivedKeeps, ArrivedModel DEF Attempts
    <2>4. QED  BY ArrivedKeeps, <2>1, <2>2, <2>3 DEF Inv, TypeOK
  <1>2. config' \in Writable' \cup {Gone}
    BY ArrivedKeeps DEF Inv, Control, Writable
  <1>3. op \in {"read", "delete"} => target' = recorded.id
    BY <1>0 DEF Inv, Control, Arrived
  <1>4. "add" \in calls => c = "add"
    BY <1>0, DueFacts DEF Inv, TypeOK
  <1>5. Running /\ "add" \notin calls' => target' # NoID
    BY <1>0, <1>4, ArrivedRow, MarksDiffer DEF Inv, Control
  <1>6. op = "update" /\ "save" \in calls' => target' = recorded.id
    <2> SUFFICES ASSUME op = "update", "save" \in calls' PROVE target' = recorded.id
      OBVIOUS
    <2>1. "save" \in calls /\ c # "save" /\ c \in {"add", "edit", "save"}
      BY <1>0, DueFacts DEF Inv, TypeOK
    <2>2. target' = target
      BY <1>0, <2>1 DEF Arrived, Makes
    <2>3. QED  BY <2>1, <2>2 DEF Inv, Control
  <1>7. op = "delete" => Named(target)' = {}
    <2> SUFFICES ASSUME op = "delete", NEW q \in Rows, rows'[q] # NoRow,
                        Key(rows', q) = target'
                 PROVE  FALSE
      BY ArrivedKeeps DEF Named, Live, Key
    <2>1. c = "remove" /\ target' = target /\ ~Makes(c)
      BY <1>0, ArrivedRow
    <2>2. q # r /\ rows[q] # NoRow /\ Key(rows, q) = target
      BY <2>1, ArrivedRow
    <2>3. rows[r] # NoRow /\ Key(rows, r) = target /\ r \in Rows
      BY <2>1, ArrivedRow
    <2>4. QED  BY <2>2, <2>3, OneRow DEF Inv
  <1>8. Control'
    BY <1>0, <1>2, <1>3, <1>4, <1>5, <1>6, <1>7, ArrivedKeeps DEF Inv, Control, Running
  <1>9. QED  BY <1>1, <1>8

\* The value in the model.
LEMMA ArrivedValue ==
    ASSUME Inv, NEW c, NEW r, Arrived(c, r)
    PROVE  Valued' /\ Slugs' /\ KeyHeld'
  <1>0. /\ c \in calls /\ Running /\ Due(c) /\ calls' = calls \ {c}
        /\ calls \subseteq Handler /\ Handler' = Handler /\ calls \subseteq Calls
        /\ c = "remove" => ~Applying
        /\ c = "get" => calls \subseteq {"get", "remove"}
        /\ "add" \in calls => c = "add"
        /\ kind \in Kinds /\ attr \in DOMAIN Tables[kind].schema
        /\ "remove" \in calls => ~Applying
        /\ op \in {"read", "import"} => c = "get"
        /\ c = "add" => op = "create"
    <2>1. /\ c \in calls /\ Running /\ Due(c) /\ calls' = calls \ {c}
          /\ Handler' = Handler
      BY ArrivedKeeps
    <2>2. op = "create" \/ op = "update" => "remove" \notin Handler
      BY HandlerFacts DEF Handler, Inv, TypeOK
    <2>3. QED  BY <2>1, <2>2, HandlerInv, DueFacts DEF Applying
  <1>1. model' = Unknown => Applying /\ (diags \/ ReadLater')
    <2> SUFFICES ASSUME model' = Unknown PROVE Applying /\ (diags \/ ReadLater')
      OBVIOUS
    <2>1. model' \notin Columns /\ model' # Own
      BY MarksDiffer DEF Unknown, Own
    <2>2. model' = model /\ ~(c = "get" /\ ReadHere)
          /\ ~(c = "get" /\ attr = "key" /\ op = "update") /\ ~(c = "add" /\ attr = "key")
          /\ ~(kind = "status_page_incident" /\ c # "remove")
      BY <2>1, ArrivedModel
    <2>3. Applying /\ (diags \/ ReadLater)
      BY <2>2 DEF Inv, Valued
    <2>4. ASSUME ReadLater PROVE ReadLater'
      <3>1. kind # "status_page_incident"
        BY <1>0, <2>2, <2>3
      <3>2. ~(attr = "key" /\ op = "create")
        BY <1>0, <2>2, <2>4, <3>1 DEF ReadLater
      <3>3. "get" \in calls /\ (ReadHere \/ attr = "key")
        BY <2>4, <3>1, <3>2 DEF ReadLater
      <3>4. c # "get"
        BY <2>2, <2>3, <3>2, <3>3 DEF Applying
      <3>5. "get" \in calls' /\ (ReadHere' \/ attr' = "key")
            /\ kind' # "status_page_incident" /\ ~(attr' = "key" /\ op' = "create")
        BY <1>0, <3>1, <3>2, <3>3, <3>4, ArrivedKeeps
      <3>6. QED  BY <3>5 DEF ReadLater
    <2>5. QED  BY <2>3, <2>4
  <1>2. Applying /\ ~diags /\ "get" \in Handler /\ calls' # {} => "get" \in calls'
    BY <1>0 DEF Inv, Valued
  <1>3. Valued'
    BY <1>0, <1>1, <1>2, ArrivedKeeps, ArrivedRow DEF Inv, Valued
  <1>4. Slugs'
    <2> SUFFICES ASSUME attr = "slug", Applying
                 PROVE  /\ model' \in Positive
                        /\ op = "create" /\ "add" \notin calls' => target' = model'
      BY ArrivedKeeps DEF Slugs, Applying
    <2>1. kind = "status_page" /\ c # "remove"
      BY <1>0, KindOfAttribute
    <2>2. model \in Positive
      BY DEF Inv, Slugs
    <2>3. CASE c = "get" /\ ReadHere
      <3>1. rows'[r] \in Positive /\ Key(rows', r) = rows'[r] /\ target' = rows'[r]
        BY <2>1, ArrivedRow DEF Consistent, Key
      <3>2. model' = rows'[r]
        BY <2>1, <2>3, <3>1, ArrivedModel, SlugTable
      <3>3. QED  BY <3>1, <3>2
    <2>4. CASE ~(c = "get" /\ ReadHere)
      <3>1. model' = model
        BY <2>1, <2>4, ArrivedModel
      <3>2. c \in {"add", "save"} => target' = model
        BY <2>1, ArrivedRow DEF Key
      <3>3. c \notin {"add", "save", "repost"} => target' = target
        BY DEF Arrived, Makes
      <3>4. c # "repost"
        BY <2>1, ArrivedKeeps, HandlerInv
      <3>5. QED  BY <1>0, <2>2, <3>1, <3>2, <3>3, <3>4 DEF Inv, Slugs
    <2>5. QED  BY <2>3, <2>4
  <1>5. KeyHeld'
    <2> SUFFICES ASSUME attr = "key"
                 PROVE  /\ op = "read" => model' = recorded.value
                        /\ op = "update" /\ ~diags
                             => model' = recorded.value \/ "get" \in calls'
      BY ArrivedKeeps DEF KeyHeld
    <2>1. kind = "api_key" /\ ~ReadHere
      BY <1>0, KindOfAttribute, KeyTable DEF ReadHere
    <2>2. QED  BY <1>0, <2>1, ArrivedModel DEF Inv, KeyHeld
  <1>6. QED  BY <1>3, <1>4, <1>5

\* The rows the calls do not name.
LEMMA ArrivedAccounted ==
    ASSUME Inv, NEW c, NEW r, Arrived(c, r)
    PROVE  Accounted'
  <1>0. /\ c \in calls /\ Running /\ Due(c) /\ calls' = calls \ {c}
        /\ op \in {"create", "read", "update", "delete", "import"}
        /\ kind' = kind /\ op' = op /\ recorded' = recorded /\ strays' = strays
        /\ c = "remove" => op = "delete"
        /\ c = "add" => op = "create"
        /\ c = "repost" => op = "update" /\ kind = "status_page_incident"
        /\ "add" \in calls => c = "add"
        /\ Consistent(rows)
    BY ArrivedKeeps, HandlerInv, DueFacts DEF Inv
  <1>1. Astray(rows, target)' = {q \in Rows : rows'[q] # NoRow /\ Key(rows', q) # target'}
        /\ Astray(rows, recorded.id)'
             = {q \in Rows : rows'[q] # NoRow /\ Key(rows', q) # recorded.id}
    BY ArrivedKeeps DEF Astray, Key
  <1>3. ASSUME c # "remove", Astray(rows, target) \subseteq strays,
               ~Makes(c) \/ target = NoID
        PROVE  Astray(rows, target)' \subseteq strays'
    <2> SUFFICES ASSUME NEW q \in Rows, rows'[q] # NoRow, Key(rows', q) # target'
                 PROVE  q \in strays
      BY <1>0, <1>1
    <2>1. q # r /\ rows[q] # NoRow /\ Key(rows', q) = Key(rows, q)
      BY <1>3, ArrivedRow
    <2>2. Key(rows, q) # target
      <3>1. CASE Makes(c)
        BY <1>0, <1>3, <2>1, <3>1, KeyType, MarksDiffer
      <3>2. CASE ~Makes(c)
        <4>1. r \in Rows /\ rows[r] # NoRow /\ Key(rows, r) = target
          BY <3>2, ArrivedRow
        <4>2. QED  BY <1>0, <2>1, <4>1, OneRow
      <3>3. QED  BY <3>1, <3>2
    <2>3. QED  BY <1>3, <2>1, <2>2 DEF Astray
  <1>4. CASE op = "create" /\ kind # "settings"
    <2>1. Astray(rows, target) \subseteq strays
      BY <1>4 DEF Inv, Accounted
    <2>2. Makes(c) => target = NoID
      BY <1>0, <1>4 DEF Makes, Inv, Control
    <2>3. QED  BY <1>0, <1>3, <1>4, <2>1, <2>2 DEF Accounted
  <1>5. CASE op = "update" /\ kind # "settings"
    <2> SUFFICES ASSUME target' = recorded.id
                 PROVE  Astray(rows, target)' \subseteq strays'
      BY <1>0, <1>5 DEF Accounted
    <2>1. ~Makes(c)
      <3> SUFFICES ASSUME Makes(c) PROVE FALSE
        OBVIOUS
      <3>1. c = "repost" /\ kind = "status_page_incident" /\ r # recorded.id
        BY <1>0, <1>5, ArrivedRow DEF Makes
      <3>2. target' = r
        BY <3>1 DEF Arrived, Key, Makes
      <3>3. QED  BY <3>1, <3>2
    <2>2. target = recorded.id
      <3>1. CASE c = "save"
        BY <1>0, <1>5, <3>1 DEF Inv, Control
      <3>2. CASE c # "save"
        BY <2>1, <3>2 DEF Arrived
      <3>3. QED  BY <3>1, <3>2
    <2>3. ~LostRename
      BY <2>1, ArrivedRow DEF LostRename, Named, Live
    <2>4. QED  BY <1>0, <1>3, <1>5, <2>1, <2>2, <2>3 DEF Inv, Accounted
  <1>6. CASE op \in {"read", "delete", "import"} /\ kind # "settings"
    <2>1. Astray(rows, recorded.id) \subseteq strays
      BY <1>6 DEF Inv, Accounted
    <2>2. Dwindled
      BY <1>6, ArrivedRow DEF Applying
    <2>3. Astray(rows, recorded.id)' \subseteq Astray(rows, recorded.id)
      BY <1>1, <2>2 DEF Dwindled, Astray
    <2>4. QED  BY <1>0, <1>6, <2>1, <2>3 DEF Accounted
  <1>7. CASE kind = "settings"
    BY <1>0, <1>7 DEF Accounted
  <1>8. QED  BY <1>0, <1>4, <1>5, <1>6, <1>7

\* What is stored and, in the end, read back.
LEMMA ArrivedStored ==
    ASSUME Inv, NEW c, NEW r, Arrived(c, r)
    PROVE  StoredInTime'
  <1> SUFFICES ASSUME StoreDue'
               PROVE  Stored(r)' /\ r \in Named(target)'
    BY DEF StoredInTime
  <1>0. /\ c \in calls /\ Running /\ Due(c) /\ calls' = calls \ {c}
        /\ calls \subseteq Handler /\ calls \subseteq Calls
        /\ kind' = kind /\ attr' = attr /\ op' = op /\ plan' = plan
        /\ kind \in Kinds /\ attr \in DOMAIN Tables[kind].schema
        /\ "add" \in calls => c = "add"
        /\ "edit" \in calls => c \in {"add", "edit"}
    BY ArrivedKeeps, HandlerInv, DueFacts
  <1>1. /\ Applying /\ ~diags /\ op \in {"create", "update"}
        /\ \/ calls' = {}
           \/ kind \in {"proxy", "notification"}
           \/ kind = "api_key" /\ op = "create"
    BY ArrivedKeeps DEF StoreDue, Applying
  <1>2. /\ c # "remove" /\ r \in Named(target)' /\ r \in Rows /\ rows'[r] \in Columns
        /\ rows'[r] = Written(c, rows[r])
    BY <1>0, <1>1, ArrivedRow, HandlerInv
  <1>3. c \in {"add", "edit"} => model = plan
    BY <1>0, <1>1 DEF Inv, Valued
  <1>4. ASSUME c = "get", StoreDue
        PROVE  rows'[r] = rows[r] /\ Stored(r)
    <2>1. rows' = rows /\ rows[r] # NoRow /\ Key(rows, r) = target
      BY <1>4, ArrivedRow DEF Makes
    <2>2. PICK q \in Named(target) : Stored(q)
      BY <1>4 DEF Inv, StoredInTime
    <2>3. q = r
      BY <1>2, <2>1, <2>2, OneRow DEF Inv, Named, Live
    <2>4. QED  BY <2>1, <2>2, <2>3
  <1>5. c = "get" /\ (kind \in {"proxy", "notification"} \/ (kind = "api_key" /\ op = "create"))
          => StoreDue
    BY <1>0, <1>1 DEF StoreDue
  <1>6. attr = "apply_existing" /\ plan = Null => rows'[r] \in {Null, Zero}
    <2> SUFFICES ASSUME attr = "apply_existing", plan = Null
                 PROVE  rows'[r] \in {Null, Zero}
      OBVIOUS
    <2>1. kind \in {"proxy", "notification"}
      BY <1>0, KindOfAttribute
    <2>2. c \in {"add", "edit", "get"}
      BY <1>0, <1>1, <2>1, HandlerFacts DEF Handler
    <2>3. Writers = {"add", "edit", "set"}
      BY <2>1, TablesDef DEF Writers, Others
    <2>4. CASE c = "add"
      BY <1>2, <1>3, <2>1, <2>3, <2>4, ApplyExistingTable DEF Written
    <2>5. CASE c = "edit"
      BY <1>2, <1>3, <2>1, <2>3, <2>5, ApplyExistingTable DEF Written, Makes
    <2>6. CASE c = "get"
      BY <1>4, <1>5, <2>1, <2>6 DEF Stored
    <2>7. QED  BY <2>2, <2>4, <2>5, <2>6
  <1>7. ASSUME IsRead(kind, attr), calls' = {} \/ (kind = "api_key" /\ attr # "active")
        PROVE  \/ model' = ReadBack(kind, attr, rows'[r])
               \/ (kind = "api_key" /\ plan = Zero)
    <2>1. kind = "api_key" => attr \in {"name", "active", "expires"}
      BY <1>0, <1>7, KeyTable, TablesDef, InMerge, InEach DEF Table, APIKeySchema
    <2>2. kind = "api_key" /\ attr # "active" => op = "create"
      BY <1>1, <2>1 DEF Inv, Valued
    <2>3. CASE c = "get" /\ ReadHere
      BY <2>3, ArrivedModel
    <2>4. CASE c = "get" /\ ~ReadHere
      <3>1. kind = "api_key" /\ attr # "active" /\ op = "create"
        BY <1>1, <1>7, <2>2, <2>4 DEF ReadHere
      <3>2. model' = model
        BY <2>1, <2>4, <3>1, ArrivedModel
      <3>3. QED  BY <1>4, <1>5, <1>7, <2>4, <3>1, <3>2 DEF Stored
    <2>5. CASE c # "get" /\ kind = "api_key" /\ attr # "active"
      <3>1. op = "create" /\ c = "add"
        BY <1>0, <2>2, <2>5, HandlerFacts DEF Handler
      <3>2. model' = model /\ model = plan
        BY <1>3, <2>1, <2>5, <3>1, ArrivedModel
      <3>3. rows'[r] = StoredByCreate(kind, attr, plan)
        <4>1. kind \notin Monitors /\ attr \in {"name", "expires"}
          BY <2>1, <2>5, TablesDef DEF Others
        <4>2. "add" \in Writers
          BY <2>5, <4>1 DEF Writers
        <4>3. QED  BY <1>2, <3>1, <3>2, <4>2 DEF Written, Makes
      <3>4. plan \in Free \cup {Null} /\ (attr = "expires" \/ plan # Null)
        <4>1. attr \in {"name", "expires"}
          BY <2>1, <2>5
        <4>2. config \in Writable /\ config # Gone
          BY <1>1 DEF Inv, Control, Valued
        <4>3. QED  BY <1>1, <2>5, <4>1, <4>2, APIKeyTables
                   DEF Inv, Valued, Writable, Schema, Free, Null, Zero, One, Two
      <3>5. QED  BY <2>1, <2>5, <3>2, <3>3, <3>4, APIKeyTables
    <2>6. CASE c # "get" /\ ~(kind = "api_key" /\ attr # "active")
      <3>1. "get" \notin Handler
        BY <1>0, <1>1, <1>7, <2>6 DEF Inv, Valued
      <3>2. kind \in {"status_page_incident", "tag", "remote_browser"}
        BY <1>0, <1>1, <3>1, HandlerFacts DEF Handler
      <3>3. CASE kind = "status_page_incident"
        BY <1>2, <3>3, ArrivedModel
      <3>4. CASE kind \in {"tag", "remote_browser"}
        <4>1. c \in {"add", "edit"} /\ Makes(c) = (c = "add")
          BY <1>0, <1>1, <3>4, HandlerFacts DEF Handler, Makes
        <4>2. SchemaOf(kind, attr) = Required(Free)
          BY <1>0, <3>4, PlainTables
        <4>3. plan \in Free
          <5>1. config \in Writable /\ config # Gone
            BY <1>1 DEF Inv, Control, Valued
          <5>2. Schema.class = "required" /\ Schema.domain = Free
            BY <4>2 DEF Schema, Required, Entry
          <5>3. config \in Free /\ config # Null
            BY <5>1, <5>2 DEF Writable, Free, Null, Zero, One, Two
          <5>4. QED  BY <1>1, <5>3 DEF Inv, Valued
        <4>4. attr \notin {"active", "key", "pinned"} /\ model' = model /\ model = plan
          BY <1>0, <1>3, <2>6, <3>4, <4>1, ArrivedModel, PlainTables, TablesDef, InEach
             DEF Table, TagSchema, RemoteBrowserSchema
        <4>5. c \in Writers
          BY <3>4, <4>1, <4>4, TablesDef DEF Writers, Others
        <4>6. rows'[r] = IF c = "add" THEN StoredByCreate(kind, attr, plan)
                                      ELSE StoredByEdit(kind, attr, plan)
          BY <1>2, <4>1, <4>4, <4>5 DEF Written
        <4>7. QED  BY <1>0, <3>4, <4>3, <4>4, <4>6, PlainTables
      <3>5. QED  BY <3>2, <3>3, <3>4
    <2>7. QED  BY <2>3, <2>4, <2>5, <2>6
  <1>8. QED  BY <1>0, <1>2, <1>6, <1>7 DEF Stored

\* A call that is answered.
LEMMA ArrivedStep ==
    ASSUME Inv, NEW c, NEW r, Arrived(c, r)
    PROVE  Inv'
  <1>1. StillApplied'
    <2>1. /\ op' = op /\ Running /\ last' = last /\ recorded' = recorded /\ plan' = plan
          /\ refreshed' = refreshed /\ kind' = kind /\ attr' = attr
      BY ArrivedKeeps
    <2>2. CASE ~Applied
      BY <2>1, <2>2 DEF StillApplied, SuccessIsApplied, Applied
    <2>3. CASE Applied
      <3>1. op = "read" /\ recorded # None /\ ~refreshed /\ SuccessIsApplied
        BY <2>1, <2>3 DEF Inv, StillApplied, Running
      <3>2. c = "get"
        BY <3>1, ArrivedKeeps, HandlerInv
      <3>3. rows' = rows
        BY <3>2, ArrivedRow
      <3>4. SuccessIsApplied'
        BY <2>1, <3>1, <3>3 DEF SuccessIsApplied, Applied, Named, Live, Key
      <3>5. QED  BY <2>1, <3>1, <3>4 DEF StillApplied, Applied
    <2>4. QED  BY <2>2, <2>3
  <1>2. QED
    BY <1>1, ArrivedRow, ArrivedControl, ArrivedValue, ArrivedAccounted, ArrivedStored
       DEF Inv

\* A call about a row that is gone.
LEMMA NotFoundStep ==
    ASSUME Inv, Running, NEW c \in calls, Due(c), Missing(c), NotFound(c),
           UNCHANGED <<subject, rows, faults>>
    PROVE  Inv'
  <1>0. /\ kind' = kind /\ attr' = attr /\ rows' = rows /\ faults' = faults
        /\ faults' \in 0..MaxFaults
    BY DEF subject, Inv, TypeOK
  <1>1. CASE c = "remove"
    <2>1. /\ op = "delete" /\ calls = {"remove"} /\ kind # "settings"
      BY <1>1, HandlerInv
    <2>2. /\ calls' = {} /\ tries' = 1 /\ op' = op /\ model' = model /\ target' = target
          /\ diags' = diags /\ strays' = strays /\ config' = config /\ touched' = touched
          /\ recorded' = recorded /\ refreshed' = refreshed /\ plan' = plan
          /\ last' = last /\ changes' = changes
      BY <1>1, <2>1 DEF NotFound, terraform
    <2>3. TypeOK'
      BY <1>0, <2>2 DEF Inv, TypeOK, Attempts
    <2>4. Consistent(rows)'
      BY <1>0 DEF Inv, Consistent, Key
    <2>5. Control'
      <3>1. config' \in Writable' \cup {Gone}
        BY <1>0, <2>2 DEF Inv, Control, Writable, Schema
      <3>2. Named(target)' = {}
        <4>1. Named(target) = {}
          BY <1>1 DEF Missing, Makes
        <4>2. Named(target)' = Named(target)
          BY <1>0, <2>2 DEF Named, Live, Key
        <4>3. QED  BY <4>1, <4>2
      <3>3. target' # NoID
        BY <2>1, <2>2 DEF Inv, Control, Running
      <3>4. QED  BY <2>1, <2>2, <3>1, <3>2, <3>3 DEF Inv, Control, Running
    <2>6. Valued' /\ Slugs' /\ KeyHeld' /\ StoredInTime'
      BY <2>1, <2>2 DEF Inv, Valued, Slugs, KeyHeld, StoredInTime, StoreDue, Applying
    <2>7. Accounted'
      <3>1. Astray(rows, recorded.id)' = Astray(rows, recorded.id)
        BY <1>0, <2>2 DEF Astray, Key
      <3>2. QED  BY <1>0, <2>1, <2>2, <3>1 DEF Inv, Accounted
    <2>8. StillApplied'
      BY <2>1, <2>2 DEF Inv, StillApplied, SuccessIsApplied, Applied
    <2>9. QED  BY <2>3, <2>4, <2>5, <2>6, <2>7, <2>8 DEF Inv
  <1>2. CASE c # "remove" /\ op = "read"
    <2>1. /\ recorded' = None /\ refreshed' = TRUE /\ last' = <<op, "gone">> /\ Idle
          /\ config' = config /\ touched' = touched /\ plan' = plan /\ changes' = changes
          /\ strays' = strays
      BY <1>2 DEF NotFound, Reported
    <2>2. TypeOK'
      <3>1. 1 \in 1..Attempts /\ Null \in Values
        BY DEF Attempts, Values, Columns
      <3>2. QED  BY <1>0, <2>1, <3>1 DEF Inv, TypeOK, Idle
    <2>3. Consistent(rows)'
      BY <1>0 DEF Inv, Consistent, Key
    <2>4. kind # "settings" => Unnamed(rows, recorded)' \subseteq strays'
      <3>1. target = recorded.id /\ Named(target) = {}
        <4>1. c = "get"
          BY <1>2, HandlerInv
        <4>2. QED  BY <1>2, <4>1 DEF Missing, Makes, Inv, Control
      <3>2. Unnamed(rows, recorded)' \subseteq {q \in Rows : rows[q] # NoRow}
        BY <1>0 DEF Unnamed
      <3>3. {q \in Rows : rows[q] # NoRow} = Astray(rows, recorded.id)
        BY <3>1 DEF Named, Live, Astray
      <3>4. kind # "settings" => Astray(rows, recorded.id) \subseteq strays
        BY <1>2 DEF Inv, Accounted
      <3>5. QED  BY <2>1, <3>2, <3>3, <3>4
    <2>5. StillApplied'
      BY <2>1 DEF StillApplied, SuccessIsApplied, Applied
    <2>6. QED  BY <1>0, <2>1, <2>2, <2>3, <2>4, <2>5, EndStep DEF subject
  <1>3. CASE c # "remove" /\ op # "read"
    <2>1. GiveUp(c)
      BY <1>3 DEF NotFound
    <2>2. QED  BY <1>0, <2>1, GiveUpStep
  <1>4. QED  BY <1>1, <1>2, <1>3

\* A call and what comes of it.
LEMMA AnswerStep ==
    ASSUME Inv, Answer
    PROVE  Inv'
  <1>1. PICK c \in calls :
          /\ Calling(c)
          /\ \/ Taken(c) /\ UNCHANGED rows /\ GiveUp(c)
             \/ ~Taken(c) /\ Missing(c) /\ UNCHANGED rows /\ NotFound(c)
             \/ ~Taken(c) /\ ~Missing(c) /\ (Makes(c) => Room) /\ Done(c)
          /\ UNCHANGED <<subject, faults>>
    BY DEF Answer
  <1>2. Running /\ Due(c) /\ faults' \in 0..MaxFaults
    BY <1>1 DEF Calling, Running, Inv, TypeOK
  <1>3. CASE Taken(c) /\ UNCHANGED rows /\ GiveUp(c)
    BY <1>1, <1>2, <1>3, GiveUpStep
  <1>4. CASE ~Taken(c) /\ Missing(c) /\ UNCHANGED rows /\ NotFound(c)
    BY <1>1, <1>2, <1>4, NotFoundStep
  <1>5. CASE ~Taken(c) /\ ~Missing(c) /\ (Makes(c) => Room) /\ Done(c)
    <2>1. PICK r \in Subject(c) :
            /\ rows' = After(c, r) /\ model' = Answered(c, rows'[r])
            /\ target' = IF Makes(c) THEN Key(rows', r)
                         ELSE IF c = "save" /\ attr = "slug" THEN model ELSE target
      BY <1>5 DEF Done
    <2>2. Arrived(c, r)
      BY <1>1, <1>2, <1>5, <2>1 DEF Arrived, Served, Done
    <2>3. QED  BY <2>2, ArrivedStep
  <1>6. QED  BY <1>1, <1>3, <1>4, <1>5

-----------------------------------------------------------------------------
(* The end of a handler that has made all its calls.                       *)

\* What the state gets names all live rows but strays.
LEMMA ReturnAccounts ==
    ASSUME Inv, Running, calls = {}, ~diags, kind # "settings", NEW state,
           op = "delete" => state = None,
           op # "delete" => /\ state \in [id : Rows \cup Known, value : Columns,
                                          tainted : BOOLEAN]
                            /\ state.id = target,
           op = "update" => target = recorded.id
    PROVE  Unnamed(rows, state) \subseteq strays
  <1>0. /\ op \in {"create", "read", "update", "delete", "import"} /\ Consistent(rows)
        /\ recorded \in {None} \cup [id : Rows \cup Known, value : Columns,
                                     tainted : BOOLEAN]
        /\ Control /\ Accounted
    BY DEF Inv, TypeOK, Running
  <1>1. op # "delete" => Unnamed(rows, state) = Astray(rows, target)
    BY <1>0, UnnamedIsAstray
  <1>2. CASE op = "create"
    BY <1>0, <1>1, <1>2 DEF Accounted
  <1>3. CASE op = "update"
    BY <1>0, <1>1, <1>3 DEF Accounted, LostRename
  <1>4. CASE op = "read"
    BY <1>0, <1>1, <1>4 DEF Accounted, Control
  <1>5. CASE op = "import"
    <2>1. recorded = None
      BY <1>0, <1>5 DEF Control
    <2>2. Unnamed(rows, recorded) = Astray(rows, recorded.id)
      BY <1>0, UnnamedIsAstray
    <2>3. Unnamed(rows, state) \subseteq Unnamed(rows, recorded)
      BY <2>1 DEF Unnamed
    <2>4. QED  BY <1>0, <1>5, <2>2, <2>3 DEF Accounted
  <1>6. CASE op = "delete"
    <2>1. Named(recorded.id) = {}
      BY <1>0, <1>6 DEF Control
    <2>2. Unnamed(rows, state) \subseteq Astray(rows, recorded.id)
      BY <2>1 DEF Unnamed, Astray, Named, Live
    <2>3. QED  BY <1>0, <1>6, <2>2 DEF Accounted
  <1>7. QED  BY <1>0, <1>2, <1>3, <1>4, <1>5, <1>6

\* What the handler has is a value, and it knows the ID.
LEMMA ReturnValue ==
    ASSUME Inv, Running, calls = {}, ~diags
    PROVE  model \in Columns /\ target \in Rows \cup Known
  <1>1. model # Unknown
    BY DEF Inv, Valued, ReadLater
  <1>2. target # NoID
    BY DEF Inv, Control
  <1>3. QED  BY <1>1, <1>2 DEF Inv, TypeOK, Values

\* A handler returns.
LEMMA ReturnStep ==
    ASSUME Inv, Return
    PROVE  Inv'
  <1>0. /\ Running /\ calls = {} /\ kind' = kind /\ attr' = attr /\ rows' = rows
        /\ faults' = faults /\ Consistent(rows)' /\ Dwindled /\ faults' \in 0..MaxFaults
    BY DEF Return, Running, subject, Inv, TypeOK, Consistent, Dwindled, Key
  <1>1. CASE diags
    <2>1. Fail
      BY <1>1 DEF Return
    <2>2. QED  BY <1>0, <2>1, FailStep DEF subject
  <1>2. CASE ~diags
    <2> DEFINE good == op \in {"create", "update"} => Kept(model)
    <2>1. /\ recorded' = IF op = "delete" THEN None
                         ELSE [id |-> target, value |-> model,
                               tainted |-> \/ op = "create" /\ ~good
                                           \/ op = "read" /\ recorded.tainted]
          /\ strays' = IF good THEN strays \cap Unnamed(rows, recorded')
                               ELSE Unnamed(rows, recorded')
          /\ touched' = (touched /\ op \notin {"create", "update"})
          /\ refreshed' = (op = "read")
          /\ last' = <<op, IF good THEN "ok" ELSE "inconsistent">> /\ Idle
          /\ config' = config /\ plan' = plan /\ changes' = changes
      BY <1>2 DEF Return, Reported
    <2>2. model \in Columns /\ target \in Rows \cup Known
      BY <1>0, <1>2, ReturnValue
    <2>3. op # "delete" =>
             /\ recorded' \in [id : Rows \cup Known, value : Columns, tainted : BOOLEAN]
             /\ recorded'.id = target /\ recorded'.value = model
      <3>1. ((op = "create" /\ ~good) \/ (op = "read" /\ recorded.tainted)) \in BOOLEAN
        OBVIOUS
      <3>2. QED  BY <2>1, <2>2, <3>1
    <2>4. strays' \subseteq Rows
      BY <2>1 DEF Unnamed
    <2>5. TypeOK'
      <3>1. 1 \in 1..Attempts /\ Null \in Values
        BY DEF Attempts, Values, Columns
      <3>2. touched' \in BOOLEAN /\ refreshed' \in BOOLEAN
        BY <2>1 DEF Inv, TypeOK
      <3>3. recorded' \in {None} \cup [id : Rows \cup Known, value : Columns,
                                       tainted : BOOLEAN]
        BY <2>1, <2>3
      <3>4. QED  BY <1>0, <2>1, <2>4, <3>1, <3>2, <3>3 DEF Inv, TypeOK, Idle
    <2>6. kind # "settings" => Unnamed(rows, recorded)' \subseteq strays'
      <3>1. Unnamed(rows, recorded)' = Unnamed(rows, recorded')
        BY <1>0 DEF Unnamed, Key
      <3>2. kind # "settings" /\ good => Unnamed(rows, recorded') \subseteq strays
        <4>1. op = "delete" => recorded' = None
          BY <2>1
        <4>2. good /\ op = "update" => target = recorded.id
          BY DEF Kept
        <4>3. QED  BY <1>0, <1>2, <2>3, <4>1, <4>2, ReturnAccounts
      <3>3. QED  BY <2>1, <3>1, <3>2
    <2>7. StillApplied'
      <3>1. Applied' => op \in {"create", "update"} /\ good
        BY <2>1 DEF Applied
      <3>2. op' = "idle"
        BY <2>1 DEF Idle
      <3>3. Applied' => recorded' # None /\ ~refreshed'
        BY <2>1, <2>2, <2>3, <3>1, MarksDiffer DEF None
      <3>4. SuccessIsApplied'
        <4> SUFFICES ASSUME op \in {"create", "update"}, good
                     PROVE  \E r \in Named(target) :
                              /\ plan # Unknown => model = plan
                              /\ IsRead(kind, attr) =>
                                   \/ model = ReadBack(kind, attr, rows[r])
                                   \/ kind = "api_key" /\ plan = Zero
                              /\ plan = Null => rows[r] \in {Null, Zero}
          <5>1. op # "delete" => Named(recorded.id)' = Named(target)
            BY <1>0, <2>3 DEF Named, Live, Key
          <5>2. QED  BY <1>0, <2>1, <2>3, <3>1, <5>1 DEF SuccessIsApplied
        <4>1. StoreDue
          BY <1>0, <1>2 DEF StoreDue, Applying
        <4>2. PICK r \in Named(target) : Stored(r)
          BY <4>1 DEF Inv, StoredInTime
        <4>3. plan # Unknown => model = plan
          BY DEF Kept, Differs
        <4>4. IsRead(kind, attr) => \/ model = ReadBack(kind, attr, rows[r])
                                    \/ kind = "api_key" /\ plan = Zero
          BY <1>0, <4>2 DEF Stored
        <4>5. plan = Null => rows[r] \in {Null, Zero}
          <5> SUFFICES ASSUME plan = Null PROVE rows[r] \in {Null, Zero}
            OBVIOUS
          <5>1. model = Null
            BY <4>3 DEF Null, Unknown
          <5>2. Schema.class = "optional"
            BY DEF Inv, Valued, Applying
          <5>3. kind \in Kinds /\ attr \in DOMAIN Tables[kind].schema
                /\ rows[r] \in Columns
            BY <4>2 DEF Inv, TypeOK, Named, Live
          <5>4. CASE IsRead(kind, attr)
            BY <4>4, <5>1, <5>3, <5>4, ReadType DEF Null, Zero
          <5>5. CASE ~IsRead(kind, attr)
            BY <4>2, <5>2, <5>3, <5>5, SchemaFacts DEF Schema, Stored
          <5>6. QED  BY <5>4, <5>5
        <4>6. QED  BY <4>2, <4>3, <4>4, <4>5
      <3>5. QED  BY <3>2, <3>3, <3>4 DEF StillApplied
    <2>8. QED  BY <1>0, <2>1, <2>5, <2>6, <2>7, EndStep DEF subject
  <1>3. QED  BY <1>1, <1>2

-----------------------------------------------------------------------------
(* Terraform and its user.                                                 *)

\* The value that is planned.
LEMMA PlannedFacts ==
    ASSUME Inv, config # Gone, NEW o
    PROVE  /\ Planned(o) \in Values
           /\ config # Null \/ Schema.class = "optional" => Planned(o) = config
           /\ Planned(o) = Null => Schema.class = "optional"
           /\ Planned(o) = Unknown => Schema.class \in {"both", "computed"}
           /\ Schema.class = "required" => Planned(o) \in Schema.domain
  <1>1. /\ config \in Writable /\ config \in Columns /\ recorded.value \in Columns
        /\ Schema \in SchemaEntry
    BY SchemaFacts, MarksDiffer DEF Inv, Control, TypeOK, None, Columns, Schema
  <1>2. Unknown \in Values /\ Columns \subseteq Values /\ Unknown # Null
        /\ Unknown \notin Columns
    BY MarksDiffer DEF Values, Unknown, Null
  <1>3. Schema.class = "required" => config \in Schema.domain /\ config # Null
    BY <1>1 DEF Writable, SchemaEntry, Free, Null, Zero, One, Two
  <1>4. Schema.class \in {"required", "optional", "both", "computed"}
    BY <1>1 DEF SchemaEntry, Classes
  <1>5. QED  BY <1>1, <1>2, <1>3, <1>4 DEF Planned

\* A handler starts, with the calls no condition holds back among others.
LEMMA BeginFacts ==
    ASSUME Inv, NEW o \in {"create", "read", "update", "delete", "import"},
           NEW v, NEW id, Begin(o, v, id), UNCHANGED subject
    PROVE  /\ op = "idle" /\ op' = o /\ kind' = kind /\ attr' = attr
           /\ model' = v /\ target' = id /\ tries' = 1 /\ diags' = FALSE
           /\ kind \in Kinds /\ attr \in DOMAIN Tables[kind].schema
           /\ Handler' = HandlersOf(kind)[IF o = "import" THEN "read" ELSE o]
           /\ calls' \subseteq Handler' /\ calls' \subseteq Calls
           /\ \A c \in {"add", "edit", "save", "get", "remove"} :
                c \in calls' <=> c \in Handler'
           /\ Running' /\ Schema' = Schema
  <1>1. /\ op = "idle" /\ op' = o /\ kind' = kind /\ attr' = attr
        /\ model' = v /\ target' = id /\ tries' = 1 /\ diags' = FALSE
        /\ calls' = {c \in HandlersOf(kind)[IF o = "import" THEN "read" ELSE o] :
                        Needed(o, c, v)}
    BY DEF Begin, subject
  <1>2. Handler' = HandlersOf(kind)[IF o = "import" THEN "read" ELSE o]
    BY <1>1 DEF Handler
  <1>3. kind \in Kinds /\ attr \in DOMAIN Tables[kind].schema
    BY DEF Inv, TypeOK
  <1>4. Handler' \subseteq Calls
    BY <1>2, <1>3, HandlerFacts
  <1>5. Running' /\ Schema' = Schema
    BY <1>1 DEF Running, Schema
  <1>6. QED  BY <1>1, <1>2, <1>3, <1>4, <1>5, AlwaysNeeded

\* What a handler that has just started does not touch.
Started ==
    UNCHANGED <<subject, config, touched, recorded, refreshed, last, changes, rows,
                strays, faults>>

\* A handler that reads or deletes.
LEMMA ReadStarts ==
    ASSUME Inv, NEW o \in {"read", "delete", "import"}, NEW v \in Columns, NEW id,
           Begin(o, v, id), Started, plan' = plan,
           o = "import" => recorded = None /\ id \in Rows \cup Known,
           o # "import" => recorded # None /\ v = recorded.value /\ id = recorded.id,
           o # "read" => ~Applied
    PROVE  Inv'
  <1>0. /\ op = "idle" /\ op' = o /\ kind' = kind /\ attr' = attr
        /\ model' = v /\ target' = id /\ tries' = 1 /\ diags' = FALSE
        /\ calls' \subseteq Handler' /\ calls' \subseteq Calls
        /\ "remove" \in calls' <=> "remove" \in Handler'
        /\ Handler' = HandlersOf(kind)[IF o = "import" THEN "read" ELSE o]
        /\ Running' /\ Schema' = Schema /\ kind \in Kinds
    BY BeginFacts DEF Started
  <1>1. /\ config' = config /\ touched' = touched /\ recorded' = recorded
        /\ refreshed' = refreshed /\ last' = last /\ changes' = changes /\ rows' = rows
        /\ strays' = strays /\ faults' = faults /\ plan' = plan
    BY DEF Started
  <1>2. id \in Rows \cup Known
    BY DEF Inv, TypeOK
  <1>3. TypeOK'
    <2>1. 1 \in 1..Attempts /\ Columns \subseteq Values
      BY DEF Attempts, Values
    <2>2. QED  BY <1>0, <1>1, <1>2, <2>1 DEF Inv, TypeOK
  <1>4. Consistent(rows)'
    BY <1>0, <1>1 DEF Inv, Consistent, Key
  <1>5. Control'
    <2>1. config' \in Writable' \cup {Gone}
      BY <1>0, <1>1 DEF Inv, Control, Writable
    <2>2. o = "delete" /\ kind # "settings" => "remove" \in calls'
      BY <1>0, HandlerFacts
    <2>3. QED  BY <1>0, <1>1, <1>2, <2>1, <2>2, MarksDiffer DEF Control
  <1>6. Valued' /\ Slugs' /\ KeyHeld' /\ StoredInTime'
    <2>1. model' # Unknown /\ ~Applying'
      BY <1>0, MarksDiffer DEF Applying
    <2>2. QED
      BY <1>0, <1>1, <2>1 DEF Valued, Slugs, KeyHeld, StoredInTime, StoreDue, Applying
  <1>7. Accounted'
    <2>1. Astray(rows, recorded.id)' = Astray(rows, recorded.id)
      BY <1>0, <1>1 DEF Astray, Key
    <2>2. QED  BY <1>0, <1>1, <2>1 DEF Inv, Accounted
  <1>8. StillApplied'
    BY <1>0, <1>1 DEF Inv, StillApplied, SuccessIsApplied, Applied, Named, Live, Key
  <1>9. QED  BY <1>3, <1>4, <1>5, <1>6, <1>7, <1>8 DEF Inv

\* A handler that creates or updates.
LEMMA ApplyStarts ==
    ASSUME Inv, NEW o \in {"create", "update"}, NEW id, config # Gone,
           plan' = Planned(o), Begin(o, plan', id), Started,
           refreshed \/ recorded = None,
           o = "create" => recorded = None /\ id = Adopted,
           o = "update" => /\ recorded # None /\ id = recorded.id
                           /\ kind = "api_key" => attr \notin {"name", "expires"}
    PROVE  Inv'
  <1>0. /\ op = "idle" /\ op' = o /\ kind' = kind /\ attr' = attr
        /\ model' = plan' /\ target' = id /\ tries' = 1 /\ diags' = FALSE
        /\ calls' \subseteq Handler' /\ calls' \subseteq Calls
        /\ \A c \in {"add", "edit", "save", "get", "remove"} :
             c \in calls' <=> c \in Handler'
        /\ Handler' = HandlersOf(kind)[o]
        /\ Running' /\ Schema' = Schema
        /\ kind \in Kinds /\ attr \in DOMAIN Tables[kind].schema
    BY BeginFacts DEF Started
  <1>1. /\ config' = config /\ touched' = touched /\ recorded' = recorded
        /\ refreshed' = refreshed /\ last' = last /\ changes' = changes /\ rows' = rows
        /\ strays' = strays /\ faults' = faults
    BY DEF Started
  <1>2. /\ plan' \in Values
        /\ config # Null \/ Schema.class = "optional" => plan' = config
        /\ plan' = Null => Schema.class = "optional"
        /\ plan' = Unknown => Schema.class \in {"both", "computed"}
        /\ Schema.class = "required" => plan' \in Schema.domain
    BY PlannedFacts
  <1>3. /\ o = "create" /\ kind # "settings" => id = NoID
        /\ o = "update" \/ kind = "settings" => id \in Rows \cup Known
    <2>1. o = "create" /\ kind = "settings" => id \in Rows
      <3>1. kind = "settings" => \E r \in Rows : Live(r)
        BY DEF Inv, Consistent, Live
      <3>2. QED  BY <3>1 DEF Adopted
    <2>2. o = "update" => id \in Rows \cup Known
      BY DEF Inv, TypeOK
    <2>3. QED  BY <2>1, <2>2 DEF Adopted
  <1>4. TypeOK'
    <2>1. 1 \in 1..Attempts /\ id \in Rows \cup Known \cup {NoID}
      BY <1>3 DEF Attempts
    <2>2. QED  BY <1>0, <1>1, <1>2, <2>1 DEF Inv, TypeOK
  <1>5. Consistent(rows)'
    BY <1>0, <1>1 DEF Inv, Consistent, Key
  <1>6. Control'
    <2>1. config' \in Writable' \cup {Gone}
      BY <1>0, <1>1 DEF Inv, Control, Writable
    <2>2. o = "create" /\ kind # "settings" => "add" \in calls'
      BY <1>0, HandlerFacts
    <2>3. o = "create" /\ "add" \in calls' => kind # "settings"
      BY <1>0, HandlerFacts
    <2>4. QED  BY <1>0, <1>1, <1>3, <2>1, <2>2, <2>3, MarksDiffer DEF Control
  <1>7. plan' = Unknown => ReadLater'
    <2> SUFFICES ASSUME plan' = Unknown PROVE ReadLater'
      OBVIOUS
    <2>1. Schema.class \in {"both", "computed"}
      BY <1>2
    <2>2. CASE kind = "status_page_incident"
      <3>1. calls' \cap {"add", "edit"} # {}
        BY <1>0, <2>2, HandlerFacts
      <3>2. attr # "key"
        BY <1>0, <2>2, KindOfAttribute
      <3>3. QED  BY <1>0, <2>2, <3>1, <3>2 DEF ReadLater
    <2>3. CASE kind # "status_page_incident" /\ attr = "key" /\ o = "create"
      <3>1. kind = "api_key"
        BY <1>0, <2>3, KindOfAttribute
      <3>2. "add" \in calls'
        BY <1>0, <2>3, <3>1, HandlerFacts
      <3>3. QED  BY <1>0, <2>3, <3>2 DEF ReadLater
    <2>4. CASE kind # "status_page_incident" /\ ~(attr = "key" /\ o = "create")
      <3>1. kind \notin {"tag", "remote_browser"}
        BY <1>0, <2>1, PlainTables DEF Schema, Required, Entry
      <3>2. "get" \in calls'
        BY <1>0, <2>4, <3>1, HandlerFacts
      <3>3. attr = "key" \/ IsRead(kind, attr)
        BY <1>0, <2>1, SchemaFacts DEF Schema
      <3>4. kind = "api_key" => attr \in {"active", "key"}
        <4>1. kind = "api_key" => attr \in {"name", "active", "expires", "key"}
          BY <1>0, TablesDef, InMerge, InEach DEF Table, APIKeySchema
        <4>2. QED  BY <2>1, <4>1, APIKeyTables DEF Schema
      <3>5. attr' = "key" \/ ReadHere'
        BY <1>0, <3>3, <3>4 DEF ReadHere
      <3>6. QED  BY <1>0, <2>4, <3>2, <3>5 DEF ReadLater
    <2>5. QED  BY <2>2, <2>3, <2>4
  <1>8. Valued'
    BY <1>0, <1>1, <1>2, <1>7 DEF Valued, Applying
  <1>9. Slugs'
    <2> SUFFICES ASSUME attr = "slug"
                 PROVE  plan' \in Positive /\ (o = "create" => "add" \in calls')
      BY <1>0 DEF Slugs
    <2>1. kind = "status_page"
      BY <1>0, KindOfAttribute
    <2>2. Schema.class = "required" /\ Schema.domain = Positive
      BY <2>1, SlugTable DEF Schema, Required, Entry
    <2>3. QED  BY <1>0, <1>2, <2>1, <2>2, HandlerFacts
  <1>10. Accounted'
    <2>1. /\ Astray(rows, recorded.id)' = Astray(rows, recorded.id)
          /\ target' = recorded.id => Astray(rows, target)' = Astray(rows, recorded.id)
      BY <1>0, <1>1 DEF Astray, Key
    <2>2. kind # "settings" => Astray(rows, recorded.id) \subseteq strays
      BY <1>0 DEF Inv, Accounted
    <2>3. kind # "settings" => target' = recorded.id
      BY <1>0, <1>3 DEF None
    <2>4. QED  BY <1>0, <1>1, <2>1, <2>2, <2>3 DEF Accounted
  <1>11. KeyHeld'
    <2> SUFFICES ASSUME attr = "key", o = "update" PROVE "get" \in calls'
      BY <1>0 DEF KeyHeld
    <2>1. kind = "api_key"
      BY <1>0, KindOfAttribute
    <2>2. QED  BY <1>0, <2>1, HandlerFacts
  <1>12. StoredInTime'
    <2>1. \/ calls' \cap {"add", "edit"} # {}
          \/ calls' # {} /\ kind \notin {"proxy", "notification"}
             /\ ~(kind = "api_key" /\ o = "create")
      BY <1>0, HandlerFacts
    <2>2. ~StoreDue'
      BY <1>0, <2>1 DEF StoreDue
    <2>3. QED  BY <2>2 DEF StoredInTime
  <1>13. StillApplied'
    BY <1>0, <1>1 DEF Inv, StillApplied, SuccessIsApplied, Applied
  <1>14. QED
    BY <1>4, <1>5, <1>6, <1>8, <1>9, <1>10, <1>11, <1>12, <1>13 DEF Inv

\* What a step between two runs of Terraform keeps.
LEMMA IdleStep ==
    ASSUME Inv, op = "idle", op' = op, UNCHANGED <<subject, model, target, recorded>>,
           TypeOK', Consistent(rows)', config' \in Writable \cup {Gone},
           Accounted', StillApplied'
    PROVE  Inv'
  <1>0. op' = "idle" /\ kind' = kind /\ attr' = attr /\ model' = model
    BY DEF subject
  <1>1. Control'
    BY <1>0 DEF Control, Running, Writable, Schema
  <1>2. Valued' /\ Slugs' /\ KeyHeld' /\ StoredInTime'
    BY <1>0 DEF Inv, Valued, Slugs, KeyHeld, StoredInTime, StoreDue, Applying
  <1>3. QED  BY <1>1, <1>2 DEF Inv

\* The user changes the configuration.
LEMMA ConfigureStep ==
    ASSUME Inv, Configure
    PROVE  Inv'
  <1>0. /\ op = "idle" /\ op' = op /\ calls' = calls /\ tries' = tries /\ model' = model
        /\ target' = target /\ diags' = diags /\ kind' = kind /\ attr' = attr
        /\ recorded' = recorded /\ refreshed' = refreshed /\ plan' = plan /\ last' = last
        /\ rows' = rows /\ strays' = strays /\ faults' = faults
        /\ changes < MaxChanges /\ changes' = changes + 1
    BY DEF Configure, subject, handler
  <1>1. config' \in Writable \cup {Gone} /\ touched' \in BOOLEAN
    BY DEF Configure, Inv, Control, TypeOK
  <1>2. Writable \subseteq Columns
    <2>1. Schema \in SchemaEntry
      BY SchemaFacts DEF Inv, TypeOK, Schema
    <2>2. QED  BY <2>1 DEF Writable, SchemaEntry, Free, Columns, Known
  <1>3. TypeOK'
    <2>1. changes' \in 0..MaxChanges
      BY <1>0, ResourcesAssumption DEF Inv, TypeOK
    <2>2. QED  BY <1>0, <1>1, <1>2, <2>1 DEF Inv, TypeOK
  <1>4. Consistent(rows)'
    BY <1>0 DEF Inv, Consistent, Key
  <1>5. Accounted'
    <2>1. Astray(rows, recorded.id)' = Astray(rows, recorded.id)
      BY <1>0 DEF Astray, Key
    <2>2. QED  BY <1>0, <2>1 DEF Inv, Accounted
  <1>6. StillApplied'
    BY <1>0 DEF Inv, StillApplied, SuccessIsApplied, Applied, Named, Live, Key
  <1>7. QED  BY <1>0, <1>1, <1>3, <1>4, <1>5, <1>6, IdleStep DEF subject

\* Somebody else changes a row.
LEMMA DriftStep ==
    ASSUME Inv, Drift
    PROVE  Inv'
  <1>0. /\ op = "idle" /\ op' = op /\ calls' = calls /\ tries' = tries /\ model' = model
        /\ target' = target /\ diags' = diags /\ kind' = kind /\ attr' = attr
        /\ recorded' = recorded /\ refreshed' = refreshed /\ plan' = plan
        /\ config' = config /\ touched' = touched /\ changes' = changes
        /\ last' = <<op, "drift">> /\ Fault
    BY DEF Drift, subject, handler, Reported
  <1>1. PICK r \in Rows :
          /\ Live(r)
          /\ \E c \in (Schema.domain \ {rows[r]})
                       \cup (IF kind = "settings" THEN {} ELSE {NoRow}) :
                 /\ attr = "slug" => \A q \in Rows : rows[q] # c \/ c = NoRow
                 /\ rows' = [rows EXCEPT ![r] = c]
          /\ strays' = IF attr = "slug" THEN strays \cup {r} ELSE strays
    BY DEF Drift
  <1>2. PICK c \in (Schema.domain \ {rows[r]})
                    \cup (IF kind = "settings" THEN {} ELSE {NoRow}) :
          /\ attr = "slug" => \A q \in Rows : rows[q] # c \/ c = NoRow
          /\ rows' = [rows EXCEPT ![r] = c]
    BY <1>1
  <1>3. /\ rows \in [Rows -> Columns \cup {NoRow}] /\ Consistent(rows)
        /\ kind \in Kinds /\ attr \in DOMAIN Tables[kind].schema
        /\ rows[r] # NoRow
    BY <1>1 DEF Inv, TypeOK, Live
  <1>4. Schema.domain \subseteq Columns
    <2>1. Schema \in SchemaEntry
      BY <1>3, SchemaFacts DEF Schema
    <2>2. QED  BY <2>1 DEF SchemaEntry, Free, Columns, Known
  <1>5. attr = "slug" => kind = "status_page" /\ Schema.domain = Positive
    BY <1>3, KindOfAttribute, SlugTable DEF Schema, Required, Entry
  <1>6. /\ rows' \in [Rows -> Columns \cup {NoRow}] /\ rows'[r] = c
        /\ \A q \in Rows \ {r} : rows'[q] = rows[q]
    BY <1>2, <1>3, <1>4
  <1>7. Consistent(rows)'
    <2>1. kind = "status_page" =>
            \A p, q \in Rows :
                rows'[p] # NoRow /\ rows'[q] # NoRow /\ Key(rows', p) = Key(rows', q)
                => p = q
      <3> SUFFICES ASSUME kind = "status_page", NEW p \in Rows, NEW q \in Rows,
                          rows'[p] # NoRow, rows'[q] # NoRow, Key(rows', p) = Key(rows', q)
                   PROVE  p = q
        OBVIOUS
      <3>1. CASE attr = "slug"
        BY <1>2, <1>3, <1>6, <3>1 DEF Consistent, Key
      <3>2. CASE attr # "slug"
        BY <1>3, <1>6, <3>2 DEF Consistent, Key
      <3>3. QED  BY <3>1, <3>2
    <2>2. attr = "slug" => rows' \in [Rows -> Positive \cup {NoRow}]
      BY <1>2, <1>3, <1>5, <1>6 DEF Consistent
    <2>3. kind = "settings" => rows'[r] # NoRow
      BY <1>2, <1>4, <1>6, MarksDiffer
    <2>4. Consistent(rows')
      BY <1>6, <2>1, <2>2, <2>3 DEF Consistent
    <2>5. QED  BY <1>0, <2>4 DEF Consistent, Key
  <1>8. TypeOK'
    <2>1. faults' \in 0..MaxFaults
      BY <1>0, FaultCount DEF Inv
    <2>2. strays' \subseteq Rows
      BY <1>1 DEF Inv, TypeOK
    <2>3. QED  BY <1>0, <1>6, <2>1, <2>2 DEF Inv, TypeOK
  <1>9. Accounted'
    <2>1. Astray(rows, recorded.id)'
            = {q \in Rows : rows'[q] # NoRow /\ Key(rows', q) # recorded.id}
      BY <1>0 DEF Astray, Key
    <2>2. \A q \in Rows : attr # "slug" \/ q # r => Key(rows', q) = Key(rows, q)
      BY <1>6 DEF Key
    <2>3. kind # "settings" => Astray(rows, recorded.id) \subseteq strays
      BY <1>0 DEF Inv, Accounted
    <2>4. kind # "settings" => Astray(rows, recorded.id)' \subseteq strays'
      BY <1>1, <1>3, <1>6, <2>1, <2>2, <2>3 DEF Astray
    <2>5. QED  BY <1>0, <2>4 DEF Accounted
  <1>10. StillApplied'
    BY <1>0 DEF StillApplied, SuccessIsApplied, Applied
  <1>11. config' \in Writable \cup {Gone}
    BY <1>0 DEF Inv, Control
  <1>12. QED
    BY <1>0, <1>7, <1>8, <1>9, <1>10, <1>11, IdleStep DEF subject

\* A run of Terraform, or of its import command, starts a handler.
LEMMA RunStep ==
    ASSUME Inv, Refresh \/ ApplyCreate \/ ApplyUpdate \/ ApplyDelete \/ Import
    PROVE  Inv'
  <1>0. /\ Applied => recorded # None /\ ~refreshed
        /\ recorded \in {None} \cup [id : Rows \cup Known, value : Columns,
                                     tainted : BOOLEAN]
        /\ Null \in Columns
    BY DEF Inv, StillApplied, TypeOK, Columns
  <1>1. CASE Refresh
    <2>1. Begin("read", recorded.value, recorded.id) /\ Started /\ plan' = plan
          /\ recorded # None
      BY <1>1 DEF Refresh, Started, terraform
    <2>2. QED  BY <1>0, <2>1, ReadStarts
  <1>2. CASE ApplyDelete
    <2>1. Begin("delete", recorded.value, recorded.id) /\ Started /\ plan' = plan
          /\ recorded # None /\ ~Applied
      BY <1>0, <1>2 DEF ApplyDelete, Ready, Started, terraform
    <2>2. QED  BY <1>0, <2>1, ReadStarts
  <1>3. CASE Import
    <2>1. PICK r \in Rows : Live(r) /\ Begin("import", Null, Key(rows, r))
      BY <1>3 DEF Import
    <2>2. Started /\ plan' = plan /\ recorded = None /\ ~Applied
      BY <1>0, <1>3 DEF Import, Started, terraform
    <2>3. Key(rows, r) \in Rows \cup Known
      BY <2>1, KeyType DEF Inv, Live
    <2>4. QED  BY <1>0, <2>1, <2>2, <2>3, ReadStarts
  <1>4. CASE ApplyCreate
    <2>1. /\ config # Gone /\ recorded = None /\ plan' = Planned("create")
          /\ Begin("create", plan', Adopted) /\ Started
      BY <1>4 DEF ApplyCreate, Started
    <2>2. QED  BY <2>1, ApplyStarts
  <1>5. CASE ApplyUpdate
    <2>1. /\ config # Gone /\ recorded # None /\ plan' = Planned("update") /\ refreshed
          /\ Begin("update", plan', recorded.id) /\ Started
      BY <1>5 DEF ApplyUpdate, Started, Ready
    <2>2. kind = "api_key" => attr \notin {"name", "expires"}
      BY <1>5, APIKeyTables DEF ApplyUpdate, Replacing, Schema
    <2>3. QED  BY <2>1, <2>2, ApplyStarts
  <1>6. QED  BY <1>1, <1>2, <1>3, <1>4, <1>5

-----------------------------------------------------------------------------
(* The theorems.                                                           *)

\* The invariant holds at first: of the server's rows only the settings are there.
LEMMA InitInv == Init => Inv
  <1> SUFFICES ASSUME Init PROVE Inv
    OBVIOUS
  <1> DEFINE first == CHOOSE r \in Rows : TRUE
  <1>1. /\ kind \in Kinds /\ attr \in DOMAIN Tables[kind].schema
        /\ config = Gone /\ touched = FALSE /\ recorded = None /\ refreshed = FALSE
        /\ strays = {} /\ op = "idle" /\ calls = {} /\ tries = 1
        /\ plan = Unknown /\ model = Null /\ target = NoID
        /\ diags = FALSE /\ last = <<"none", "none">> /\ faults = 0 /\ changes = 0
        /\ rows = [r \in Rows |-> IF kind = "settings" /\ r = first
                                  THEN ColumnDefault(kind, attr) ELSE NoRow]
    BY ResourcesAssumption DEF Init
  <1>2. first \in Rows /\ ColumnDefault(kind, attr) \in Columns
    BY <1>1, ResourcesAssumption, StoredType
  <1>3. TypeOK
    <2>1. 1 \in 1..Attempts /\ Unknown \in Values /\ Null \in Values
          /\ 0 \in 0..MaxFaults /\ 0 \in 0..MaxChanges
      BY ResourcesAssumption DEF Attempts, Values, Columns
    <2>2. QED  BY <1>1, <1>2, <2>1 DEF TypeOK
  <1>4. Consistent(rows)
    <2>1. rows \in [Rows -> Columns \cup {NoRow}]
      BY <1>1, <1>2
    <2>2. attr = "slug" => kind = "status_page"
      BY <1>1, KindOfAttribute
    <2>3. kind # "settings" => \A r \in Rows : rows[r] = NoRow
      BY <1>1
    <2>4. kind = "settings" => rows[first] # NoRow
      BY <1>1, <1>2, MarksDiffer
    <2>5. attr = "slug" => rows \in [Rows -> Positive \cup {NoRow}]
      BY <2>1, <2>2, <2>3
    <2>6. QED  BY <1>2, <2>1, <2>3, <2>4, <2>5 DEF Consistent
  <1>5. Control /\ Valued /\ Slugs /\ KeyHeld /\ StoredInTime /\ StillApplied
    BY <1>1 DEF Control, Valued, Slugs, KeyHeld, StoredInTime, StoreDue, StillApplied,
       Running, Applying, SuccessIsApplied, Applied, Null, Unknown
  <1>6. Accounted
    BY <1>1 DEF Accounted, Astray
  <1>7. QED  BY <1>3, <1>4, <1>5, <1>6 DEF Inv

\* And every step keeps it.
LEMMA NextInv == Inv /\ [Next]_vars => Inv'
  <1> SUFFICES ASSUME Inv, [Next]_vars PROVE Inv'
    OBVIOUS
  <1>1. CASE Answer
    BY <1>1, AnswerStep
  <1>2. CASE Return
    BY <1>2, ReturnStep
  <1>3. CASE Lost \/ Down \/ Refused \/ Cancelled \/ Killed
    BY <1>3, FaultStep
  <1>4. CASE Drift
    BY <1>4, DriftStep
  <1>5. CASE Refresh \/ ApplyCreate \/ ApplyUpdate \/ ApplyDelete \/ Import
    BY <1>5, RunStep
  <1>6. CASE Configure
    BY <1>6, ConfigureStep
  <1>7. CASE UNCHANGED vars
    <2>1. /\ op' = op /\ calls' = calls /\ tries' = tries /\ model' = model
          /\ target' = target /\ diags' = diags /\ kind' = kind /\ attr' = attr
          /\ recorded' = recorded /\ refreshed' = refreshed /\ plan' = plan
          /\ config' = config /\ touched' = touched /\ changes' = changes /\ last' = last
          /\ rows' = rows /\ strays' = strays /\ faults' = faults
      BY <1>7 DEF vars, subject, terraform, handler
    <2>2. TypeOK' /\ Consistent(rows)' /\ Control'
      BY <2>1 DEF Inv, TypeOK, Consistent, Key, Control, Running, Handler, Writable,
         Schema, Named, Live
    <2>3. Valued' /\ Slugs' /\ KeyHeld'
      BY <2>1 DEF Inv, Valued, Slugs, KeyHeld, Applying, Schema, ReadLater, ReadHere,
         Handler
    <2>4. Accounted'
      BY <2>1 DEF Inv, Accounted, Astray, Key, LostRename, Named, Live
    <2>5. StoredInTime' /\ StillApplied'
      BY <2>1 DEF Inv, StoredInTime, StoreDue, Applying, Stored, Named, Live, Key,
         StillApplied, SuccessIsApplied, Applied
    <2>6. QED  BY <2>2, <2>3, <2>4, <2>5 DEF Inv
  <1>8. QED
    BY <1>1, <1>2, <1>3, <1>4, <1>5, <1>6, <1>7 DEF Next, Program, Faults, Runs

\* Inv is an invariant of the resources.
THEOREM SpecInv == Spec => []Inv
  BY InitInv, NextInv, PTL DEF Spec

\* The types, whatever the attributes followed, the rows, the faults and the
\* changes of the configuration.
THEOREM SpecTypeOK == Spec => []TypeOK
  <1>1. Inv => TypeOK
    BY DEF Inv
  <1>2. QED  BY <1>1, SpecInv, PTL

\* No live row is forgotten without a word, whatever fails and is repeated.
THEOREM SpecNothingForgotten == Spec => []NothingForgotten
  <1>1. Inv => NothingForgotten
    <2> SUFFICES ASSUME Inv, op = "idle", kind # "settings"
                 PROVE  Unnamed(rows, recorded) \subseteq strays
      BY DEF NothingForgotten
    <2>1. Unnamed(rows, recorded) = Astray(rows, recorded.id)
      BY UnnamedIsAstray DEF Inv, TypeOK
    <2>2. QED  BY <2>1 DEF Inv, Accounted
  <1>2. QED  BY <1>1, SpecInv, PTL

\* What an apply without an error has done, for every attribute of every kind.
THEOREM SpecSuccessIsApplied == Spec => []SuccessIsApplied
  <1>1. Inv => SuccessIsApplied
    BY DEF Inv, StillApplied
  <1>2. QED  BY <1>1, SpecInv, PTL

\* A handler that ends in an error leaves the record of a key alone.
LEMMA FailKeeps ==
    ASSUME Inv, attr = "key", NEW c, GiveUp(c) \/ Fail
    PROVE  recorded' = recorded
  <1>1. kind # "status_page"
    BY KindOfAttribute DEF Inv, TypeOK
  <1>2. QED  BY <1>1 DEF GiveUp, Fail, terraform

\* No step overwrites a key that is recorded.
LEMMA KeyStep ==
    ASSUME Inv, [Next]_vars, attr = "key", recorded # None, recorded' # None,
           recorded'.id = recorded.id
    PROVE  recorded'.value = recorded.value
  <1>1. CASE Answer
    <2>1. PICK c \in calls : GiveUp(c) \/ NotFound(c) \/ Done(c)
      BY <1>1 DEF Answer
    <2>2. NotFound(c) => recorded' = recorded \/ recorded' = None \/ GiveUp(c)
      BY DEF NotFound, terraform
    <2>3. Done(c) => recorded' = recorded
      BY DEF Done, terraform
    <2>4. QED  BY <2>1, <2>2, <2>3, FailKeeps
  <1>2. CASE Return
    <2>1. CASE diags
      BY <1>2, <2>1, FailKeeps DEF Return
    <2>2. CASE ~diags
      <3>1. recorded'.value = model /\ op # "delete"
        BY <1>2, <2>2 DEF Return
      <3>2. op \in {"read", "update"}
        BY <1>2, <3>1 DEF Return, Inv, TypeOK, Control
      <3>3. QED  BY <1>2, <2>2, <3>1, <3>2 DEF Return, Inv, KeyHeld
    <2>3. QED  BY <2>1, <2>2
  <1>3. CASE Lost \/ Down \/ Refused \/ Cancelled \/ Killed
    <2>1. \A c, made : Transient(c, made) => recorded' = recorded \/ GiveUp(c)
      BY DEF Transient, terraform
    <2>2. CASE Lost \/ Down
      BY <2>1, <2>2, FailKeeps DEF Lost, Down
    <2>3. CASE Refused \/ Cancelled \/ Killed
      BY <2>3, FailKeeps DEF Refused, Cancelled, Killed
    <2>4. QED  BY <1>3, <2>2, <2>3
  <1>4. CASE Drift \/ Refresh \/ ApplyCreate \/ ApplyUpdate \/ ApplyDelete \/ Import
             \/ Configure \/ UNCHANGED vars
    BY <1>4 DEF Drift, Refresh, ApplyCreate, ApplyUpdate, ApplyDelete, Import, Configure,
       vars, terraform
  <1>5. QED  BY <1>1, <1>2, <1>3, <1>4 DEF Next, Program, Faults, Runs

\* A recorded key stays, through every refresh, update and failure.
THEOREM SpecKeyIsKept == Spec => KeyIsKept
  <1>1. Inv /\ [Next]_vars
          => [attr = "key" /\ recorded # None /\ recorded' # None
              /\ recorded'.id = recorded.id => recorded'.value = recorded.value]_vars
    BY KeyStep
  <1>2. QED  BY <1>1, SpecInv, PTL DEF Spec, KeyIsKept
=============================================================================
