-------------------------- MODULE RoundTripProofs --------------------------
(***************************************************************************)
(* What is planned for an attribute is what is read back once it is        *)
(* stored, for every attribute of every kind: the exceptions are           *)
(* those named in Exempt, and no others.                                   *)
(*                                                                         *)
(* Every conversion Keeps a value that is neither empty nor missing.  What *)
(* it makes of an empty or a missing one depends on the attribute, so the  *)
(* tables are compared with three lists of names.                          *)
(***************************************************************************)
EXTENDS AttributesProofs

\* The values whose way to the server and back ends somewhere else: those for
\* which Terraform is given another value than it planned.
Exempt(a, v) ==
    \/ v = Zero /\ a \in EmptyIsUnset
    \/ v = Null /\ a \in Times
    \/ v = Two /\ a = "icon"

\* What may be planned for an attribute, and is known when it is.
Plannable(k, a) ==
    SchemaOf(k, a).domain
        \cup (IF SchemaOf(k, a).class = "optional" THEN {Null} ELSE {})
        \cup (IF SchemaOf(k, a).sticky THEN Known ELSE {})

-----------------------------------------------------------------------------
(* Three lists of names.                                                   *)

\* Attributes whose validators refuse an empty value.
NeverEmpty ==
    {"http_body_encoding", "auth_method", "ip_family", "analytics_type", "group",
     "style", "retry_interval", "theme"}

\* Attributes that are empty on the server when they are not set.
Lists ==
    {"notification_ids", "tags", "weekdays", "days_of_month", "domain_names", "group"}
        \cup Associations

\* Attributes that may be left out, and are null then, of some kind; the times
\* of a window are not.  A window has to have a description.
Nullable ==
    {"description", "parent_id", "proxy_id", "auth_method", "oauth_auth_method",
     "ip_family", "interval_day", "start_date", "end_date", "analytics_type",
     "username", "password", "expires"} \cup HTTPText \cup PageTexts \cup Lists
NullableOf(k) == IF k = "maintenance" THEN Nullable \ {"description"} ELSE Nullable

\* What an entry of each table makes of an empty and of a missing value.
SchemaKept(a, entry, names) ==
    /\ a \in NeverEmpty => Zero \notin entry.domain
    /\ entry.class = "optional" => a \in names \cup Times \cup {"apply_existing"}
    /\ entry.sticky => a \in {"push_token", "key"}
ApplyKept(a, f, names) ==
    /\ a \notin NeverEmpty => f[Zero] = Zero
    /\ a \in names => f[Null] = Null \/ (a \in Lists /\ f[Null] = Zero)
ReadKept(a, f, names) ==
    /\ a \notin NeverEmpty \cup EmptyIsUnset => f[Zero] = Zero
    /\ a \in names => f[Null] = Null
    /\ a \in names \cap Lists => f[Zero] = Null

SchemaTable(table, names) == \A a \in DOMAIN table : SchemaKept(a, table[a], names)
ApplyTable(table, names)  == \A a \in DOMAIN table : ApplyKept(a, table[a], names)
ReadTable(table, names)   == \A a \in DOMAIN table : ReadKept(a, table[a], names)

KindKept(t, names) ==
    SchemaTable(t.schema, names) /\ ApplyTable(t.apply, names) /\ ReadTable(t.read, names)

\* Two tables in one keep what both keep.
LEMMA MergeKept ==
    ASSUME NEW f, NEW g, NEW names
    PROVE  /\ SchemaTable(f, names) /\ SchemaTable(g, names) => SchemaTable(f ++ g, names)
           /\ ApplyTable(f, names) /\ ApplyTable(g, names) => ApplyTable(f ++ g, names)
           /\ ReadTable(f, names) /\ ReadTable(g, names) => ReadTable(f ++ g, names)
  BY DEF SchemaTable, ApplyTable, ReadTable, ++

LEMMA AndKept ==
    ASSUME NEW t, NEW u, NEW names, KindKept(t, names), KindKept(u, names)
    PROVE  KindKept(And(t, u), names)
  BY MergeKept DEF KindKept, And

\* One entry for several attributes.
LEMMA EachSchema ==
    ASSUME NEW group, NEW names, NEW domain
    PROVE  /\ group \cap NeverEmpty = {} \/ domain = Positive =>
                /\ SchemaTable(Each(group, Required(domain)), names)
                /\ SchemaTable(Each(group, Both(domain)), names)
                /\ SchemaTable(Each(group, Replaces(Required(domain))), names)
                /\ group \subseteq names \cup Times \cup {"apply_existing"} =>
                     /\ SchemaTable(Each(group, Optional(domain)), names)
                     /\ SchemaTable(Each(group, Replaces(Optional(domain))), names)
  <1> DEFINE S == {Required(domain), Both(domain), Replaces(Required(domain))}
             O == {Optional(domain), Replaces(Optional(domain))}
  <1>1. /\ \A e \in S \cup O : e.domain = domain
        /\ \A e \in S : e.class # "optional"
        /\ \A e \in S \cup O : ~e.sticky
    BY DEF Required, Optional, Both, Entry, Sticky, Replaces
  <1>2. domain = Positive => Zero \notin domain
    BY DEF Positive, Zero, One, Two
  <1>3. \A e \in S \cup O :
          /\ group \cap NeverEmpty = {} \/ domain = Positive
          /\ e \in S \/ group \subseteq names \cup Times \cup {"apply_existing"}
          => SchemaTable(Each(group, e), names)
    BY <1>1, <1>2 DEF SchemaTable, SchemaKept, Each
  <1>4. QED  BY <1>3

\* The two attributes whose plan comes from the state.
LEMMA StickySchema ==
    ASSUME NEW names
    PROVE  /\ SchemaTable(Each({"key"}, Sticky(Entry("computed", {}))), names)
           /\ SchemaTable(Each({"push_token"}, Sticky(Both(Free))), names)
  BY DEF SchemaTable, SchemaKept, Each, Sticky, Both, Entry, NeverEmpty

\* What the conversions make of an empty and of a missing value.
LEMMA EmptyValues ==
    /\ \A f \in {ValueOf, OrElse(Zero)} : f[Zero] = Zero /\ f[Null] = Zero
    /\ \A f \in {Ptr, Elements} : f[Zero] = Zero /\ f[Null] = Null
    /\ \A f \in {OrElse(One), OrElse(Own)} : f[Zero] = Zero
    /\ Value[Zero] = Zero /\ Value[Null] = Null
    /\ \A f \in {Plain, BoolOrTrue, BoolOrFalse} : f[Zero] = Zero
    /\ \A f \in {OptionalString, EmptyAs(Null)} : f[Zero] = Null /\ f[Null] = Null
  BY DEF ValueOf, Ptr, Elements, OrElse, Value, Plain, OptionalString, BoolOrTrue,
         BoolOrFalse, NullAs, EmptyAs, IsSet, Values, Columns, Known, Null, Unknown,
         Zero, One, Two, Own

\* A conversion for several attributes to send.
LEMMA EachApply ==
    ASSUME NEW group, NEW names
    PROVE  /\ ApplyTable(Each(group, Ptr), names) /\ ApplyTable(Each(group, Elements), names)
           /\ group \cap names \subseteq Lists =>
                /\ ApplyTable(Each(group, ValueOf), names)
                /\ ApplyTable(Each(group, OrElse(Zero)), names)
           /\ group \cap names = {} =>
                /\ ApplyTable(Each(group, OrElse(One)), names)
                /\ ApplyTable(Each(group, OrElse(Own)), names)
                /\ group \subseteq NeverEmpty =>
                     ApplyTable(Each(group, Then(ValueOf, EmptyAs(One))), names)
  BY EmptyValues DEF ApplyTable, ApplyKept, Each

\* A conversion for several attributes to read.
LEMMA EachRead ==
    ASSUME NEW group, NEW names
    PROVE  /\ group \cap Lists = {} => ReadTable(Each(group, Value), names)
           /\ group \cap names = {} =>
                /\ ReadTable(Each(group, Plain), names)
                /\ ReadTable(Each(group, BoolOrTrue), names)
                /\ ReadTable(Each(group, BoolOrFalse), names)
           /\ group \subseteq NeverEmpty \cup EmptyIsUnset =>
                /\ ReadTable(Each(group, OptionalString), names)
                /\ ReadTable(Each(group, EmptyAs(Null)), names)
                /\ group \cap names = {} => ReadTable(Each(group, EmptyAs(One)), names)
  BY EmptyValues DEF ReadTable, ReadKept, Each

-----------------------------------------------------------------------------
(* The tables of each kind.                                                *)

\* What monitors are put together from.
LEMMA PiecesKept ==
    \A t \in {Base, HTTP, Keyword, JSONQuery, Ping, Port, DNS, Docker, Push} :
        KindKept(t, Nullable)
  <1>1. KindKept(Base, Nullable)
    BY MergeKept, EachSchema, EachApply, EachRead, InMerge, InEach
       DEF KindKept, NeverEmpty, Nullable, Lists, Associations, HTTPText, PageTexts,
           EmptyIsUnset, Base, BaseSchema, applyBase, tagAssociations, readBase,
           readTags
  <1>2. KindKept(HTTP, Nullable)
    BY MergeKept, EachSchema, EachApply, EachRead, InMerge, InEach
       DEF KindKept, NeverEmpty, Nullable, Lists, Associations, HTTPText, PageTexts,
           EmptyIsUnset, HTTP, httpAttributes, applyHTTPBase, readHTTPBase,
           HTTPOffFlags
  <1>3. KindKept(Keyword, Nullable)
    BY MergeKept, EachSchema, EachApply, EachRead, InMerge, InEach
       DEF KindKept, NeverEmpty, Nullable, Lists, Associations, HTTPText, PageTexts,
           EmptyIsUnset, Keyword
  <1>4. KindKept(JSONQuery, Nullable)
    BY MergeKept, EachSchema, EachApply, EachRead, InMerge, InEach
       DEF KindKept, NeverEmpty, Nullable, Lists, Associations, HTTPText, PageTexts,
           EmptyIsUnset, JSONQuery
  <1>5. KindKept(Ping, Nullable)
    BY MergeKept, EachSchema, EachApply, EachRead, InMerge, InEach
       DEF KindKept, NeverEmpty, Nullable, Lists, Associations, HTTPText, PageTexts,
           EmptyIsUnset, Ping
  <1>6. KindKept(Port, Nullable)
    BY MergeKept, EachSchema, EachApply, EachRead, InMerge, InEach
       DEF KindKept, NeverEmpty, Nullable, Lists, Associations, HTTPText, PageTexts,
           EmptyIsUnset, Port
  <1>7. KindKept(DNS, Nullable)
    BY MergeKept, EachSchema, EachApply, EachRead, InMerge, InEach
       DEF KindKept, NeverEmpty, Nullable, Lists, Associations, HTTPText, PageTexts,
           EmptyIsUnset, DNS
  <1>8. KindKept(Docker, Nullable)
    BY MergeKept, EachSchema, EachApply, EachRead, InMerge, InEach
       DEF KindKept, NeverEmpty, Nullable, Lists, Associations, HTTPText, PageTexts,
           EmptyIsUnset, Docker
  <1>9. KindKept(Push, Nullable)
    BY StickySchema, MergeKept, EachSchema, EachApply, EachRead, InMerge, InEach
       DEF KindKept, NeverEmpty, Nullable, Lists, Associations, HTTPText, PageTexts,
           EmptyIsUnset, Push
  <1>10. QED  BY <1>1, <1>2, <1>3, <1>4, <1>5, <1>6, <1>7, <1>8, <1>9

LEMMA MonitorsKept == \A k \in Monitors : KindKept(Tables[k], Nullable)
  <1>1. KindKept([schema |-> <<>>, apply |-> <<>>, read |-> <<>>], Nullable)
    BY DEF KindKept, SchemaTable, ApplyTable, ReadTable
  <1>2. ASSUME NEW k \in Monitors PROVE KindKept(MonitorTypes[k], Nullable)
    BY <1>1, TablesDef, AndKept, PiecesKept DEF MonitorTypes
  <1>3. QED  BY <1>2, TablesDef, AndKept, PiecesKept

\* The other kinds.
LEMMA OthersKept == \A k \in Others : KindKept(Tables[k], NullableOf(k))
  <1>1. KindKept(Tables["maintenance"], NullableOf("maintenance"))
    BY TablesDef, MergeKept, EachSchema, EachApply, EachRead, InMerge, InEach
       DEF KindKept, NeverEmpty, Nullable, Lists, Associations, HTTPText, PageTexts,
           EmptyIsUnset, NullableOf, Table, MaintenanceSchema, MaintenanceWire,
           readIdentity, readSchedule, readAssociations, Times
  <1>2. KindKept(Tables["status_page"], NullableOf("status_page"))
    BY TablesDef, MergeKept, EachSchema, EachApply, EachRead, InMerge, InEach
       DEF KindKept, NeverEmpty, Nullable, Lists, Associations, HTTPText, PageTexts,
           EmptyIsUnset, NullableOf, Table, PageSchema, PageConfig, PageGroups,
           PageIcon, PageReadInto, PageFlags
  <1>3. KindKept(Tables["status_page_incident"], NullableOf("status_page_incident"))
    BY TablesDef, MergeKept, EachSchema, EachApply, EachRead, InMerge, InEach
       DEF KindKept, NeverEmpty, Nullable, Lists, Associations, HTTPText, PageTexts,
           EmptyIsUnset, NullableOf, Table, IncidentSchema, IncidentWire,
           IncidentReadInto
  <1>4. KindKept(Tables["proxy"], NullableOf("proxy"))
    BY TablesDef, MergeKept, EachSchema, EachApply, EachRead, InMerge, InEach
       DEF KindKept, NeverEmpty, Nullable, Lists, Associations, HTTPText, PageTexts,
           EmptyIsUnset, NullableOf, Table, ProxySchema, ProxyWire, ProxyReadInto
  <1>5. KindKept(Tables["docker_host"], NullableOf("docker_host"))
    BY TablesDef, MergeKept, EachSchema, EachApply, EachRead, InMerge, InEach
       DEF KindKept, NeverEmpty, Nullable, Lists, Associations, HTTPText, PageTexts,
           EmptyIsUnset, NullableOf, Table, DockerHostSchema, DockerHostWire,
           DockerHostReadInto
  <1>6. KindKept(Tables["remote_browser"], NullableOf("remote_browser"))
    BY TablesDef, MergeKept, EachSchema, EachApply, EachRead, InMerge, InEach
       DEF KindKept, NeverEmpty, Nullable, Lists, Associations, HTTPText, PageTexts,
           EmptyIsUnset, NullableOf, Table, RemoteBrowserSchema
  <1>7. KindKept(Tables["tag"], NullableOf("tag"))
    BY TablesDef, MergeKept, EachSchema, EachApply, EachRead, InMerge, InEach
       DEF KindKept, NeverEmpty, Nullable, Lists, Associations, HTTPText, PageTexts,
           EmptyIsUnset, NullableOf, Table, TagSchema
  <1>8. KindKept(Tables["api_key"], NullableOf("api_key"))
    BY TablesDef, StickySchema, MergeKept, EachSchema, EachApply, EachRead, InMerge,
       InEach
       DEF KindKept, NeverEmpty, Nullable, Lists, Associations, HTTPText, PageTexts,
           EmptyIsUnset, NullableOf, Table, APIKeySchema, APIKeyWire, APIKeyReadInto
  <1>9. KindKept(Tables["notification"], NullableOf("notification"))
    <2>1. DOMAIN NotificationSchema = {"name", "type", "is_default", "settings", "apply_existing"}
      BY DEF NotificationSchema, ++, Each
    <2>2. QED
      BY <2>1, TablesDef, MergeKept, EachSchema, EachApply, EachRead
         DEF KindKept, NeverEmpty, Nullable, Lists, Associations, HTTPText, PageTexts,
             EmptyIsUnset, NullableOf, Table, NotificationSchema, NotificationPayload,
             NotificationReadInto
  <1>10. KindKept(Tables["settings"], NullableOf("settings"))
    BY TablesDef, MergeKept, EachSchema, EachApply, EachRead, InMerge, InEach
       DEF KindKept, NeverEmpty, Nullable, Lists, Associations, HTTPText, PageTexts,
           EmptyIsUnset, NullableOf, Table, SettingsSchema, SettingsDesired,
           SettingsReadInto
  <1>11. QED  BY <1>1, <1>2, <1>3, <1>4, <1>5, <1>6, <1>7, <1>8, <1>9, <1>10 DEF Others

LEMMA TablesKept == \A k \in Kinds : KindKept(Tables[k], NullableOf(k))
  <1>1. \A k \in Monitors : NullableOf(k) = Nullable
    BY TablesDef DEF NullableOf, Others
  <1>2. QED  BY <1>1, MonitorsKept, OthersKept, TablesDef

-----------------------------------------------------------------------------
(* From the plan to the server and back.                                   *)

\* What the normalizations make of each value.
LEMMA NormalValues ==
    ASSUME NEW k \in Kinds, NEW a
    PROVE  /\ \A v \in {One, Two, Own} : Normalized(k, a, v) = v
           /\ a \notin NeverEmpty \cup EmptyIsUnset => Normalized(k, a, Zero) = Zero
           /\ a \in NullableOf(k) \ Times =>
                /\ Normalized(k, a, Null) = Null
                     \/ (a \in Lists /\ Normalized(k, a, Null) = Zero)
                /\ a \in Lists => Normalized(k, a, Zero) = Zero
  <1>1. /\ All(NormalizeMonitor, NormalEntry) /\ All(NormalizeMaintenance, NormalEntry)
        /\ All(normalizeStatusPage, NormalEntry)
    BY EachDef, MergeAll, Conversions
       DEF NormalizeMonitor, NormalizeMaintenance, normalizeStatusPage
  <1>2. \A v \in {One, Two, Own} : Normalized(k, a, v) = v
    BY <1>1 DEF Normalized, At, All, NormalEntry, Keeps
  <1>3. /\ NullAs(One)[Zero] = Zero /\ NullAs(Zero)[Zero] = Zero /\ NullAs(Zero)[Null] = Zero
    BY DEF NullAs, Columns, Known, Null, Zero, One
  <1>4. /\ a \notin NeverEmpty \cup EmptyIsUnset => At(NormalizeMonitor, a, Zero) = Zero
        /\ a \in Nullable => \A v : At(NormalizeMonitor, a, v) = v
    BY <1>3 DEF At, NormalizeMonitor, NeverEmpty, EmptyIsUnset, Nullable, Lists,
       Associations, HTTPText, PageTexts, ++, Each
  <1>5. /\ At(NormalizeMaintenance, a, Zero) = Zero
        /\ a \in Nullable \ Times =>
             At(NormalizeMaintenance, a, Null) = IF a \in {"weekdays", "days_of_month"}
                                                 THEN Zero ELSE Null
    BY <1>3 DEF At, NormalizeMaintenance, Nullable, Lists, Associations, HTTPText,
       PageTexts, ++, Each
  <1>6. /\ a # "theme" => At(normalizeStatusPage, a, Zero) = Zero
        /\ a # "theme" => At(normalizeStatusPage, a, Null) = IF a = "domain_names"
                                                             THEN Zero ELSE Null
    BY <1>3 DEF At, normalizeStatusPage, ++, Each
  <1>7. "theme" \in NeverEmpty /\ "theme" \notin Nullable
    BY DEF NeverEmpty, Nullable, Lists, Associations, HTTPText, PageTexts
  <1>8. {"weekdays", "days_of_month", "domain_names"} \subseteq Lists
    BY DEF Lists
  <1>9. a \in NullableOf(k) => a \in Nullable
    BY DEF NullableOf
  <1>10. QED
    BY <1>2, <1>4, <1>5, <1>6, <1>7, <1>8, <1>9, TablesDef DEF Normalized, Others

\* Nothing but what is missing is left out of a payload, and an empty list.
LEMMA OmittedValues ==
    ASSUME NEW k \in Kinds, NEW a
    PROVE  /\ Omitted(k, a) \subseteq {Null, Zero}
           /\ a \notin EmptyIsUnset => Zero \notin Omitted(k, a)
  <1>1. \A n \in DOMAIN PageOmitted : PageOmitted[n] = {Null}
    BY DEF PageOmitted, Each
  <1>2. \A n \in DOMAIN MaintenanceOmitted :
            MaintenanceOmitted[n] = IF n \in {"weekdays", "days_of_month"}
                                    THEN {Null, Zero} ELSE {Null}
    BY DEF MaintenanceOmitted, ++, Each
  <1>3. {"weekdays", "days_of_month"} \subseteq EmptyIsUnset /\ Zero # Null
    BY DEF EmptyIsUnset, Zero, Null
  <1>4. QED  BY <1>1, <1>2, <1>3, TablesDef DEF Omitted, Others

\* A new row has nothing in the column of an attribute that may be left out.
LEMMA DefaultOfNullable ==
    ASSUME NEW k \in Kinds, NEW a \in NullableOf(k), SchemaOf(k, a).class = "optional"
    PROVE  ColumnDefault(k, a) = Null
  BY DEF ColumnDefault, NullableOf, Nullable, Lists, Associations, HTTPText, PageTexts

\* What is planned is what is read back, and it makes no difference whether
\* it was created or edited so.
THEOREM RoundTrip ==
    ASSUME NEW k \in Kinds, NEW a \in DOMAIN Tables[k].schema, a # "pinned", IsRead(k, a),
           NEW v \in Plannable(k, a), ~Exempt(a, v)
    PROVE  /\ ReadBack(k, a, StoredByCreate(k, a, v)) = v
           /\ ReadBack(k, a, StoredByEdit(k, a, v)) = v
  <1> DEFINE f == Tables[k].apply[a]
             g == Tables[k].read[a]
             N == NullableOf(k)
  <1>1. TableOK(Tables[k]) /\ KindKept(Tables[k], N)
    BY TablesOK, TablesKept
  <1>2. /\ a \in DOMAIN Tables[k].apply /\ a \in DOMAIN Tables[k].read
        /\ f \in ApplyEntry /\ g \in ReadEntry
    BY <1>1 DEF TableOK, Covered, All, IsRead
  <1>3. SchemaKept(a, SchemaOf(k, a), N) /\ ApplyKept(a, f, N) /\ ReadKept(a, g, N)
    BY <1>1, <1>2 DEF KindKept, SchemaTable, ApplyTable, ReadTable, SchemaOf
  <1>4. v \in {One, Two, Own, Zero, Null}
    BY <1>1 DEF Plannable, TableOK, All, SchemaEntry, SchemaOf, Free, Known
  <1>5. /\ Sent(k, a, v) = IF Normalized(k, a, f[v]) \in Omitted(k, a) THEN Absent
                           ELSE Normalized(k, a, f[v])
        /\ \A c : ReadBack(k, a, c) = g[c]
    BY <1>2 DEF Sent, At, ReadBack
  <1>6. CASE v \in {One, Two, Own}
    <2>1. f[v] = v /\ g[v] = v
      BY <1>2, <1>6 DEF ApplyEntry, ReadEntry, NormalEntry, Keeps
    <2>2. Normalized(k, a, v) = v /\ v \notin Omitted(k, a) /\ v # Absent
      BY <1>6, NormalValues, OmittedValues DEF One, Two, Own, Null, Zero, Absent
    <2>3. Sent(k, a, v) = v
      BY <1>5, <2>1, <2>2
    <2>4. StoredByCreate(k, a, v) = v /\ StoredByEdit(k, a, v) = v
      BY <2>2, <2>3 DEF StoredByCreate, StoredByEdit, Exempt
    <2>5. QED  BY <1>5, <2>1, <2>4
  <1>7. CASE v = Zero
    <2>1. a \notin NeverEmpty \cup EmptyIsUnset
      <3>1. a \notin EmptyIsUnset
        BY <1>7 DEF Exempt
      <3>2. a # "key" /\ a # "push_token"
        BY <3>1, KindOfAttribute, KeyTable DEF EmptyIsUnset
      <3>3. Zero \in SchemaOf(k, a).domain
        BY <1>3, <1>7, <3>2 DEF Plannable, SchemaKept, Zero, Null
      <3>4. QED  BY <1>3, <3>1, <3>3 DEF SchemaKept
    <2>2. f[Zero] = Zero /\ g[Zero] = Zero
      BY <1>3, <2>1 DEF ApplyKept, ReadKept
    <2>3. Sent(k, a, v) = Zero
      BY <1>5, <1>7, <2>1, <2>2, NormalValues, OmittedValues
    <2>4. StoredByCreate(k, a, v) = Zero /\ StoredByEdit(k, a, v) = Zero
      BY <1>7, <2>3 DEF StoredByCreate, StoredByEdit, Zero, Two, Absent
    <2>5. QED  BY <1>5, <1>7, <2>2, <2>4
  <1>8. CASE v = Null
    <2>1. SchemaOf(k, a).class = "optional" /\ a \notin Times
      BY <1>1, <1>8 DEF Plannable, Exempt, TableOK, All, SchemaEntry, SchemaOf, Free, Known,
         Null, Zero, One, Two, Own
    <2>2. a \in N
      <3>1. a # "apply_existing"
        BY KindOfAttribute, ApplyExistingUnread
      <3>2. QED  BY <1>3, <2>1, <3>1 DEF SchemaKept
    <2>3. f[Null] = Null \/ (a \in Lists /\ f[Null] = Zero)
      BY <1>3, <2>2 DEF ApplyKept
    <2>4. Sent(k, a, v) \in {Absent, Null} \/ (a \in Lists /\ Sent(k, a, v) = Zero)
      BY <1>5, <1>8, <2>1, <2>2, <2>3, NormalValues
    <2>5. ColumnDefault(k, a) = Null
      BY <2>1, <2>2, DefaultOfNullable
    <2>6. /\ StoredByCreate(k, a, v) = Null \/ (a \in Lists /\ StoredByCreate(k, a, v) = Zero)
          /\ StoredByEdit(k, a, v) = Null \/ (a \in Lists /\ StoredByEdit(k, a, v) = Zero)
      BY <1>8, <2>4, <2>5 DEF StoredByCreate, StoredByEdit, Null, Two, Own
    <2>7. g[Null] = Null /\ (a \in Lists => g[Zero] = Null)
      BY <1>3, <2>2 DEF ReadKept
    <2>8. QED  BY <1>5, <1>8, <2>6, <2>7
  <1>9. QED  BY <1>4, <1>6, <1>7, <1>8

=============================================================================
