-------------------------- MODULE AttributesProofs --------------------------
(***************************************************************************)
(* What the tables of Attributes have in common, for every attribute of    *)
(* every kind: the facts the proofs about Resources rest on.               *)
(***************************************************************************)
EXTENDS Attributes, TLAPS

Classes == {"required", "optional", "both", "computed"}

\* The entries of the three tables of a kind.
SchemaEntry ==
    [class : Classes, domain : SUBSET Free, sticky : BOOLEAN, replace : BOOLEAN]
\* Every attribute but the clear text of an API key is the user's to set.
UserEntry == {e \in SchemaEntry : e.class # "computed"}
\* A value that is neither empty nor missing goes through a conversion as it is.
Keeps(f) == \A v \in {One, Two, Own} : f[v] = v
ApplyEntry == {f \in [Values -> Columns] : Keeps(f)}
NormalEntry == {f \in [Columns -> Columns] : Keeps(f)}
\* Only an empty column is read as null.
ReadEntry == {f \in NormalEntry : \A c \in Columns : f[c] = Null => c \in {Null, Zero}}

All(table, S) == \A a \in DOMAIN table : table[a] \in S

\* What is sent, and what is read back when the plan may leave it open.
Covered(t, a) ==
    /\ a \in DOMAIN t.apply \/ a = "pinned"
    /\ t.schema[a].class = "both" => a \in DOMAIN t.read
    /\ t.schema[a].class = "optional" => a \in DOMAIN t.read \/ a = "apply_existing"
    /\ t.schema[a].class = "computed" => a = "key"

TableOK(t) ==
    /\ t = [schema |-> t.schema, apply |-> t.apply, read |-> t.read]
    /\ All(t.schema, SchemaEntry) /\ All(t.apply, ApplyEntry) /\ All(t.read, ReadEntry)
    /\ \A a \in DOMAIN t.schema : Covered(t, a)

-----------------------------------------------------------------------------
(* Tables are put together from pieces.                                    *)

\* One entry for several attributes.
LEMMA EachDef ==
    ASSUME NEW names, NEW entry
    PROVE  /\ DOMAIN Each(names, entry) = names
           /\ \A a \in names : Each(names, entry)[a] = entry
           /\ \A S : entry \in S => All(Each(names, entry), S)
  BY DEF Each, All

\* The attributes of two tables in one, and of a table with one entry.
LEMMA InMerge == \A f, g, a : a \in DOMAIN (f ++ g) <=> a \in DOMAIN f \/ a \in DOMAIN g
  BY DEF ++

LEMMA InEach == \A names, entry, a : a \in DOMAIN Each(names, entry) <=> a \in names
  BY DEF Each

\* What both tables satisfy, the two in one satisfy.
LEMMA MergeAll ==
    ASSUME NEW f, NEW g, NEW S, All(f, S), All(g, S)
    PROVE  All(f ++ g, S)
  BY DEF All, ++

\* A monitor type and what all types share.
LEMMA AndOK ==
    ASSUME NEW t, NEW u, TableOK(t), TableOK(u)
    PROVE  TableOK(And(t, u))
  <1> DEFINE w == And(t, u)
  <1>1. /\ w.schema = t.schema ++ u.schema /\ w.apply = t.apply ++ u.apply
        /\ w.read = t.read ++ u.read
        /\ w = [schema |-> w.schema, apply |-> w.apply, read |-> w.read]
    BY DEF And
  <1>2. All(w.schema, SchemaEntry) /\ All(w.apply, ApplyEntry) /\ All(w.read, ReadEntry)
    BY <1>1, MergeAll DEF TableOK
  <1>3. ASSUME NEW a \in DOMAIN w.schema PROVE Covered(w, a)
    <2>1. /\ DOMAIN w.schema = DOMAIN t.schema \cup DOMAIN u.schema
          /\ DOMAIN w.apply = DOMAIN t.apply \cup DOMAIN u.apply
          /\ DOMAIN w.read = DOMAIN t.read \cup DOMAIN u.read
      BY <1>1 DEF ++
    <2>2. CASE a \in DOMAIN t.schema
      <3>1. w.schema[a] = t.schema[a]
        BY <1>1, <2>2 DEF ++
      <3>2. QED  BY <2>1, <2>2, <3>1 DEF TableOK, Covered
    <2>3. CASE a \notin DOMAIN t.schema
      <3>1. a \in DOMAIN u.schema /\ w.schema[a] = u.schema[a]
        BY <1>1, <2>3 DEF ++
      <3>2. QED  BY <2>1, <3>1 DEF TableOK, Covered
    <2>4. QED  BY <2>2, <2>3
  <1>4. QED  BY <1>1, <1>2, <1>3 DEF TableOK

\* The conversions, by type.
LEMMA Conversions ==
    /\ {ValueOf, Ptr, Elements, OrElse(One), OrElse(Zero), OrElse(Own)} \subseteq ApplyEntry
    /\ {Value, Plain, OptionalString, BoolOrTrue, BoolOrFalse, EmptyAs(Null),
        EmptyAs(One)} \subseteq ReadEntry
    /\ Then(ValueOf, EmptyAs(One)) \in ApplyEntry
    /\ {NullAs(One), NullAs(Zero), EmptyAs(One), EmptyAs(Own)} \subseteq NormalEntry
  BY DEF ApplyEntry, NormalEntry, ReadEntry, Keeps, ValueOf, Ptr, Elements, OrElse, Value, Plain,
         OptionalString, BoolOrTrue, BoolOrFalse, NullAs, EmptyAs, IsSet, Then,
         Values, Columns, Known, Null, Unknown, Zero, One, Two, Own

\* The entries of a schema, by type.
LEMMA SchemaEntries ==
    ASSUME NEW domain \in SUBSET Free
    PROVE  /\ Required(domain) \in SchemaEntry /\ Required(domain).class = "required"
           /\ Optional(domain) \in SchemaEntry /\ Optional(domain).class = "optional"
           /\ Both(domain) \in SchemaEntry /\ Both(domain).class = "both"
           /\ Entry("computed", {}) \in SchemaEntry
  BY DEF SchemaEntry, Classes, Required, Optional, Both, Entry

\* A mark on an entry leaves it what it was.
LEMMA MarkedEntries ==
    ASSUME NEW e \in SchemaEntry
    PROVE  /\ Sticky(e) \in SchemaEntry /\ Sticky(e).class = e.class
           /\ Sticky(e).domain = e.domain
           /\ Replaces(e) \in SchemaEntry /\ Replaces(e).class = e.class
           /\ Replaces(e).domain = e.domain
  BY DEF SchemaEntry, Sticky, Replaces

-----------------------------------------------------------------------------

LEMMA Domains == {Free, Positive, Flag} \subseteq SUBSET Free
  BY DEF Free, Positive, Flag

\* The kinds that are no monitors.
Others ==
    {"maintenance", "status_page", "status_page_incident", "proxy", "docker_host",
     "remote_browser", "tag", "api_key", "notification", "settings"}

\* The tables of each kind, one by one.
LEMMA TablesDef ==
    /\ Monitors = {"monitor_http", "monitor_keyword", "monitor_json_query",
                   "monitor_ping", "monitor_port", "monitor_dns", "monitor_docker",
                   "monitor_push", "monitor_group"}
    /\ Kinds = Monitors \cup Others /\ Monitors \cap Others = {}
    /\ \A k \in Monitors : Tables[k] = And(Base, MonitorTypes[k])
    /\ Tables["maintenance"] =
         Table(MaintenanceSchema, MaintenanceWire,
               readIdentity ++ readSchedule ++ readAssociations)
    /\ Tables["status_page"] =
         Table(PageSchema, PageConfig ++ PageGroups ++ PageIcon, PageReadInto)
    /\ Tables["status_page_incident"] =
         Table(IncidentSchema, IncidentWire, IncidentReadInto)
    /\ Tables["proxy"] = Table(ProxySchema, ProxyWire, ProxyReadInto)
    /\ Tables["docker_host"] =
         Table(DockerHostSchema, DockerHostWire, DockerHostReadInto)
    /\ Tables["remote_browser"] =
         Table(RemoteBrowserSchema, Each({"name", "url"}, ValueOf),
               Each({"name", "url"}, Plain))
    /\ Tables["tag"] =
         Table(TagSchema, Each({"name", "color"}, ValueOf), Each({"name", "color"}, Plain))
    /\ Tables["api_key"] = Table(APIKeySchema, APIKeyWire, APIKeyReadInto)
    /\ Tables["notification"] =
         Table(NotificationSchema, NotificationPayload, NotificationReadInto)
    /\ Tables["settings"] = Table(SettingsSchema, SettingsDesired, SettingsReadInto)
  <1>1. Monitors = {"monitor_http", "monitor_keyword", "monitor_json_query",
                    "monitor_ping", "monitor_port", "monitor_dns", "monitor_docker",
                    "monitor_push", "monitor_group"}
    BY DEF Monitors, MonitorTypes
  <1>2. Kinds = Monitors \cup Others
    BY DEF Kinds, Tables, ++, Others
  <1>3. QED  BY <1>1, <1>2 DEF Tables, ++, Others

\* What all monitors have.
LEMMA BaseOK == TableOK(Base)
  <1> DEFINE t == Base
  <1>1. All(t.schema, SchemaEntry)
    BY Domains, EachDef, MergeAll, SchemaEntries DEF Base, BaseSchema
  <1>2. All(t.apply, ApplyEntry)
    BY EachDef, MergeAll, Conversions DEF Base, applyBase, tagAssociations
  <1>3. All(t.read, ReadEntry)
    BY EachDef, MergeAll, Conversions DEF Base, readBase, readTags
  <1>4. ASSUME NEW a \in DOMAIN t.schema PROVE Covered(t, a)
    BY DEF Base, Covered, ++, Each, Required, Optional, Both, Entry, BaseSchema,
        applyBase, tagAssociations, readBase, readTags
  <1>5. t = [schema |-> t.schema, apply |-> t.apply, read |-> t.read]
    BY DEF Base
  <1>6. QED  BY <1>1, <1>2, <1>3, <1>4, <1>5 DEF TableOK

\* The monitors that make an HTTP request.
LEMMA HTTPOK == TableOK(HTTP)
  <1> DEFINE t == HTTP
  <1>1. All(t.schema, SchemaEntry)
    BY Domains, EachDef, MergeAll, SchemaEntries DEF HTTP, httpAttributes
  <1>2. All(t.apply, ApplyEntry)
    BY EachDef, MergeAll, Conversions DEF HTTP, applyHTTPBase, httpAttributes
  <1>3. All(t.read, ReadEntry)
    BY EachDef, MergeAll, Conversions DEF HTTP, readHTTPBase
  <1>4. ASSUME NEW a \in DOMAIN t.schema PROVE Covered(t, a)
    BY DEF HTTP, Covered, ++, Each, Required, Optional, Both, Entry, httpAttributes,
        applyHTTPBase, readHTTPBase
  <1>5. t = [schema |-> t.schema, apply |-> t.apply, read |-> t.read]
    BY DEF HTTP
  <1>6. QED  BY <1>1, <1>2, <1>3, <1>4, <1>5 DEF TableOK

\* The attributes a keyword monitor adds.
LEMMA KeywordOK == TableOK(Keyword)
  <1> DEFINE t == Keyword
  <1>1. All(t.schema, SchemaEntry)
    BY Domains, EachDef, MergeAll, SchemaEntries DEF Keyword
  <1>2. All(t.apply, ApplyEntry)
    BY EachDef, MergeAll, Conversions DEF Keyword
  <1>3. All(t.read, ReadEntry)
    BY EachDef, MergeAll, Conversions DEF Keyword
  <1>4. ASSUME NEW a \in DOMAIN t.schema PROVE Covered(t, a)
    BY DEF Keyword, Covered, ++, Each, Required, Optional, Both, Entry
  <1>5. t = [schema |-> t.schema, apply |-> t.apply, read |-> t.read]
    BY DEF Keyword
  <1>6. QED  BY <1>1, <1>2, <1>3, <1>4, <1>5 DEF TableOK

\* The attributes a JSON query monitor adds.
LEMMA JSONQueryOK == TableOK(JSONQuery)
  <1> DEFINE t == JSONQuery
  <1>1. All(t.schema, SchemaEntry)
    BY Domains, EachDef, MergeAll, SchemaEntries DEF JSONQuery
  <1>2. All(t.apply, ApplyEntry)
    BY EachDef, MergeAll, Conversions DEF JSONQuery
  <1>3. All(t.read, ReadEntry)
    BY EachDef, MergeAll, Conversions DEF JSONQuery
  <1>4. ASSUME NEW a \in DOMAIN t.schema PROVE Covered(t, a)
    BY DEF JSONQuery, Covered, ++, Each, Required, Optional, Both, Entry
  <1>5. t = [schema |-> t.schema, apply |-> t.apply, read |-> t.read]
    BY DEF JSONQuery
  <1>6. QED  BY <1>1, <1>2, <1>3, <1>4, <1>5 DEF TableOK

\* Ping monitors.
LEMMA PingOK == TableOK(Ping)
  <1> DEFINE t == Ping
  <1>1. All(t.schema, SchemaEntry)
    BY Domains, EachDef, MergeAll, SchemaEntries DEF Ping
  <1>2. All(t.apply, ApplyEntry)
    BY EachDef, MergeAll, Conversions DEF Ping
  <1>3. All(t.read, ReadEntry)
    BY EachDef, MergeAll, Conversions DEF Ping
  <1>4. ASSUME NEW a \in DOMAIN t.schema PROVE Covered(t, a)
    BY DEF Ping, Covered, ++, Each, Required, Optional, Both, Entry
  <1>5. t = [schema |-> t.schema, apply |-> t.apply, read |-> t.read]
    BY DEF Ping
  <1>6. QED  BY <1>1, <1>2, <1>3, <1>4, <1>5 DEF TableOK

\* Port monitors.
LEMMA PortOK == TableOK(Port)
  <1> DEFINE t == Port
  <1>1. All(t.schema, SchemaEntry)
    BY Domains, EachDef, MergeAll, SchemaEntries DEF Port
  <1>2. All(t.apply, ApplyEntry)
    BY EachDef, MergeAll, Conversions DEF Port
  <1>3. All(t.read, ReadEntry)
    BY EachDef, MergeAll, Conversions DEF Port
  <1>4. ASSUME NEW a \in DOMAIN t.schema PROVE Covered(t, a)
    BY DEF Port, Covered, ++, Each, Required, Optional, Both, Entry
  <1>5. t = [schema |-> t.schema, apply |-> t.apply, read |-> t.read]
    BY DEF Port
  <1>6. QED  BY <1>1, <1>2, <1>3, <1>4, <1>5 DEF TableOK

\* DNS monitors.
LEMMA DNSOK == TableOK(DNS)
  <1> DEFINE t == DNS
  <1>1. All(t.schema, SchemaEntry)
    BY Domains, EachDef, MergeAll, SchemaEntries DEF DNS
  <1>2. All(t.apply, ApplyEntry)
    BY EachDef, MergeAll, Conversions DEF DNS
  <1>3. All(t.read, ReadEntry)
    BY EachDef, MergeAll, Conversions DEF DNS
  <1>4. ASSUME NEW a \in DOMAIN t.schema PROVE Covered(t, a)
    BY DEF DNS, Covered, ++, Each, Required, Optional, Both, Entry
  <1>5. t = [schema |-> t.schema, apply |-> t.apply, read |-> t.read]
    BY DEF DNS
  <1>6. QED  BY <1>1, <1>2, <1>3, <1>4, <1>5 DEF TableOK

\* Docker monitors.
LEMMA DockerOK == TableOK(Docker)
  <1> DEFINE t == Docker
  <1>1. All(t.schema, SchemaEntry)
    BY Domains, EachDef, MergeAll, SchemaEntries DEF Docker
  <1>2. All(t.apply, ApplyEntry)
    BY EachDef, MergeAll, Conversions DEF Docker
  <1>3. All(t.read, ReadEntry)
    BY EachDef, MergeAll, Conversions DEF Docker
  <1>4. ASSUME NEW a \in DOMAIN t.schema PROVE Covered(t, a)
    BY DEF Docker, Covered, ++, Each, Required, Optional, Both, Entry
  <1>5. t = [schema |-> t.schema, apply |-> t.apply, read |-> t.read]
    BY DEF Docker
  <1>6. QED  BY <1>1, <1>2, <1>3, <1>4, <1>5 DEF TableOK

\* Push monitors.
LEMMA PushOK == TableOK(Push)
  <1> DEFINE t == Push
  <1>1. All(t.schema, SchemaEntry)
    BY Domains, EachDef, MergeAll, SchemaEntries, MarkedEntries DEF Push
  <1>2. All(t.apply, ApplyEntry)
    BY EachDef, MergeAll, Conversions DEF Push
  <1>3. All(t.read, ReadEntry)
    BY EachDef, MergeAll, Conversions DEF Push
  <1>4. ASSUME NEW a \in DOMAIN t.schema PROVE Covered(t, a)
    BY DEF Push, Covered, ++, Each, Required, Optional, Both, Entry, Sticky,
        Replaces
  <1>5. t = [schema |-> t.schema, apply |-> t.apply, read |-> t.read]
    BY DEF Push
  <1>6. QED  BY <1>1, <1>2, <1>3, <1>4, <1>5 DEF TableOK

\* Monitors of every type.
LEMMA MonitorsOK == \A k \in Monitors : TableOK(Tables[k])
  <1>1. TableOK([schema |-> <<>>, apply |-> <<>>, read |-> <<>>])
    BY DEF TableOK, All, Covered
  <1>2. ASSUME NEW k \in Monitors PROVE TableOK(MonitorTypes[k])
    BY <1>1, TablesDef, AndOK, HTTPOK, KeywordOK, JSONQueryOK, PingOK, PortOK, DNSOK,
       DockerOK, PushOK DEF MonitorTypes
  <1>3. QED  BY <1>2, TablesDef, AndOK, BaseOK

\* Maintenance windows.
LEMMA MaintenanceOK == TableOK(Tables["maintenance"])
  <1> DEFINE t == Tables["maintenance"]
  <1>1. All(t.schema, SchemaEntry)
    BY TablesDef, Domains, EachDef, MergeAll, SchemaEntries DEF Table,
        MaintenanceSchema, Times, Associations
  <1>2. All(t.apply, ApplyEntry)
    BY TablesDef, EachDef, MergeAll, Conversions DEF Table, MaintenanceWire, Times,
        Associations
  <1>3. All(t.read, ReadEntry)
    BY TablesDef, EachDef, MergeAll, Conversions DEF Table, readIdentity,
        readSchedule, readAssociations, Times, Associations
  <1>4. ASSUME NEW a \in DOMAIN t.schema PROVE Covered(t, a)
    <2>1. a \in {"title", "description", "strategy", "active", "cron", "timezone",
                "duration_minutes", "interval_day", "start_date", "end_date",
                "weekdays", "days_of_month"} \cup Times \cup Associations
      BY TablesDef, InMerge, InEach DEF Table, MaintenanceSchema, Times,
         Associations
    <2>2. a \in DOMAIN t.apply
      BY <2>1, TablesDef, InMerge, InEach DEF Table, MaintenanceWire, Times,
         Associations
    <2>3. a \in DOMAIN t.read
      BY <2>1, TablesDef, InMerge, InEach DEF Table, readIdentity, readSchedule,
         readAssociations, Times, Associations
    <2>4. All(t.schema, UserEntry)
      BY TablesDef, Domains, EachDef, MergeAll, SchemaEntries DEF Table, UserEntry,
         MaintenanceSchema, Times, Associations
    <2>5. QED  BY <2>1, <2>2, <2>3, <2>4 DEF Covered, All, UserEntry
  <1>5. t = [schema |-> t.schema, apply |-> t.apply, read |-> t.read]
    BY TablesDef DEF Table
  <1>6. QED  BY <1>1, <1>2, <1>3, <1>4, <1>5 DEF TableOK

\* Status pages.
LEMMA PageOK == TableOK(Tables["status_page"])
  <1> DEFINE t == Tables["status_page"]
  <1>1. All(t.schema, SchemaEntry)
    BY TablesDef, Domains, EachDef, MergeAll, SchemaEntries DEF Table, PageSchema,
        PageTexts, PageFlags
  <1>2. All(t.apply, ApplyEntry)
    BY TablesDef, EachDef, MergeAll, Conversions DEF Table, PageConfig, PageGroups,
        PageIcon, PageTexts, PageFlags
  <1>3. All(t.read, ReadEntry)
    BY TablesDef, EachDef, MergeAll, Conversions DEF Table, PageReadInto, PageTexts,
        PageFlags
  <1>4. ASSUME NEW a \in DOMAIN t.schema PROVE Covered(t, a)
    <2>1. a \in {"slug", "title", "description", "domain_names", "group",
                "analytics_type", "icon", "theme", "auto_refresh_interval"}
               \cup PageTexts \cup PageFlags
      BY TablesDef, InMerge, InEach DEF Table, PageSchema, PageTexts, PageFlags
    <2>2. a \in DOMAIN t.apply
      BY <2>1, TablesDef, InMerge, InEach DEF Table, PageConfig, PageGroups,
         PageIcon, PageTexts, PageFlags
    <2>3. a \in DOMAIN t.read
      BY <2>1, TablesDef, InMerge, InEach DEF Table, PageReadInto, PageTexts,
         PageFlags
    <2>4. All(t.schema, UserEntry)
      BY TablesDef, Domains, EachDef, MergeAll, SchemaEntries DEF Table, UserEntry,
         PageSchema, PageTexts, PageFlags
    <2>5. QED  BY <2>1, <2>2, <2>3, <2>4 DEF Covered, All, UserEntry
  <1>5. t = [schema |-> t.schema, apply |-> t.apply, read |-> t.read]
    BY TablesDef DEF Table
  <1>6. QED  BY <1>1, <1>2, <1>3, <1>4, <1>5 DEF TableOK

\* Incidents.
LEMMA IncidentOK == TableOK(Tables["status_page_incident"])
  <1> DEFINE t == Tables["status_page_incident"]
  <1>1. All(t.schema, SchemaEntry)
    BY TablesDef, Domains, EachDef, MergeAll, SchemaEntries, MarkedEntries DEF
        Table, IncidentSchema
  <1>2. All(t.apply, ApplyEntry)
    BY TablesDef, EachDef, MergeAll, Conversions DEF Table, IncidentWire, Then
  <1>3. All(t.read, ReadEntry)
    BY TablesDef, EachDef, MergeAll, Conversions DEF Table, IncidentReadInto
  <1>4. ASSUME NEW a \in DOMAIN t.schema PROVE Covered(t, a)
    <2>1. a \in {"status_page_slug", "title", "content", "style", "pinned"}
      BY TablesDef, InMerge, InEach DEF Table, IncidentSchema
    <2>2. a \in DOMAIN t.apply \/ a = "pinned"
      BY <2>1, TablesDef, InMerge, InEach DEF Table, IncidentWire, Then
    <2>3. a \in DOMAIN t.read
      BY <2>1, TablesDef, InMerge, InEach DEF Table, IncidentReadInto
    <2>4. All(t.schema, UserEntry)
      BY TablesDef, Domains, EachDef, MergeAll, SchemaEntries, MarkedEntries DEF
         Table, UserEntry, IncidentSchema
    <2>5. QED  BY <2>1, <2>2, <2>3, <2>4 DEF Covered, All, UserEntry
  <1>5. t = [schema |-> t.schema, apply |-> t.apply, read |-> t.read]
    BY TablesDef DEF Table
  <1>6. QED  BY <1>1, <1>2, <1>3, <1>4, <1>5 DEF TableOK

\* Proxies.
LEMMA ProxyOK == TableOK(Tables["proxy"])
  <1> DEFINE t == Tables["proxy"]
  <1>1. All(t.schema, SchemaEntry)
    BY TablesDef, Domains, EachDef, MergeAll, SchemaEntries DEF Table, ProxySchema
  <1>2. All(t.apply, ApplyEntry)
    BY TablesDef, EachDef, MergeAll, Conversions DEF Table, ProxyWire
  <1>3. All(t.read, ReadEntry)
    BY TablesDef, EachDef, MergeAll, Conversions DEF Table, ProxyReadInto
  <1>4. ASSUME NEW a \in DOMAIN t.schema PROVE Covered(t, a)
    <2>1. a \in {"protocol", "port", "host", "username", "password", "active",
                "default", "apply_existing"}
      BY TablesDef, InMerge, InEach DEF Table, ProxySchema
    <2>2. a \in DOMAIN t.apply
      BY <2>1, TablesDef, InMerge, InEach DEF Table, ProxyWire
    <2>3. a \in DOMAIN t.read \/ a = "apply_existing"
      BY <2>1, TablesDef, InMerge, InEach DEF Table, ProxyReadInto
    <2>4. All(t.schema, UserEntry)
      BY TablesDef, Domains, EachDef, MergeAll, SchemaEntries DEF Table, UserEntry,
         ProxySchema
    <2>5. t.schema["apply_existing"].class = "optional"
      BY TablesDef DEF Table, ++, Each, Required, Optional, Both, Entry, ProxySchema
    <2>6. QED  BY <2>1, <2>2, <2>3, <2>4, <2>5 DEF Covered, All, UserEntry
  <1>5. t = [schema |-> t.schema, apply |-> t.apply, read |-> t.read]
    BY TablesDef DEF Table
  <1>6. QED  BY <1>1, <1>2, <1>3, <1>4, <1>5 DEF TableOK

\* Docker hosts.
LEMMA DockerHostOK == TableOK(Tables["docker_host"])
  <1> DEFINE t == Tables["docker_host"]
  <1>1. All(t.schema, SchemaEntry)
    BY TablesDef, Domains, EachDef, MergeAll, SchemaEntries DEF Table,
        DockerHostSchema
  <1>2. All(t.apply, ApplyEntry)
    BY TablesDef, EachDef, MergeAll, Conversions DEF Table, DockerHostWire,
        DockerHostSchema
  <1>3. All(t.read, ReadEntry)
    BY TablesDef, EachDef, MergeAll, Conversions DEF Table, DockerHostReadInto,
        DockerHostSchema
  <1>4. ASSUME NEW a \in DOMAIN t.schema PROVE Covered(t, a)
    BY TablesDef DEF Table, Covered, ++, Each, Required, Optional, Both, Entry,
        DockerHostSchema, DockerHostWire, DockerHostReadInto
  <1>5. t = [schema |-> t.schema, apply |-> t.apply, read |-> t.read]
    BY TablesDef DEF Table
  <1>6. QED  BY <1>1, <1>2, <1>3, <1>4, <1>5 DEF TableOK

\* Remote browsers.
LEMMA RemoteBrowserOK == TableOK(Tables["remote_browser"])
  <1> DEFINE t == Tables["remote_browser"]
  <1>1. All(t.schema, SchemaEntry)
    BY TablesDef, Domains, EachDef, MergeAll, SchemaEntries DEF Table,
        RemoteBrowserSchema
  <1>2. All(t.apply, ApplyEntry)
    BY TablesDef, EachDef, MergeAll, Conversions DEF Table
  <1>3. All(t.read, ReadEntry)
    BY TablesDef, EachDef, MergeAll, Conversions DEF Table
  <1>4. ASSUME NEW a \in DOMAIN t.schema PROVE Covered(t, a)
    BY TablesDef DEF Table, Covered, ++, Each, Required, Optional, Both, Entry,
        RemoteBrowserSchema
  <1>5. t = [schema |-> t.schema, apply |-> t.apply, read |-> t.read]
    BY TablesDef DEF Table
  <1>6. QED  BY <1>1, <1>2, <1>3, <1>4, <1>5 DEF TableOK

\* Tags.
LEMMA TagOK == TableOK(Tables["tag"])
  <1> DEFINE t == Tables["tag"]
  <1>1. All(t.schema, SchemaEntry)
    BY TablesDef, Domains, EachDef, MergeAll, SchemaEntries DEF Table, TagSchema
  <1>2. All(t.apply, ApplyEntry)
    BY TablesDef, EachDef, MergeAll, Conversions DEF Table
  <1>3. All(t.read, ReadEntry)
    BY TablesDef, EachDef, MergeAll, Conversions DEF Table
  <1>4. ASSUME NEW a \in DOMAIN t.schema PROVE Covered(t, a)
    BY TablesDef DEF Table, Covered, ++, Each, Required, Optional, Both, Entry,
        TagSchema
  <1>5. t = [schema |-> t.schema, apply |-> t.apply, read |-> t.read]
    BY TablesDef DEF Table
  <1>6. QED  BY <1>1, <1>2, <1>3, <1>4, <1>5 DEF TableOK

\* API keys.
LEMMA APIKeyOK == TableOK(Tables["api_key"])
  <1> DEFINE t == Tables["api_key"]
  <1>1. All(t.schema, SchemaEntry)
    BY TablesDef, Domains, EachDef, MergeAll, SchemaEntries, MarkedEntries DEF
        Table, APIKeySchema
  <1>2. All(t.apply, ApplyEntry)
    BY TablesDef, EachDef, MergeAll, Conversions DEF Table, APIKeyWire
  <1>3. All(t.read, ReadEntry)
    BY TablesDef, EachDef, MergeAll, Conversions DEF Table, APIKeyReadInto
  <1>4. ASSUME NEW a \in DOMAIN t.schema PROVE Covered(t, a)
    BY TablesDef DEF Table, Covered, ++, Each, Required, Optional, Both, Entry,
        Sticky, Replaces, APIKeySchema, APIKeyWire, APIKeyReadInto
  <1>5. t = [schema |-> t.schema, apply |-> t.apply, read |-> t.read]
    BY TablesDef DEF Table
  <1>6. QED  BY <1>1, <1>2, <1>3, <1>4, <1>5 DEF TableOK

\* Notifications.
LEMMA NotificationOK == TableOK(Tables["notification"])
  <1> DEFINE t == Tables["notification"]
  <1>1. All(t.schema, SchemaEntry)
    BY TablesDef, Domains, EachDef, MergeAll, SchemaEntries DEF Table,
        NotificationSchema
  <1>2. All(t.apply, ApplyEntry)
    BY TablesDef, EachDef, MergeAll, Conversions DEF Table, NotificationPayload,
        NotificationSchema
  <1>3. All(t.read, ReadEntry)
    BY TablesDef, EachDef, MergeAll, Conversions DEF Table, NotificationReadInto,
        NotificationSchema
  <1>4. ASSUME NEW a \in DOMAIN t.schema PROVE Covered(t, a)
    <2>1. a \in {"name", "type", "is_default", "settings", "apply_existing"}
      BY TablesDef, InMerge, InEach DEF Table, NotificationSchema
    <2>2. a \in DOMAIN t.apply
      BY <2>1, TablesDef, InMerge, InEach DEF Table, NotificationPayload,
         NotificationSchema
    <2>3. a \in DOMAIN t.read \/ a = "apply_existing"
      BY <2>1, TablesDef, InMerge, InEach DEF Table, NotificationReadInto,
         NotificationSchema
    <2>4. All(t.schema, UserEntry)
      BY TablesDef, Domains, EachDef, MergeAll, SchemaEntries DEF Table, UserEntry,
         NotificationSchema
    <2>5. t.schema["apply_existing"].class = "optional"
      BY TablesDef DEF Table, ++, Each, Required, Optional, Both, Entry,
         NotificationSchema
    <2>6. QED  BY <2>1, <2>2, <2>3, <2>4, <2>5 DEF Covered, All, UserEntry
  <1>5. t = [schema |-> t.schema, apply |-> t.apply, read |-> t.read]
    BY TablesDef DEF Table
  <1>6. QED  BY <1>1, <1>2, <1>3, <1>4, <1>5 DEF TableOK

\* Settings.
LEMMA SettingsOK == TableOK(Tables["settings"])
  <1> DEFINE t == Tables["settings"]
  <1>1. All(t.schema, SchemaEntry)
    BY TablesDef, Domains, EachDef, MergeAll, SchemaEntries DEF Table,
        SettingsSchema
  <1>2. All(t.apply, ApplyEntry)
    BY TablesDef, EachDef, MergeAll, Conversions DEF Table, SettingsDesired
  <1>3. All(t.read, ReadEntry)
    BY TablesDef, EachDef, MergeAll, Conversions DEF Table, SettingsReadInto
  <1>4. ASSUME NEW a \in DOMAIN t.schema PROVE Covered(t, a)
    BY TablesDef DEF Table, Covered, ++, Each, Required, Optional, Both, Entry,
        SettingsSchema, SettingsDesired, SettingsReadInto
  <1>5. t = [schema |-> t.schema, apply |-> t.apply, read |-> t.read]
    BY TablesDef DEF Table
  <1>6. QED  BY <1>1, <1>2, <1>3, <1>4, <1>5 DEF TableOK

\* The tables of every kind.
LEMMA TablesOK == \A k \in Kinds : TableOK(Tables[k])
  BY TablesDef, MonitorsOK, MaintenanceOK, PageOK, IncidentOK, ProxyOK, DockerHostOK,
     RemoteBrowserOK, TagOK, APIKeyOK, NotificationOK, SettingsOK DEF Others

-----------------------------------------------------------------------------
(* One attribute of one kind.                                              *)

\* Who gives its value, and that what may be left open is read back.
LEMMA SchemaFacts ==
    ASSUME NEW k \in Kinds, NEW a \in DOMAIN Tables[k].schema
    PROVE  /\ SchemaOf(k, a) \in SchemaEntry
           /\ SchemaOf(k, a).class = "both" => IsRead(k, a)
           /\ SchemaOf(k, a).class = "optional" => IsRead(k, a) \/ a = "apply_existing"
           /\ SchemaOf(k, a).class = "computed" => a = "key"
  BY TablesOK DEF TableOK, All, Covered, SchemaOf, IsRead

\* What is sent is absent, or can stand in a column.
LEMMA SentType ==
    ASSUME NEW k \in Kinds, NEW a \in DOMAIN Tables[k].schema, a # "pinned",
           NEW v \in Values
    PROVE  Sent(k, a, v) \in Columns \cup {Absent}
  <1>1. At(Tables[k].apply, a, v) \in Columns
    <2>1. a \in DOMAIN Tables[k].apply
      BY TablesOK DEF TableOK, Covered
    <2>2. Tables[k].apply[a] \in [Values -> Columns]
      BY <2>1, TablesOK DEF TableOK, All, ApplyEntry
    <2>3. QED  BY <2>1, <2>2 DEF At
  <1>2. ASSUME NEW w \in Columns PROVE Normalized(k, a, w) \in Columns
    <2>1. All(NormalizeMonitor, NormalEntry)
      BY EachDef, MergeAll, Conversions DEF NormalizeMonitor
    <2>2. All(NormalizeMaintenance, NormalEntry)
      BY EachDef, MergeAll, Conversions DEF NormalizeMaintenance
    <2>3. All(normalizeStatusPage, NormalEntry)
      BY EachDef, MergeAll, Conversions DEF normalizeStatusPage
    <2>4. QED  BY <2>1, <2>2, <2>3 DEF Normalized, At, All, NormalEntry
  <1>3. QED  BY <1>1, <1>2 DEF Sent

\* What the server stores can stand in a column.
LEMMA StoredType ==
    ASSUME NEW k \in Kinds, NEW a \in DOMAIN Tables[k].schema
    PROVE  /\ ColumnDefault(k, a) \in Columns
           /\ \A v \in Values : a # "pinned" => /\ StoredByCreate(k, a, v) \in Columns
                                                /\ StoredByEdit(k, a, v) \in Columns
  <1>1. ColumnDefault(k, a) \in Columns
    BY DEF ColumnDefault, Columns, Known
  <1>2. QED
    BY <1>1, SentType DEF StoredByCreate, StoredByEdit, Columns, Known

\* What is read back can stand in the state, and is null for an empty column only.
LEMMA ReadType ==
    ASSUME NEW k \in Kinds, NEW a, IsRead(k, a), NEW c \in Columns
    PROVE  /\ ReadBack(k, a, c) \in Columns
           /\ ReadBack(k, a, c) = Null => c \in {Null, Zero}
  <1>1. Tables[k].read[a] \in ReadEntry
    BY TablesOK DEF TableOK, All, IsRead
  <1>2. QED  BY <1>1 DEF ReadEntry, NormalEntry, ReadBack

\* The attributes that Resources names belong to one kind each.
LEMMA KindOfAttribute ==
    ASSUME NEW k \in Kinds, NEW a \in DOMAIN Tables[k].schema
    PROVE  /\ a = "slug" => k = "status_page"
           /\ a = "key" => k = "api_key"
           /\ a = "pinned" => k = "status_page_incident"
           /\ a = "apply_existing" => k \in {"proxy", "notification"}
  <1> DEFINE Own4 == {"slug", "key", "pinned", "apply_existing"}
  <1>1. \A n \in Own4 : n \notin DOMAIN BaseSchema /\ n \notin DOMAIN httpAttributes
    BY InMerge, InEach DEF BaseSchema, httpAttributes, HTTPText, HTTPOffFlags
  <1>2. ASSUME NEW m \in Monitors, NEW n \in Own4 PROVE n \notin DOMAIN MonitorTypes[m].schema
    <2>1. CASE m \in {"monitor_http", "monitor_keyword", "monitor_json_query"}
      <3>1. n \notin DOMAIN Keyword.schema /\ n \notin DOMAIN JSONQuery.schema
        BY InMerge, InEach DEF Keyword, JSONQuery
      <3>2. QED  BY <1>1, <2>1, <3>1, InMerge DEF MonitorTypes, And, HTTP
    <2>2. CASE m \in {"monitor_ping", "monitor_port"}
      BY <2>2, InMerge, InEach DEF MonitorTypes, Ping, Port
    <2>3. CASE m \in {"monitor_dns", "monitor_docker", "monitor_push", "monitor_group"}
      BY <2>3, InMerge, InEach DEF MonitorTypes, DNS, Docker, Push
    <2>4. QED  BY <2>1, <2>2, <2>3, TablesDef
  <1>3. CASE k \in Monitors
    <2>1. Tables[k].schema = BaseSchema ++ MonitorTypes[k].schema
      BY <1>3, TablesDef DEF And, Base
    <2>2. QED  BY <1>1, <1>2, <1>3, <2>1, InMerge
  <1>4. CASE k = "maintenance"
    BY <1>4, TablesDef, InMerge, InEach DEF Table, MaintenanceSchema, Times, Associations
  <1>5. CASE k = "status_page"
    BY <1>5, TablesDef, InMerge, InEach DEF Table, PageSchema, PageTexts, PageFlags
  <1>6. CASE k \in {"status_page_incident", "api_key"}
    BY <1>6, TablesDef, InMerge, InEach DEF Table, IncidentSchema, APIKeySchema
  <1>7. CASE k \in {"proxy", "notification", "settings"}
    BY <1>7, TablesDef, InMerge, InEach
       DEF Table, ProxySchema, NotificationSchema, SettingsSchema
  <1>8. CASE k \in {"docker_host", "remote_browser", "tag"}
    BY <1>8, TablesDef, InMerge, InEach
       DEF Table, DockerHostSchema, RemoteBrowserSchema, TagSchema
  <1>9. QED  BY <1>3, <1>4, <1>5, <1>6, <1>7, <1>8, TablesDef DEF Others

\* A slug is stored and read back as it is.
LEMMA SlugTable ==
    /\ "slug" \in DOMAIN Tables["status_page"].schema
    /\ SchemaOf("status_page", "slug") = Required(Positive)
    /\ \A v \in Positive : /\ StoredByCreate("status_page", "slug", v) = v
                           /\ StoredByEdit("status_page", "slug", v) = v
                           /\ ReadBack("status_page", "slug", v) = v
  <1>1. /\ "slug" \in DOMAIN PageSchema /\ PageSchema["slug"] = Required(Positive)
    BY DEF PageSchema, ++, Each
  <1>2. /\ "slug" \in DOMAIN (PageConfig ++ PageGroups ++ PageIcon)
        /\ (PageConfig ++ PageGroups ++ PageIcon)["slug"] = ValueOf
    BY DEF PageConfig, PageGroups, PageIcon, ++, Each
  <1>3. "slug" \in DOMAIN PageReadInto /\ PageReadInto["slug"] = Plain
    BY DEF PageReadInto, ++, Each
  <1>4. "slug" \notin DOMAIN normalizeStatusPage
    BY InMerge, InEach DEF normalizeStatusPage
  <1>5. Omitted("status_page", "slug") \subseteq {Null}
    BY TablesDef DEF Omitted, Others, PageOmitted, PageFlags, ++, Each
  <1>6. ASSUME NEW v \in Positive
        PROVE  Sent("status_page", "slug", v) = v
    <2>1. ValueOf[v] = v /\ v \in {One, Two}
      BY DEF ValueOf, OrElse, IsSet, Positive, Values, Columns, Known, Null, Unknown, One, Two
    <2>2. At(Tables["status_page"].apply, "slug", v) = v
      BY <1>2, <2>1, TablesDef DEF At, Table
    <2>3. Normalized("status_page", "slug", v) = v
      BY <1>4, TablesDef DEF Normalized, At, Others
    <2>4. QED  BY <1>5, <2>1, <2>2, <2>3 DEF Sent, Null, One, Two
  <1>7. ASSUME NEW v \in Positive
        PROVE  /\ StoredByCreate("status_page", "slug", v) = v
               /\ StoredByEdit("status_page", "slug", v) = v
    BY <1>6 DEF StoredByCreate, StoredByEdit, Positive, One, Two, Absent
  <1>8. ASSUME NEW v \in Positive PROVE ReadBack("status_page", "slug", v) = v
    BY <1>3, TablesDef DEF ReadBack, Table, Plain, NullAs, Positive, Columns, Known, Null, One, Two
  <1>9. QED  BY <1>1, <1>7, <1>8, TablesDef DEF SchemaOf, Table

\* The clear text of a key is never read back, and nothing a user may write.
LEMMA KeyTable ==
    /\ ~IsRead("api_key", "key")
    /\ SchemaOf("api_key", "key") = Sticky(Entry("computed", {}))
  BY TablesDef DEF IsRead, SchemaOf, Table, APIKeySchema, APIKeyReadInto, ++, Each

\* Every attribute of a page and of an incident is read back.
LEMMA PagesAreRead ==
    ASSUME NEW k \in {"status_page", "status_page_incident"},
           NEW a \in DOMAIN Tables[k].schema
    PROVE  IsRead(k, a)
  <1>1. CASE k = "status_page"
    BY <1>1, TablesDef, InMerge, InEach
       DEF Table, IsRead, PageSchema, PageReadInto, PageTexts, PageFlags
  <1>2. CASE k = "status_page_incident"
    BY <1>2, TablesDef, InMerge, InEach DEF Table, IsRead, IncidentSchema, IncidentReadInto
  <1>3. QED  BY <1>1, <1>2

\* The attributes of a tag and of a remote browser are stored as they are.
LEMMA PlainTables ==
    ASSUME NEW k \in {"tag", "remote_browser"}, NEW a \in DOMAIN Tables[k].schema
    PROVE  /\ SchemaOf(k, a) = Required(Free)
           /\ \A v \in Free : /\ ReadBack(k, a, StoredByCreate(k, a, v)) = v
                              /\ ReadBack(k, a, StoredByEdit(k, a, v)) = v
  <1>1. /\ a \in DOMAIN Tables[k].apply /\ Tables[k].apply[a] = ValueOf
        /\ Tables[k].read[a] = Plain /\ Tables[k].schema[a] = Required(Free)
        /\ a \in {"name", "color", "url"}
    BY TablesDef DEF Table, TagSchema, RemoteBrowserSchema, Each
  <1>2. Omitted(k, a) = {} /\ \A w : Normalized(k, a, w) = w
    BY TablesDef DEF Omitted, Normalized, Others
  <1>3. ASSUME NEW v \in Free PROVE Sent(k, a, v) = v
    BY <1>1, <1>2 DEF Sent, At, ValueOf, OrElse, IsSet, Free, Values, Columns, Known,
         Null, Unknown, Zero, One, Two
  <1>4. ASSUME NEW v \in Free PROVE StoredByCreate(k, a, v) = v /\ StoredByEdit(k, a, v) = v
    BY <1>1, <1>3 DEF StoredByCreate, StoredByEdit, Free, Zero, One, Two, Absent
  <1>5. ASSUME NEW v \in Free PROVE ReadBack(k, a, v) = v
    BY <1>1 DEF ReadBack, Plain, NullAs, Free, Columns, Known, Null, Zero, One, Two
  <1>6. QED  BY <1>1, <1>4, <1>5 DEF SchemaOf

\* The name of a key is stored as it is, and so is its expiry, an empty one
\* excepted; a change of either replaces the key.
LEMMA APIKeyTables ==
    ASSUME NEW a \in {"name", "expires"}
    PROVE  /\ SchemaOf("api_key", a).replace
           /\ SchemaOf("api_key", a).class = IF a = "name" THEN "required" ELSE "optional"
           /\ SchemaOf("api_key", a).domain = Free
           /\ \A v \in Free \cup {Null} :
                a = "expires" \/ v # Null =>
                  \/ ReadBack("api_key", a, StoredByCreate("api_key", a, v)) = v
                  \/ v = Zero
  <1>1. /\ a \in DOMAIN Tables["api_key"].apply
        /\ Tables["api_key"].apply[a] = IF a = "name" THEN ValueOf ELSE Ptr
        /\ Tables["api_key"].read[a] = IF a = "name" THEN Plain ELSE OptionalString
        /\ Tables["api_key"].schema[a]
             = IF a = "name" THEN Replaces(Required(Free)) ELSE Replaces(Optional(Free))
    BY TablesDef DEF Table, APIKeySchema, APIKeyWire, APIKeyReadInto, ++, Each
  <1>2. Omitted("api_key", a) = {} /\ \A w : Normalized("api_key", a, w) = w
    BY TablesDef DEF Omitted, Normalized, Others
  <1>3. ASSUME NEW v \in Free \cup {Null}, a = "expires" \/ v # Null
        PROVE  Sent("api_key", a, v) = v
    BY <1>1, <1>2, <1>3 DEF Sent, At, ValueOf, Ptr, OrElse, IsSet, Free, Values, Columns,
         Known, Null, Unknown, Zero, One, Two
  <1>4. ASSUME NEW v \in Free \cup {Null}, a = "expires" \/ v # Null
        PROVE  StoredByCreate("api_key", a, v) = v
    BY <1>3, <1>4 DEF StoredByCreate, Free, Null, Zero, One, Two, Absent
  <1>5. ASSUME NEW v \in Free \cup {Null}, a = "expires" \/ v # Null
        PROVE  ReadBack("api_key", a, v) = v \/ v = Zero
    BY <1>1, <1>5 DEF ReadBack, Plain, OptionalString, NullAs, EmptyAs, Free, Columns,
         Known, Null, Zero, One, Two
  <1>6. QED
    BY <1>1, <1>4, <1>5 DEF SchemaOf, Replaces, Required, Optional, Entry

\* apply_existing is not read back; when it is not set, it is stored as empty.
LEMMA ApplyExistingUnread ==
    ASSUME NEW k \in {"proxy", "notification"}
    PROVE  ~IsRead(k, "apply_existing")
  BY TablesDef, InMerge, InEach DEF Table, IsRead, ProxyReadInto, NotificationReadInto

LEMMA ApplyExistingTable ==
    ASSUME NEW k \in {"proxy", "notification"}
    PROVE  /\ StoredByCreate(k, "apply_existing", Null) \in {Null, Zero}
           /\ StoredByEdit(k, "apply_existing", Null) \in {Null, Zero}
  <1>1. /\ "apply_existing" \in DOMAIN Tables[k].apply
        /\ Tables[k].apply["apply_existing"] = ValueOf
        /\ ~IsRead(k, "apply_existing")
    BY TablesDef DEF Table, IsRead, ProxyWire, ProxyReadInto, NotificationPayload,
         NotificationSchema, NotificationReadInto, ++, Each
  <1>2. Omitted(k, "apply_existing") = {} /\ \A w : Normalized(k, "apply_existing", w) = w
    BY TablesDef DEF Omitted, Normalized, Others
  <1>3. Sent(k, "apply_existing", Null) = Zero
    BY <1>1, <1>2 DEF Sent, At, ValueOf, OrElse, IsSet, Values, Columns, Known,
         Null, Unknown, Zero, One, Two
  <1>4. QED  BY <1>3 DEF StoredByCreate, StoredByEdit, Null, Zero, Two, Absent

=============================================================================
