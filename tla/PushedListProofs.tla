--------------------------- MODULE PushedListProofs ---------------------------
(***************************************************************************)
(* Proofs about PushedList, for any set of goroutines and any bounds.  The *)
(* inductive invariant Inv says which operation stands at which label, who *)
(* owns a row that is being created, and that the snapshots on their way   *)
(* to the cache show such a row from some point on.                        *)
(***************************************************************************)
EXTENDS PushedList, TLAPS

ReadPcs == {"ensure", "force", "recheck", "last", "get"}
WaitPcs == {"ready", "has", "wait", "push"}

\* g reads a row back, or asks for the list to do so.
Reading(g) == pc[g] \in ReadPcs \/ request[g] = "list" \/ resume[g] = "recheck"

\* Which operation stands at which label.
Flow(g) ==
    /\ pc[g] = "idle" =>
          op[g] = NoOp /\ settled[g] = "no" /\ request[g] = "write"
                       /\ resume[g] = "recall"
    /\ pc[g] # "idle" => op[g].kind # "none"
    /\ pc[g] = "ready" => op[g].kind = "create"
    /\ pc[g] \in {"has", "wait"} => op[g].kind \in {"create", "delete"}
    /\ pc[g] = "push" => op[g].kind = "update"
    /\ pc[g] \in WaitPcs => ~Reading(g)
    /\ resume[g] = "recheck" => pc[g] \in Dialing \cup {"session", "recheck", "last", "get"}
    /\ op[g].kind = "read" => settled[g] = "no" /\ Reading(g)
    /\ op[g].kind \in Writes => (settled[g] # "no" <=> Reading(g))
    /\ settled[g] # "no" => op[g].kind \in {"create", "update"}

\* An operation knows its row; a create, once the server has made it.
Row(g) ==
    /\ op[g].kind \in {"update", "delete", "read"} => op[g].id \in Ids
    /\ op[g].kind = "create" => op[g].version # 0
    /\ op[g].kind = "create" /\ (pc[g] \in {"answered", "ready", "has", "wait"}
                                 \/ settled[g] # "no") => op[g].id \in Ids

FlowInv == \A g \in Callers : Flow(g) /\ Row(g)

\* Nothing knows a row the server has not made yet.
FreshInv ==
    /\ state \subseteq 1..lastId
    /\ \A g \in Callers : op[g].id <= lastId
    /\ \A i \in Ids : i > lastId =>
          /\ rows[i] = 0 /\ items[i] = 0
          /\ running # <<>> => running[1][i] = 0
          /\ \A k \in 1..Len(wire) : wire[k][i] = 0

\* Once a snapshot shows row i, so do those behind it.
ShownFromOn(i) ==
    /\ running # <<>> /\ items[i] # 0 => running[1][i] # 0
    /\ items[i] # 0 => \A k \in 1..Len(wire) : wire[k][i] # 0
    /\ running # <<>> /\ running[1][i] # 0 =>
          \A k \in 1..Len(wire) : wire[k][i] # 0
    /\ \A k, l \in 1..Len(wire) : k < l /\ wire[k][i] # 0 => wire[l][i] # 0

\* A row that is being created is nobody else's, and stays.
Own(g) ==
    op[g].kind = "create" /\ op[g].id # 0 =>
        /\ op[g].id \notin state
        /\ \A h \in Callers \ {g} : op[h].id # op[g].id
        /\ rows[op[g].id] # 0
        /\ ShownFromOn(op[g].id)

OwnInv == \A g \in Callers : Own(g)

\* A create that saw its row still has it in the list.
SeenInv ==
    \A g \in Callers :
        op[g].kind = "create" /\ settled[g] = "row" /\ quiet[g]
            => items[op[g].id] # 0

Inv == TypeOK /\ FlowInv /\ FreshInv /\ OwnInv /\ SeenInv /\ NoLostWakeup

-----------------------------------------------------------------------------
(* What the steps share.                                                   *)

\* The wire as a queue of snapshots.
LEMMA PushedWire ==
    ASSUME NEW S, NEW w \in Seq(S), NEW r \in S
    PROVE  /\ Append(w, r) \in Seq(S) /\ Len(Append(w, r)) = Len(w) + 1
           /\ \A k \in 1..Len(w) : Append(w, r)[k] = w[k]
           /\ Append(w, r)[Len(w) + 1] = r
    OBVIOUS

LEMMA TakenWire ==
    ASSUME NEW S, NEW w \in Seq(S), w # <<>>
    PROVE  /\ Tail(w) \in Seq(S) /\ Len(Tail(w)) = Len(w) - 1 /\ Len(w) > 0
           /\ Head(w) = w[1] /\ w[1] \in S
           /\ \A k \in 1..Len(Tail(w)) : Tail(w)[k] = w[k + 1]
    OBVIOUS

LEMMA CutWire ==
    ASSUME NEW S, NEW w \in Seq(S), NEW n \in 0..Len(w)
    PROVE  /\ SubSeq(w, 1, n) \in Seq(S) /\ Len(SubSeq(w, 1, n)) = n
           /\ \A k \in 1..n : SubSeq(w, 1, n)[k] = w[k]
    OBVIOUS

\* The parts of TypeOK that concern the locals of the goroutines.
LocalTypes ==
    /\ pc \in [Callers -> Pcs]
    /\ op \in [Callers -> [kind : Writes \cup {"read", "none"}, id : 0..MaxRows,
                           version : 0..MaxVersion]]
    /\ request \in [Callers -> {"write", "list"}]
    /\ resume \in [Callers -> {"recall", "recheck"}]
    /\ closed \in [Callers -> BOOLEAN]
    /\ settled \in [Callers -> {"no", "row", "unloaded", "push", "timeout"}]
    /\ quiet \in [Callers -> BOOLEAN]

\* The end of an operation leaves nothing of it behind.
LEMMA ReturnStep ==
    ASSUME Inv, NEW g \in Callers, Return(g)
    PROVE  /\ LocalTypes'
           /\ \A h \in Callers : Flow(h)' /\ Row(h)'
           /\ op' = [op EXCEPT ![g] = NoOp]
           /\ \A h \in Callers : (op[h].kind = "create" /\ settled[h] = "row"
                                     /\ quiet[h])' => h # g
  <1> USE DEF Inv, TypeOK
  <1>1. NoOp \in [kind : Writes \cup {"read", "none"}, id : 0..MaxRows,
                  version : 0..MaxVersion]
    BY ListAssumption DEF NoOp
  <1>2. LocalTypes'
    BY <1>1 DEF Return, Goto, LocalTypes, Pcs
  <1>3. ASSUME NEW h \in Callers PROVE Flow(h)' /\ Row(h)'
    <2>1. CASE h = g
      BY <2>1 DEF Return, Goto, Flow, Row, NoOp, Reading, ReadPcs, WaitPcs, Writes
    <2>2. CASE h # g
      BY <2>2 DEF Return, Goto, Flow, Row, FlowInv, Reading
    <2> QED
      BY <2>1, <2>2
  <1> QED
    BY <1>2, <1>3 DEF Return, NoOp

\* A step that leaves the rows and the running handler alone, empties the list
\* at most, drops the end of what is on its way at most, and ends an operation at
\* most.
LEMMA DropFrame ==
    ASSUME Inv, UNCHANGED <<rows, lastId, running>>,
           items' = items \/ items' = NoRows,
           Len(wire') \in 0..Len(wire), \A k \in 1..Len(wire') : wire'[k] = wire[k],
           state' \subseteq state,
           op' = op \/ \E g \in Callers : op' = [op EXCEPT ![g] = NoOp]
    PROVE  FreshInv' /\ OwnInv'
  <1> USE DEF Inv, TypeOK
  <1>1. \A g \in Callers : op'[g] = op[g] \/ op'[g] = NoOp
    OBVIOUS
  <1>2. \A i \in Ids : items'[i] \in {items[i], 0}
    BY DEF NoRows
  <1>3. Len(wire) \in Nat /\ Len(wire') \in Nat /\ Len(wire') <= Len(wire)
    OBVIOUS
  <1>4. FreshInv'
    <2>1. \A g \in Callers : op'[g].id <= lastId'
      BY <1>1 DEF FreshInv, NoOp
    <2>2. state' \subseteq 1..lastId'
      BY DEF FreshInv
    <2>3. ASSUME NEW i \in Ids, i > lastId
          PROVE  items'[i] = 0 /\ \A k \in 1..Len(wire') : wire'[k][i] = 0
      BY <1>2, <1>3, <2>3 DEF FreshInv
    <2> QED
      BY <2>1, <2>2, <2>3 DEF FreshInv
  <1>5. OwnInv'
    <2> SUFFICES ASSUME NEW g \in Callers, op'[g].kind = "create", op'[g].id # 0
                 PROVE  Own(g)'
      BY DEF OwnInv, Own
    <2>1. op'[g] = op[g] /\ Own(g)
      BY <1>1 DEF OwnInv, NoOp
    <2>2. \A h \in Callers : op'[h].id \in {op[h].id, 0}
      BY <1>1 DEF NoOp
    <2>3. ShownFromOn(op[g].id)'
      <3>1. PICK i \in Ids : i = op[g].id /\ ShownFromOn(i)
        BY <2>1 DEF Own, Ids
      <3>2. \A k \in 1..Len(wire') : k \in 1..Len(wire) /\ wire'[k][i] = wire[k][i]
        BY <1>3
      <3>3. ShownFromOn(i)'
        BY <1>2, <3>1, <3>2 DEF ShownFromOn
      <3> QED
        BY <2>1, <3>1, <3>3
    <2> QED
      BY <2>1, <2>2, <2>3 DEF Own
  <1> QED
    BY <1>4, <1>5

\* The same, with the list and what is on its way as they were.
LEMMA TableFrame ==
    ASSUME Inv, UNCHANGED <<rows, lastId, running, items, wire>>,
           state' \subseteq state,
           op' = op \/ \E g \in Callers : op' = [op EXCEPT ![g] = NoOp]
    PROVE  FreshInv' /\ OwnInv'
  <1>1. Len(wire') \in 0..Len(wire) /\ \A k \in 1..Len(wire') : wire'[k] = wire[k]
    BY DEF Inv, TypeOK
  <1> QED
    BY <1>1, DropFrame

\* A snapshot that shows row i may follow the others.
LEMMA PushShows ==
    ASSUME Inv, NEW i \in Ids, rows' \in Snapshots, wire' = Append(wire, rows'),
           UNCHANGED <<running, items>>, ShownFromOn(i), rows'[i] # 0
    PROVE  ShownFromOn(i)'
  <1>1. /\ wire \in Seq(Snapshots) /\ Len(wire) \in Nat
        /\ Len(wire') = Len(wire) + 1 /\ wire'[Len(wire) + 1] = rows'
        /\ \A k \in 1..Len(wire) : wire'[k] = wire[k]
    BY PushedWire DEF Inv, TypeOK
  <1>2. \A k \in 1..Len(wire') : IF k = Len(wire) + 1 THEN wire'[k][i] # 0
                                 ELSE k \in 1..Len(wire) /\ wire'[k][i] = wire[k][i]
    BY <1>1
  <1> QED
    BY <1>1, <1>2 DEF ShownFromOn




-----------------------------------------------------------------------------
(* Every step keeps Inv.                                                   *)

\* An operation begins: a create has no row yet, the others one of the state's.
LEMMA BeginStep ==
    ASSUME Inv, NEW g \in Callers, NEW kind \in Writes \cup {"read"},
           NEW i \in 0..MaxRows, NEW version \in 0..MaxVersion,
           IF kind = "create" THEN i = 0 /\ version # 0 ELSE i \in state,
           Begin(g, kind, i, version, IF kind = "read" THEN "ensure" ELSE "call")
    PROVE  Inv'
  <1> USE DEF Inv
  <1>1. TypeOK'
    BY DEF TypeOK, Pcs, Begin, Goto, server, cache, link
  <1>2. FlowInv'
    <2> SUFFICES ASSUME NEW h \in Callers PROVE Flow(h)' /\ Row(h)'
      BY DEF FlowInv
    <2>1. CASE h = g
      BY <2>1 DEF TypeOK, FlowInv, Flow, Row, Reading, ReadPcs, WaitPcs, Writes,
         Dialing, Begin, Goto
    <2>2. CASE h # g
      BY <2>2 DEF TypeOK, FlowInv, Flow, Row, Reading, Begin, Goto
    <2> QED
      BY <2>1, <2>2
  <1>3. FreshInv'
    BY DEF TypeOK, FreshInv, Begin, Goto, server, cache, link
  <1>4. OwnInv'
    <2> SUFFICES ASSUME NEW h \in Callers, op'[h].kind = "create", op'[h].id # 0
                 PROVE  Own(h)'
      BY DEF OwnInv, Own
    <2>1. h # g /\ op'[h] = op[h] /\ Own(h)
      BY DEF TypeOK, OwnInv, Begin
    <2>2. op'[g].id # op[h].id
      BY <2>1 DEF TypeOK, Begin, Own
    <2> QED
      BY <2>1, <2>2 DEF TypeOK, Own, ShownFromOn, Begin, Goto, server, cache, link
  <1>5. SeenInv' /\ NoLostWakeup'
    <2>1. settled[g] = "no"
      BY DEF FlowInv, Flow, Begin
    <2> QED
      BY <2>1 DEF TypeOK, SeenInv, NoLostWakeup, Shown, Begin, Goto, server, cache, link
  <1> QED
    BY <1>1, <1>2, <1>3, <1>4, <1>5

\* An operation starts.
LEMMA StartStep ==
    ASSUME Inv, NEW g \in Callers, Start(g)
    PROVE  Inv'
  <1>1. state \subseteq 0..MaxRows /\ 1 \in 0..MaxVersion
    BY ListAssumption DEF Inv, TypeOK, Ids
  <1>2. CASE StartCreate(g)
    BY <1>1, <1>2, BeginStep, ListAssumption DEF StartCreate, Writes
  <1>3. CASE StartUpdate(g)
    <2> PICK i \in state : /\ rows[i] \in 1..(MaxVersion - 1)
                          /\ Begin(g, "update", i, rows[i] + 1, "call")
      BY <1>3 DEF StartUpdate
    <2>1. rows[i] + 1 \in 0..MaxVersion
      BY ListAssumption
    <2> QED
      BY <1>1, <2>1, BeginStep DEF Writes
  <1>4. CASE StartDelete(g)
    BY <1>1, <1>4, BeginStep, ListAssumption DEF StartDelete, Writes
  <1>5. CASE StartRead(g)
    BY <1>1, <1>5, BeginStep, ListAssumption DEF StartRead, Writes
  <1> QED
    BY <1>2, <1>3, <1>4, <1>5 DEF Start

\* A call is emitted.
LEMMA EmitStep ==
    ASSUME Inv, NEW g \in Callers, Emit(g)
    PROVE  Inv'
  <1> USE DEF Inv
  <1>1. TypeOK'
    BY DEF TypeOK, Pcs, Dialing, InFlight, Emit, server, cache, link, locals,
       Goto
  <1>2. FlowInv'
    BY DEF TypeOK, FlowInv, Flow, Row, Reading, ReadPcs, WaitPcs, Writes,
       Dialing, InFlight, Emit, server, cache, link, locals, Goto
  <1>3. FreshInv' /\ OwnInv'
    BY TableFrame DEF TypeOK, Emit, server, cache, link, locals, Goto
  <1>4. SeenInv'
    BY DEF SeenInv, TypeOK, Emit, server, cache, link, locals, Goto
  <1>5. NoLostWakeup'
    BY DEF NoLostWakeup, Shown, TypeOK, Emit, server, cache, link, locals,
       Goto
  <1> QED
    BY <1>1, <1>2, <1>3, <1>4, <1>5

\* A call finds the session broken.
LEMMA NeedSessionStep ==
    ASSUME Inv, NEW g \in Callers, NeedSession(g)
    PROVE  Inv'
  <1> USE DEF Inv
  <1>1. TypeOK'
    BY DEF TypeOK, Pcs, Dialing, InFlight, NeedSession, server, cache, link,
       Goto
  <1>2. FlowInv'
    BY DEF TypeOK, FlowInv, Flow, Row, Reading, ReadPcs, WaitPcs, Writes,
       Dialing, InFlight, NeedSession, server, cache, link, Goto
  <1>3. FreshInv' /\ OwnInv'
    BY TableFrame DEF TypeOK, NeedSession, server, cache, link, Goto
  <1>4. SeenInv'
    BY DEF SeenInv, TypeOK, NeedSession, server, cache, link, Goto
  <1>5. NoLostWakeup'
    BY DEF NoLostWakeup, Shown, TypeOK, NeedSession, server, cache, link,
       Goto
  <1> QED
    BY <1>1, <1>2, <1>3, <1>4, <1>5

\* The list is asked for unless it is loaded.
LEMMA EnsureStep ==
    ASSUME Inv, NEW g \in Callers, Ensure(g)
    PROVE  Inv'
  <1> USE DEF Inv
  <1>1. TypeOK'
    BY DEF TypeOK, Pcs, Dialing, InFlight, Ensure, server, cache, link, Goto
  <1>2. FlowInv'
    BY DEF TypeOK, FlowInv, Flow, Row, Reading, ReadPcs, WaitPcs, Writes,
       Dialing, InFlight, Ensure, server, cache, link, Goto
  <1>3. FreshInv' /\ OwnInv'
    BY TableFrame DEF TypeOK, Ensure, server, cache, link, Goto
  <1>4. SeenInv'
    BY DEF SeenInv, TypeOK, Ensure, server, cache, link, Goto
  <1>5. NoLostWakeup'
    BY DEF NoLostWakeup, Shown, TypeOK, Ensure, server, cache, link, Goto
  <1> QED
    BY <1>1, <1>2, <1>3, <1>4, <1>5

\* The session is dropped for its lists.
LEMMA ForceReloadStep ==
    ASSUME Inv, NEW g \in Callers, ForceReload(g)
    PROVE  Inv'
  <1> USE DEF Inv
  <1>1. TypeOK'
    BY DEF TypeOK, Pcs, Dialing, InFlight, ForceReload, server, cache, Goto
  <1>2. FlowInv'
    BY DEF TypeOK, FlowInv, Flow, Row, Reading, ReadPcs, WaitPcs, Writes,
       Dialing, InFlight, ForceReload, server, cache, Goto
  <1>3. FreshInv' /\ OwnInv'
    BY TableFrame DEF TypeOK, ForceReload, server, cache, Goto
  <1>4. SeenInv'
    BY DEF SeenInv, TypeOK, ForceReload, server, cache, Goto
  <1>5. NoLostWakeup'
    BY DEF NoLostWakeup, Shown, TypeOK, ForceReload, server, cache, Goto
  <1> QED
    BY <1>1, <1>2, <1>3, <1>4, <1>5

\* The list is looked at again.
LEMMA RecheckStep ==
    ASSUME Inv, NEW g \in Callers, Recheck(g)
    PROVE  Inv'
  <1> USE DEF Inv
  <1>1. TypeOK'
    BY DEF TypeOK, Pcs, Dialing, InFlight, Recheck, Goto, Look, server,
       cache, link, locals
  <1>2. FlowInv'
    BY DEF TypeOK, FlowInv, Flow, Row, Reading, ReadPcs, WaitPcs, Writes,
       Dialing, InFlight, Recheck, Goto, Look, server, cache, link, locals
  <1>3. FreshInv' /\ OwnInv'
    BY TableFrame DEF TypeOK, Recheck, Goto, Look, server, cache, link,
       locals
  <1>4. SeenInv'
    BY DEF SeenInv, TypeOK, Recheck, Goto, Look, server, cache, link, locals
  <1>5. NoLostWakeup'
    BY DEF NoLostWakeup, Shown, TypeOK, Recheck, Goto, Look, server, cache,
       link, locals
  <1> QED
    BY <1>1, <1>2, <1>3, <1>4, <1>5

\* The new session is up.
LEMMA LoggedInStep ==
    ASSUME Inv, NEW g \in Callers, LoggedIn(g)
    PROVE  Inv'
  <1> USE DEF Inv
  <1>1. TypeOK'
    BY DEF TypeOK, Pcs, Dialing, InFlight, LoggedIn, server, cache, locals,
       Goto
  <1>2. FlowInv'
    BY DEF TypeOK, FlowInv, Flow, Row, Reading, ReadPcs, WaitPcs, Writes,
       Dialing, InFlight, LoggedIn, server, cache, locals, Goto
  <1>3. FreshInv' /\ OwnInv'
    BY TableFrame DEF TypeOK, LoggedIn, server, cache, locals, Goto
  <1>4. SeenInv'
    BY DEF SeenInv, TypeOK, LoggedIn, server, cache, locals, Goto
  <1>5. NoLostWakeup'
    BY DEF NoLostWakeup, Shown, TypeOK, LoggedIn, server, cache, locals, Goto
  <1> QED
    BY <1>1, <1>2, <1>3, <1>4, <1>5

\* A call is acknowledged.
LEMMA AckStep ==
    ASSUME Inv, NEW g \in Callers, Ack(g)
    PROVE  Inv'
  <1> USE DEF Inv
  <1>1. TypeOK'
    BY DEF TypeOK, Pcs, Dialing, InFlight, Ack, AfterAck, AtReady, server,
       cache, link, locals, Goto
  <1>2. FlowInv'
    <2> SUFFICES ASSUME NEW h \in Callers PROVE Flow(h)' /\ Row(h)'
      BY DEF FlowInv
    <2>1. CASE h # g
      BY <2>1 DEF TypeOK, FlowInv, Flow, Row, Reading, Ack, Goto, locals
    <2>2. CASE h = g /\ request[g] = "list"
      <3>1. pc'[g] = "recheck"
        BY <2>2 DEF TypeOK, Ack, Goto, AfterAck
      <3> QED
        BY <2>2, <3>1 DEF TypeOK, FlowInv, Flow, Row, Reading, ReadPcs, WaitPcs,
           Writes, Ack, locals
    <2>3. CASE h = g /\ request[g] = "write"
      <3>1. op[g].kind \in Writes /\ settled[g] = "no" /\ resume[g] = "recall"
        BY <2>3 DEF TypeOK, FlowInv, Flow, Reading, ReadPcs, Writes, Dialing, Ack
      <3>2. pc'[g] = IF op[g].kind = "update" THEN "push"
                     ELSE IF op[g].kind = "create" THEN "ready" ELSE "has"
        BY <2>3, <3>1 DEF TypeOK, Writes, Ack, Goto, AfterAck, AtReady
      <3> QED
        BY <2>3, <3>1, <3>2 DEF TypeOK, FlowInv, Flow, Row, Reading, ReadPcs,
           WaitPcs, Writes, Dialing, Ack, locals
    <2> QED
      BY <2>1, <2>2, <2>3 DEF TypeOK
  <1>3. FreshInv' /\ OwnInv'
    BY TableFrame DEF TypeOK, Ack, AfterAck, AtReady, server, cache, link,
       locals, Goto
  <1>4. SeenInv'
    BY DEF SeenInv, TypeOK, Ack, AfterAck, AtReady, server, cache, link,
       locals, Goto
  <1>5. NoLostWakeup'
    BY DEF NoLostWakeup, Shown, TypeOK, Ack, AfterAck, AtReady, server,
       cache, link, locals, Goto
  <1> QED
    BY <1>1, <1>2, <1>3, <1>4, <1>5

\* The session is lost again before the second pass.
LEMMA NotConnectedStep ==
    ASSUME Inv, NEW g \in Callers, NotConnected(g)
    PROVE  Inv'
  <1> USE DEF Inv
  <1>1. TypeOK'
    BY ReturnStep DEF TypeOK, LocalTypes, NotConnected, server, cache, link
  <1>2. FlowInv'
    BY ReturnStep DEF FlowInv, NotConnected, server, cache, link
  <1>3. FreshInv' /\ OwnInv'
    BY TableFrame, ReturnStep DEF TypeOK, NotConnected, server, cache, link
  <1>4. SeenInv'
    BY ReturnStep DEF SeenInv, TypeOK, Return, NotConnected, server, cache,
       link
  <1>5. NoLostWakeup'
    BY ReturnStep DEF NoLostWakeup, Shown, TypeOK, Return, Goto,
       NotConnected, server, cache, link
  <1> QED
    BY <1>1, <1>2, <1>3, <1>4, <1>5

\* The server refuses the call.
LEMMA RefusedStep ==
    ASSUME Inv, NEW g \in Callers, Refused(g)
    PROVE  Inv'
  <1> USE DEF Inv
  <1>1. TypeOK'
    BY ReturnStep DEF TypeOK, LocalTypes, Refused, cache, link
  <1>2. FlowInv'
    BY ReturnStep DEF FlowInv, Refused, cache, link
  <1>3. FreshInv' /\ OwnInv'
    BY TableFrame, ReturnStep DEF TypeOK, Refused, cache, link
  <1>4. SeenInv'
    BY ReturnStep DEF SeenInv, TypeOK, Return, Refused, cache, link
  <1>5. NoLostWakeup'
    BY ReturnStep DEF NoLostWakeup, Shown, TypeOK, Return, Goto, Refused,
       cache, link
  <1> QED
    BY <1>1, <1>2, <1>3, <1>4, <1>5

\* A call is not answered in time.
LEMMA CallTimeoutStep ==
    ASSUME Inv, NEW g \in Callers, CallTimeout(g)
    PROVE  Inv'
  <1> USE DEF Inv
  <1>1. TypeOK'
    BY ReturnStep DEF TypeOK, LocalTypes, CallTimeout, server, cache
  <1>2. FlowInv'
    BY ReturnStep DEF FlowInv, CallTimeout, server, cache
  <1>3. FreshInv' /\ OwnInv'
    BY TableFrame, ReturnStep DEF TypeOK, CallTimeout, server, cache
  <1>4. SeenInv'
    BY ReturnStep DEF SeenInv, TypeOK, Return, CallTimeout, server, cache
  <1>5. NoLostWakeup'
    BY ReturnStep DEF NoLostWakeup, Shown, TypeOK, Return, Goto, CallTimeout,
       server, cache
  <1> QED
    BY <1>1, <1>2, <1>3, <1>4, <1>5

\* The wait for a push is over.
LEMMA SettleStep ==
    ASSUME Inv, NEW g \in Callers, pc[g] \in WaitPcs,
           NEW how \in {"row", "unloaded", "push", "timeout"}, Settle(g, how),
           how = "row" /\ op[g].kind = "create" => items[op[g].id] # 0
    PROVE  Inv'
  <1> USE DEF Inv
  <1>1. op[g].kind \in Writes /\ ~Reading(g) /\ settled[g] = "no"
    BY DEF TypeOK, FlowInv, Flow, WaitPcs, Writes
  <1>2. CASE op[g].kind = "delete"
    <2>1. Return(g) /\ state' = state \ {op[g].id}
      BY <1>2 DEF Settle
    <2>2. TypeOK' /\ FlowInv'
      BY <2>1, ReturnStep DEF TypeOK, LocalTypes, FlowInv, Settle, cache, link
    <2>3. FreshInv' /\ OwnInv'
      BY <2>1, ReturnStep, TableFrame DEF Settle, cache, link
    <2>4. SeenInv' /\ NoLostWakeup'
      BY <2>1, ReturnStep DEF SeenInv, NoLostWakeup, Shown, TypeOK, Return, Goto,
         Settle, cache
    <2> QED
      BY <2>2, <2>3, <2>4
  <1>3. CASE op[g].kind # "delete"
    <2>1. /\ UNCHANGED <<state, op, request, resume, quiet>>
          /\ settled' = [settled EXCEPT ![g] = how]
          /\ closed' = [closed EXCEPT ![g] = FALSE]
          /\ pc' = [pc EXCEPT ![g] = "ensure"]
      BY <1>3 DEF Settle, Goto
    <2>2. TypeOK'
      BY <2>1 DEF TypeOK, Pcs, Settle, cache, link
    <2>3. FlowInv'
      <3> SUFFICES ASSUME NEW h \in Callers PROVE Flow(h)' /\ Row(h)'
        BY DEF FlowInv
      <3>1. CASE h # g
        BY <2>1, <3>1 DEF TypeOK, FlowInv, Flow, Row, Reading
      <3>2. CASE h = g
        BY <1>1, <1>3, <2>1, <3>2 DEF TypeOK, FlowInv, Flow, Row, Reading, ReadPcs,
           WaitPcs, Writes, Dialing
      <3> QED
        BY <3>1, <3>2
    <2>4. FreshInv' /\ OwnInv'
      BY <2>1, TableFrame DEF Settle, cache, link
    <2>5. SeenInv' /\ NoLostWakeup'
      BY <2>1 DEF SeenInv, NoLostWakeup, Shown, TypeOK, Settle, cache
    <2> QED
      BY <2>2, <2>3, <2>4, <2>5
  <1> QED
    BY <1>2, <1>3

\* The loop of a write looks on: only the label and its channel change.
LEMMA LookStep ==
    ASSUME Inv, NEW g \in Callers, NEW label \in {"has", "wait", "ready"}, Look(g, label),
           pc[g] \in {"ready", "has", "wait"}, closed' \in [Callers -> BOOLEAN],
           \A h \in Callers \ {g} : closed'[h] = closed[h],
           label = "wait" => ~Shown(g),
           label = "ready" => op[g].kind = "create"
    PROVE  Inv'
  <1> USE DEF Inv
  <1>1. TypeOK'
    BY DEF TypeOK, Pcs, Look, Goto, server, cache, link, locals
  <1>2. FlowInv'
    <2> SUFFICES ASSUME NEW h \in Callers PROVE Flow(h)' /\ Row(h)'
      BY DEF FlowInv
    <2>1. CASE h = g
      BY <2>1 DEF TypeOK, FlowInv, Flow, Row, Reading, ReadPcs, WaitPcs, Dialing,
         Look, Goto, locals
    <2>2. CASE h # g
      BY <2>2 DEF TypeOK, FlowInv, Flow, Row, Reading, Look, Goto, locals
    <2> QED
      BY <2>1, <2>2
  <1>3. FreshInv' /\ OwnInv'
    BY TableFrame DEF Look, server, cache, link, locals
  <1>4. SeenInv'
    BY DEF SeenInv, Look, cache, locals
  <1>5. NoLostWakeup'
    BY DEF NoLostWakeup, Shown, TypeOK, Look, Goto, cache, locals
  <1> QED
    BY <1>1, <1>2, <1>3, <1>4, <1>5

\* A post-condition, then the push that may make it true.
LEMMA LoopStep ==
    ASSUME Inv, NEW g \in Callers, Ready(g) \/ Has(g) \/ Wait(g)
    PROVE  Inv'
  <1> USE DEF Inv
  <1>1. pc[g] \in {"ready", "has", "wait"} => op[g].kind \in {"create", "delete"}
    BY DEF FlowInv, Flow
  <1>2. CASE Ready(g)
    <2>1. op[g].kind = "create" /\ pc[g] = "ready"
      BY <1>2 DEF FlowInv, Flow, Ready
    <2>2. CASE ~loaded /\ Settle(g, "unloaded")
      BY <2>1, <2>2, SettleStep DEF WaitPcs
    <2>3. CASE loaded /\ Look(g, "has") /\ UNCHANGED closed
      BY <2>1, <2>3, LookStep DEF TypeOK
    <2> QED
      BY <1>2, <2>2, <2>3 DEF Ready
  <1>3. CASE Has(g)
    <2>1. CASE Shown(g) /\ Settle(g, "row")
      BY <1>3, <2>1, SettleStep DEF Has, Shown, WaitPcs
    <2>2. CASE ~Shown(g) /\ Look(g, "wait") /\ UNCHANGED closed
      BY <1>3, <2>2, LookStep DEF Has, TypeOK
    <2> QED
      BY <1>3, <2>1, <2>2 DEF Has
  <1>4. CASE Wait(g)
    <2>1. Look(g, AtReady(g)) /\ closed' = [closed EXCEPT ![g] = FALSE] /\ pc[g] = "wait"
      BY <1>4 DEF Wait, Subscribe
    <2>2. CASE op[g].kind = "create"
      BY <2>1, <2>2, LookStep DEF AtReady, TypeOK
    <2>3. CASE op[g].kind # "create"
      BY <2>1, <2>3, LookStep DEF AtReady, TypeOK
    <2> QED
      BY <2>2, <2>3
  <1> QED
    BY <1>2, <1>3, <1>4

\* A push or the timeout ends the wait.
LEMMA EndOfWaitStep ==
    ASSUME Inv, NEW g \in Callers, WaitPush(g) \/ WaitTimeout(g)
    PROVE  Inv'
  <1>1. CASE WaitPush(g)
    <2>1. pc[g] = "push" /\ op[g].kind = "update"
      BY <1>1 DEF Inv, FlowInv, Flow, WaitPush
    <2> QED
      BY <1>1, <2>1, SettleStep DEF WaitPush, WaitPcs
  <1>2. CASE WaitTimeout(g)
    BY <1>2, SettleStep DEF WaitTimeout, WaitPcs
  <1> QED
    BY <1>1, <1>2

\* The read gives up, or goes on to the row.
LEMMA LastStep ==
    ASSUME Inv, NEW g \in Callers, Last(g)
    PROVE  Inv'
  <1> USE DEF Inv
  <1>1. CASE loaded /\ Look(g, "get") /\ UNCHANGED closed
    <2>1. TypeOK'
      BY <1>1 DEF TypeOK, Pcs, Look, Goto, server, cache, link, locals
    <2>2. FlowInv'
      BY <1>1 DEF TypeOK, FlowInv, Flow, Row, Reading, ReadPcs, WaitPcs, Dialing,
         Last, Look, Goto, locals
    <2>3. FreshInv' /\ OwnInv'
      BY <1>1, TableFrame DEF Look, server, cache, link, locals
    <2>4. SeenInv' /\ NoLostWakeup'
      BY <1>1 DEF SeenInv, NoLostWakeup, Shown, TypeOK, Look, Goto, cache, locals
    <2> QED
      BY <2>1, <2>2, <2>3, <2>4
  <1>2. CASE Return(g) /\ UNCHANGED <<getter, server, running, cache, link>>
    <2>1. TypeOK' /\ FlowInv'
      BY <1>2, ReturnStep DEF TypeOK, LocalTypes, FlowInv, server, cache, link
    <2>2. FreshInv' /\ OwnInv'
      BY <1>2, ReturnStep, TableFrame DEF server, cache, link
    <2>3. SeenInv' /\ NoLostWakeup'
      BY <1>2, ReturnStep DEF SeenInv, NoLostWakeup, Shown, TypeOK, Return, Goto, cache
    <2> QED
      BY <2>1, <2>2, <2>3
  <1> QED
    BY <1>1, <1>2 DEF Last

\* A created row enters the state, which is when it stops being its create's.
LEMMA GetStep ==
    ASSUME Inv, NEW g \in Callers, Get(g)
    PROVE  Inv'
  <1> USE DEF Inv
  <1>1. state' \subseteq state \cup {op[g].id} /\ lastId' = lastId
    BY DEF Get
  <1>2. \A h \in Callers : op'[h] = IF h = g THEN NoOp ELSE op[h]
    BY ReturnStep DEF TypeOK, Get
  <1>3. op[g].id \in Ids /\ op[g].id # 0 /\ op[g].id <= lastId
    BY DEF Get, TypeOK, FlowInv, Flow, Row, FreshInv, Reading, ReadPcs, Writes, Ids
  <1>4. TypeOK' /\ FlowInv'
    BY <1>1, <1>3, ReturnStep DEF TypeOK, LocalTypes, FlowInv, Get, cache, link
  <1>5. FreshInv'
    <2>1. \A h \in Callers : op'[h].id <= lastId'
      <3>1. lastId \in Nat
        BY ListAssumption DEF TypeOK
      <3> QED
        BY <1>1, <1>2, <3>1 DEF FreshInv, NoOp
    <2>2. state' \subseteq 1..lastId'
      <3>1. op[g].id \in 1..lastId
        BY <1>3 DEF Ids
      <3> QED
        BY <1>1, <3>1 DEF FreshInv
    <2> QED
      BY <2>1, <2>2 DEF FreshInv, Get, cache, link
  <1>6. OwnInv'
    <2> SUFFICES ASSUME NEW h \in Callers, op'[h].kind = "create", op'[h].id # 0
                 PROVE  Own(h)'
      BY DEF OwnInv, Own
    <2>1. h # g /\ op'[h] = op[h] /\ Own(h)
      BY <1>2 DEF OwnInv, NoOp
    <2>2. \A k \in Callers : op'[k].id \in {op[k].id, 0}
      BY <1>2 DEF NoOp
    <2>3. ShownFromOn(op[h].id)'
      BY <2>1 DEF Own, ShownFromOn, Get, cache, link
    <2> QED
      BY <1>1, <2>1, <2>2, <2>3 DEF Own, Get
  <1>7. SeenInv' /\ NoLostWakeup'
    BY ReturnStep DEF SeenInv, NoLostWakeup, Shown, TypeOK, Return, Goto, Get, cache
  <1> QED
    BY <1>4, <1>5, <1>6, <1>7

\* The server runs the call: a row it makes is new to everybody.
LEMMA ServeStep ==
    ASSUME Inv, NEW g \in Callers, Serve(g)
    PROVE  Inv'
  <1> USE DEF Inv
  <1>1. /\ pc[g] = "sent" /\ pc' = [pc EXCEPT ![g] = "answered"]
        /\ Len(wire) < MaxPushes /\ wire' = Append(wire, rows')
        /\ UNCHANGED <<getter, state, running, items, loaded, closed, session, reconnects,
                       request, resume, settled, quiet>>
    BY DEF Serve, PushRows, Goto, cache
  <1> DEFINE Creates == /\ request[g] = "write" /\ op[g].kind = "create"
                        /\ lastId < MaxRows /\ lastId' = lastId + 1
                        /\ rows' = [rows EXCEPT ![lastId + 1] = op[g].version]
                        /\ op' = [op EXCEPT ![g].id = lastId + 1]
             Changes == /\ request[g] = "write" /\ op[g].kind # "create"
                        /\ rows' = [rows EXCEPT ![op[g].id] = op[g].version]
                        /\ UNCHANGED <<lastId, op>>
             Lists   == request[g] = "list" /\ UNCHANGED <<rows, lastId, op>>
  <1>2. Creates \/ Changes \/ Lists
    BY DEF Serve
  <1>3. /\ rows' \in Snapshots /\ lastId' \in 0..MaxRows /\ lastId <= lastId'
        /\ lastId \in Nat /\ lastId' \in Nat
    <2>1. /\ lastId \in 0..MaxRows /\ MaxRows \in Nat
          /\ rows \in Snapshots /\ op[g].version \in 0..MaxVersion
      BY ListAssumption DEF TypeOK
    <2>2. rows' \in Snapshots
      BY <1>2, <2>1 DEF Snapshots
    <2>3. lastId' \in {lastId, lastId + 1} /\ (lastId' = lastId + 1 => lastId < MaxRows)
      BY <1>2, <2>1
    <2> QED
      BY <2>1, <2>2, <2>3
  <1>4. /\ op' \in [Callers -> [kind : Writes \cup {"read", "none"}, id : 0..MaxRows,
                                version : 0..MaxVersion]]
        /\ \A h \in Callers : /\ op'[h].kind = op[h].kind /\ op'[h].version = op[h].version
                              /\ h # g \/ ~Creates => op'[h] = op[h]
    <2>1. CASE Creates
      <3>1. lastId + 1 \in 0..MaxRows
        BY <1>3, <2>1, ListAssumption
      <3>2. op' = [op EXCEPT ![g] = [op[g] EXCEPT !.id = lastId + 1]]
        BY <2>1
      <3>3. op[g] \in [kind : Writes \cup {"read", "none"}, id : 0..MaxRows,
                       version : 0..MaxVersion]
        BY DEF TypeOK
      <3>4. [op[g] EXCEPT !.id = lastId + 1]
              \in [kind : Writes \cup {"read", "none"}, id : 0..MaxRows,
                   version : 0..MaxVersion]
        BY <3>1, <3>3
      <3> QED
        BY <2>1, <3>2, <3>3, <3>4 DEF TypeOK
    <2>2. CASE ~Creates
      BY <1>2, <2>2 DEF TypeOK
    <2> QED
      BY <2>1, <2>2
  <1>5. /\ wire' \in Seq(Snapshots) /\ Len(wire') = Len(wire) + 1 /\ Len(wire) \in Nat
        /\ \A k \in 1..Len(wire) : wire'[k] = wire[k]
        /\ wire'[Len(wire) + 1] = rows'
    BY <1>1, <1>3, PushedWire DEF TypeOK
  <1>6. TypeOK'
    <2>1. Len(wire') <= MaxPushes
      BY <1>1, <1>5, ListAssumption
    <2>2. pc' \in [Callers -> Pcs]
      BY <1>1 DEF TypeOK, Pcs, InFlight
    <2> QED
      BY <1>1, <1>3, <1>4, <1>5, <2>1, <2>2 DEF TypeOK
  <1>7. Creates => op'[g].id = lastId + 1
    BY DEF TypeOK
  <1>8. request[g] = "write" => op[g].kind \in Writes /\ settled[g] = "no"
    BY <1>1 DEF TypeOK, FlowInv, Flow, Reading, ReadPcs, Writes, Dialing
  <1>9. FlowInv'
    <2> SUFFICES ASSUME NEW h \in Callers PROVE Flow(h)' /\ Row(h)'
      BY DEF FlowInv
    <2>1. CASE h # g
      BY <1>1, <1>4, <2>1 DEF TypeOK, FlowInv, Flow, Row, Reading
    <2>2. CASE h = g
      <3>1. CASE Creates
        <4>1. op'[g].id \in Ids
          BY <1>3, <1>7, <3>1, ListAssumption DEF Ids
        <4>2. Row(g)'
          BY <1>4, <4>1 DEF FlowInv, Row
        <4>3. op'[g].kind = "create"
          BY <1>4, <3>1
        <4> QED
          BY <1>1, <1>4, <2>2, <4>2, <4>3 DEF TypeOK, FlowInv, Flow, Reading, ReadPcs,
             WaitPcs, Writes, Dialing
      <3>2. CASE ~Creates
        <4>1. op'[g] = op[g] /\ (op[g].kind = "create" => request[g] = "list")
          BY <1>2, <1>4, <3>2
        <4>2. op[g].kind = "create" => settled[g] # "no"
          BY <4>1 DEF FlowInv, Flow, Reading, Writes
        <4>3. Row(g)'
          BY <1>1, <4>1, <4>2 DEF FlowInv, Row
        <4>4. Reading(g)' = Reading(g)
          BY <1>1 DEF TypeOK, Reading, ReadPcs
        <4>5. Flow(g)'
          BY <1>1, <4>1, <4>4 DEF TypeOK, FlowInv, Flow, WaitPcs, Dialing
        <4> QED
          BY <2>2, <4>3, <4>5
      <3> QED
        BY <3>1, <3>2
    <2> QED
      BY <2>1, <2>2
  <1>10. \A h \in Callers : op'[h].id <= lastId'
    <2> SUFFICES ASSUME NEW h \in Callers PROVE op'[h].id <= lastId'
      OBVIOUS
    <2>1. op[h].id <= lastId /\ op[h].id \in Nat
      BY DEF TypeOK, FreshInv
    <2> QED
      BY <1>2, <1>3, <1>4, <1>7, <2>1
  <1>11. \A i \in Ids : i > lastId' => rows'[i] = 0
    <2> SUFFICES ASSUME NEW i \in Ids, i > lastId' PROVE rows'[i] = 0
      OBVIOUS
    <2>1. rows[i] = 0 /\ op[g].id <= lastId /\ op[g].id \in Nat /\ i \in Nat
      BY <1>3 DEF TypeOK, FreshInv, Ids
    <2>2. i # op[g].id /\ (Creates => i # lastId + 1)
      BY <1>3, <2>1
    <2> QED
      BY <1>2, <2>1, <2>2 DEF TypeOK, Snapshots
  <1>12. FreshInv'
    <2>1. state' \subseteq 1..lastId'
      BY <1>1, <1>3 DEF FreshInv, TypeOK
    <2>2. ASSUME NEW i \in Ids, i > lastId' PROVE \A k \in 1..Len(wire') : wire'[k][i] = 0
      BY <1>3, <1>5, <1>11, <2>2 DEF FreshInv, Ids
    <2> QED
      BY <1>1, <1>3, <1>10, <1>11, <2>1, <2>2 DEF FreshInv, Ids
  <1>13. OwnInv'
    <2> SUFFICES ASSUME NEW h \in Callers, op'[h].kind = "create", op'[h].id # 0
                 PROVE  Own(h)'
      BY DEF OwnInv, Own
    <2> DEFINE i == op'[h].id
    <2>1. i \in Ids
      BY <1>4 DEF Ids
    <2>2. CASE h = g /\ Creates
      <3>1. i = lastId + 1 /\ rows'[i] # 0
        BY <1>7, <2>1, <2>2 DEF TypeOK, FlowInv, Row, Snapshots
      <3>2. i \notin state' /\ \A k \in Callers \ {g} : op'[k].id # i
        <4>1. i \notin state'
          BY <1>1, <1>3, <3>1 DEF FreshInv
        <4>2. ASSUME NEW k \in Callers \ {g} PROVE op'[k].id # i
          BY <1>3, <1>4, <3>1 DEF FreshInv, TypeOK
        <4> QED
          BY <4>1, <4>2
      <3>3. ShownFromOn(i)
        BY <1>3, <2>1, <3>1 DEF FreshInv, ShownFromOn
      <3>4. (ShownFromOn(op[h].id))'
        <4>1. PICK j \in Ids : j = i
          BY <2>1
        <4>2. ShownFromOn(j)'
          BY <1>1, <1>3, <3>1, <3>3, <4>1, PushShows
        <4> QED
          BY <4>1, <4>2
      <3> QED
        BY <2>2, <3>1, <3>2, <3>4 DEF Own
    <2>3. CASE ~(h = g /\ Creates)
      <3>1. op'[h] = op[h] /\ Own(h) /\ i <= lastId /\ i \in Nat
            /\ op[h].kind = "create" /\ i = op[h].id /\ i # 0
        BY <1>4, <2>1, <2>3 DEF OwnInv, FreshInv, Ids
      <3>2. rows'[i] = rows[i] /\ rows[i] # 0
        <4>1. Changes => op[g].id # i
          BY <3>1 DEF Own
        <4>2. Creates => i # lastId + 1
          BY <1>3, <3>1
        <4> QED
          BY <1>2, <2>1, <3>1, <4>1, <4>2 DEF TypeOK, Snapshots, Own
      <3>3. i \notin state' /\ \A k \in Callers \ {h} : op'[k].id # i
        <4>1. i \notin state'
          BY <1>1, <3>1 DEF Own
        <4>2. ASSUME NEW k \in Callers \ {h} PROVE op'[k].id # i
          BY <1>3, <1>4, <1>7, <3>1 DEF Own
        <4> QED
          BY <4>1, <4>2
      <3>4. (ShownFromOn(op[h].id))'
        <4>1. PICK j \in Ids : j = i
          BY <2>1
        <4>2. ShownFromOn(j)'
          BY <1>1, <1>3, <3>1, <3>2, <4>1, PushShows DEF Own
        <4> QED
          BY <4>1, <4>2
      <3> QED
        BY <3>2, <3>3, <3>4 DEF Own
    <2> QED
      BY <2>2, <2>3
  <1>14. SeenInv'
    BY <1>1, <1>4, <1>8 DEF SeenInv, TypeOK
  <1>15. NoLostWakeup'
    BY <1>1, <1>4 DEF NoLostWakeup, Shown, TypeOK
  <1> QED
    BY <1>6, <1>9, <1>12, <1>13, <1>14, <1>15

\* The server accepts a login and pushes its table.
LEMMA AfterLoginStep ==
    ASSUME Inv, NEW g \in Callers, AfterLogin(g)
    PROVE  Inv'
  <1> USE DEF Inv
  <1>1. /\ pc[g] = "dial" /\ pc' = [pc EXCEPT ![g] = "auth"]
        /\ Len(wire) < MaxPushes /\ wire' = Append(wire, rows')
        /\ UNCHANGED <<getter, rows, lastId, state, running, items, loaded, closed, session,
                       reconnects, op, request, resume, settled, quiet>>
    BY DEF AfterLogin, PushRows, Goto, server, cache, locals
  <1>2. /\ wire' \in Seq(Snapshots) /\ Len(wire') = Len(wire) + 1 /\ Len(wire) \in Nat
        /\ \A k \in 1..Len(wire) : wire'[k] = wire[k]
        /\ wire'[Len(wire) + 1] = rows'
    BY <1>1, PushedWire DEF TypeOK
  <1>3. TypeOK'
    BY <1>1, <1>2, ListAssumption DEF TypeOK, Pcs, Dialing
  <1>4. FlowInv'
    BY <1>1 DEF TypeOK, FlowInv, Flow, Row, Reading, ReadPcs, WaitPcs, Dialing
  <1>5. FreshInv'
    <2>1. ASSUME NEW i \in Ids, i > lastId PROVE \A k \in 1..Len(wire') : wire'[k][i] = 0
      BY <1>1, <1>2, <2>1 DEF FreshInv
    <2> QED
      BY <1>1, <2>1 DEF FreshInv
  <1>6. OwnInv'
    <2> SUFFICES ASSUME NEW h \in Callers, op[h].kind = "create", op[h].id # 0
                 PROVE  Own(h)'
      BY <1>1 DEF OwnInv, Own
    <2>1. op[h].id \in Ids /\ Own(h)
      BY DEF OwnInv, TypeOK, Ids
    <2>2. ShownFromOn(op[h].id)'
      BY <1>1, <2>1, PushShows DEF Own, TypeOK
    <2> QED
      BY <1>1, <2>1, <2>2 DEF Own
  <1>7. SeenInv' /\ NoLostWakeup'
    BY <1>1 DEF SeenInv, NoLostWakeup, Shown, TypeOK
  <1> QED
    BY <1>3, <1>4, <1>5, <1>6, <1>7

\* A reconnect empties the list, and what was on its way is lost.
LEMMA EnterSessionStep ==
    ASSUME Inv, NEW g \in Callers, EnterSession(g)
    PROVE  Inv'
  <1> USE DEF Inv
  <1>1. CASE Goto(g, resume[g]) /\ UNCHANGED <<cache, link, quiet>>
    <2>1. TypeOK'
      BY <1>1 DEF TypeOK, Pcs, EnterSession, Goto, server, cache, link
    <2>2. FlowInv'
      BY <1>1 DEF TypeOK, FlowInv, Flow, Row, Reading, ReadPcs, WaitPcs, Dialing,
         EnterSession, Goto
    <2>3. FreshInv' /\ OwnInv'
      BY <1>1, TableFrame DEF EnterSession, server, cache, link
    <2>4. SeenInv' /\ NoLostWakeup'
      BY <1>1 DEF SeenInv, NoLostWakeup, Shown, TypeOK, EnterSession, Goto, cache
    <2> QED
      BY <2>1, <2>2, <2>3, <2>4
  <1>2. CASE /\ reconnects < MaxReconnects /\ reconnects' = reconnects + 1
             /\ session' = "down" /\ wire' = <<>> /\ Invalidate
             /\ quiet' = [h \in Callers |-> pc[h] = "idle"] /\ Goto(g, "dial")
    <2>1. NoRows \in Snapshots
      BY ListAssumption DEF NoRows, Snapshots
    <2>2. TypeOK'
      <3>1. reconnects' \in 0..MaxReconnects
        BY <1>2, ListAssumption DEF TypeOK
      <3>2. wire' \in Seq(Snapshots) /\ Len(wire') <= MaxPushes
        BY <1>2, ListAssumption
      <3>3. pc' \in [Callers -> Pcs] /\ quiet' \in [Callers -> BOOLEAN]
        BY <1>2 DEF TypeOK, Pcs, Dialing, Goto
      <3> QED
        BY <1>2, <2>1, <3>1, <3>2, <3>3 DEF TypeOK, EnterSession, server, Invalidate
    <2>3. FlowInv'
      BY <1>2 DEF TypeOK, FlowInv, Flow, Row, Reading, ReadPcs, WaitPcs, Dialing,
         EnterSession, Goto
    <2>4. FreshInv' /\ OwnInv'
      BY <1>2, DropFrame DEF TypeOK, EnterSession, server, Invalidate
    <2>5. SeenInv'
      BY <1>2 DEF SeenInv, FlowInv, Flow, NoOp, EnterSession
    <2>6. NoLostWakeup'
      BY <1>2 DEF NoLostWakeup, TypeOK, EnterSession, Invalidate
    <2> QED
      BY <2>2, <2>3, <2>4, <2>5, <2>6
  <1> QED
    BY <1>1, <1>2 DEF EnterSession

\* A dial or a login fails, and with it the operation.
LEMMA DialFailedStep ==
    ASSUME Inv, NEW g \in Callers, DialFailed(g)
    PROVE  Inv'
  <1> USE DEF Inv
  <1>1. TypeOK' /\ FlowInv'
    BY ReturnStep, ListAssumption DEF TypeOK, LocalTypes, FlowInv, DialFailed, server, cache
  <1>2. FreshInv' /\ OwnInv'
    BY ReturnStep, DropFrame DEF TypeOK, DialFailed, server, cache
  <1>3. SeenInv' /\ NoLostWakeup'
    BY ReturnStep DEF SeenInv, NoLostWakeup, Shown, TypeOK, Return, Goto, DialFailed, cache
  <1> QED
    BY <1>1, <1>2, <1>3

\* The connection drops with the end of what is on its way.
LEMMA DisconnectStep ==
    ASSUME Inv, Disconnect
    PROVE  Inv'
  <1> USE DEF Inv
  <1>1. PICK n \in 0..Len(wire) : wire' = SubSeq(wire, 1, n)
    BY DEF Disconnect
  <1>2. /\ wire' \in Seq(Snapshots) /\ Len(wire') = n
        /\ \A k \in 1..n : wire'[k] = wire[k]
    BY <1>1, CutWire DEF TypeOK
  <1>3. TypeOK'
    BY <1>2, ListAssumption DEF TypeOK, Disconnect, server, cache, locals
  <1>4. FlowInv'
    BY DEF FlowInv, Flow, Row, Reading, Disconnect, locals
  <1>5. FreshInv' /\ OwnInv'
    BY <1>2, DropFrame DEF Disconnect, server, cache, locals
  <1>6. SeenInv' /\ NoLostWakeup'
    BY DEF SeenInv, NoLostWakeup, Shown, Disconnect, cache, locals
  <1> QED
    BY <1>3, <1>4, <1>5, <1>6

\* A handler starts on the next push.
LEMMA DispatchStep ==
    ASSUME Inv, Dispatch
    PROVE  Inv'
  <1> USE DEF Inv
  <1>1. /\ running' = <<wire[1]>> /\ wire[1] \in Snapshots /\ Len(wire) \in Nat \ {0}
        /\ wire' \in Seq(Snapshots) /\ Len(wire') = Len(wire) - 1
        /\ \A k \in 1..Len(wire') : wire'[k] = wire[k + 1]
    BY TakenWire DEF TypeOK, Dispatch
  <1>2. running' # <<>> /\ running'[1] = wire[1]
    BY <1>1
  <1>3. TypeOK'
    BY <1>1, ListAssumption DEF TypeOK, Dispatch, server, cache, locals
  <1>4. FlowInv' /\ SeenInv' /\ NoLostWakeup'
    BY DEF FlowInv, Flow, Row, Reading, SeenInv, NoLostWakeup, Shown, Dispatch, cache, locals
  <1>5. \A k \in 1..Len(wire') : k + 1 \in 1..Len(wire)
    BY <1>1
  <1>6. FreshInv'
    <2>1. ASSUME NEW i \in Ids, i > lastId
          PROVE  running'[1][i] = 0 /\ \A k \in 1..Len(wire') : wire'[k][i] = 0
      BY <1>1, <1>2, <1>5, <2>1 DEF FreshInv
    <2> QED
      BY <2>1 DEF FreshInv, Dispatch, server, cache, locals
  <1>7. OwnInv'
    <2> SUFFICES ASSUME NEW i, ShownFromOn(i) PROVE ShownFromOn(i)'
      BY DEF OwnInv, Own, Dispatch, server, locals
    <2>1. items[i] # 0 => running'[1][i] # 0
      BY <1>1, <1>2 DEF ShownFromOn
    <2>2. running'[1][i] # 0 => \A k \in 1..Len(wire') : wire'[k][i] # 0
      BY <1>1, <1>2, <1>5 DEF ShownFromOn
    <2>3. \A k, l \in 1..Len(wire') : k < l /\ wire'[k][i] # 0 => wire'[l][i] # 0
      <3> SUFFICES ASSUME NEW k \in 1..Len(wire'), NEW l \in 1..Len(wire'), k < l,
                          wire'[k][i] # 0
                   PROVE  wire'[l][i] # 0
        OBVIOUS
      <3>1. k + 1 \in 1..Len(wire) /\ l + 1 \in 1..Len(wire) /\ k + 1 < l + 1
        BY <1>1, <1>5
      <3>2. wire'[k] = wire[k + 1] /\ wire'[l] = wire[l + 1]
        BY <1>1
      <3> QED
        BY <3>1, <3>2 DEF ShownFromOn
    <2> QED
      BY <2>1, <2>2, <2>3 DEF ShownFromOn, Dispatch, cache
  <1> QED
    BY <1>3, <1>4, <1>6, <1>7

\* A push is stored, and wakes every write that waits.
LEMMA ReplaceStep ==
    ASSUME Inv, Replace
    PROVE  Inv'
  <1> USE DEF Inv
  <1>1. running # <<>> /\ running[1] \in Snapshots /\ items' = running[1] /\ running' = <<>>
    BY DEF TypeOK, Replace
  <1>2. TypeOK'
    BY <1>1 DEF TypeOK, Replace, SignalLocked, server, link, locals
  <1>3. FlowInv'
    BY DEF FlowInv, Flow, Row, Reading, Replace, locals
  <1>4. FreshInv'
    BY <1>1 DEF FreshInv, Replace, server, link, locals
  <1>5. OwnInv'
    BY <1>1 DEF OwnInv, Own, ShownFromOn, Replace, server, link, locals
  <1>6. SeenInv'
    <2> SUFFICES ASSUME NEW g \in Callers, op[g].kind = "create", settled[g] = "row",
                        quiet[g]
                 PROVE  running[1][op[g].id] # 0
      BY <1>1 DEF SeenInv, Replace, locals
    <2>1. op[g].id \in Ids /\ items[op[g].id] # 0
      BY DEF FlowInv, Row, SeenInv
    <2>2. ShownFromOn(op[g].id)
      BY <2>1, ListAssumption DEF OwnInv, Own, Ids
    <2> QED
      BY <1>1, <2>1, <2>2 DEF ShownFromOn
  <1>7. NoLostWakeup'
    <2> SUFFICES ASSUME NEW g \in Callers, pc[g] = "wait" PROVE closed'[g]
      BY DEF NoLostWakeup, Replace
    <2>1. op[g].kind \in Writes /\ settled[g] = "no"
      BY DEF TypeOK, FlowInv, Flow, WaitPcs, Writes
    <2> QED
      BY <2>1 DEF Replace, SignalLocked
  <1> QED
    BY <1>2, <1>3, <1>4, <1>5, <1>6, <1>7

\* Every step of the specification.
LEMMA InvStep ==
    ASSUME Inv, [Next]_vars
    PROVE  Inv'
  <1>1. ASSUME NEW g \in Callers, WriteStep(g) PROVE Inv'
    BY <1>1, EmitStep, NeedSessionStep, NotConnectedStep, ServeStep, RefusedStep, AckStep,
       CallTimeoutStep, LoopStep, EndOfWaitStep DEF WriteStep
  <1>2. ASSUME NEW g \in Callers, ReadStep(g) PROVE Inv'
    BY <1>2, EnsureStep, ForceReloadStep, RecheckStep, LastStep, GetStep DEF ReadStep
  <1>3. ASSUME NEW g \in Callers, SessionStep(g) PROVE Inv'
    BY <1>3, EnterSessionStep, AfterLoginStep, LoggedInStep, DialFailedStep DEF SessionStep
  <1>4. CASE UNCHANGED vars
    BY <1>4 DEF Inv, TypeOK, FlowInv, Flow, Row, Reading, FreshInv, OwnInv, Own,
       ShownFromOn, SeenInv, NoLostWakeup, Shown, vars, server, cache, link, locals
  <1> QED
    BY <1>1, <1>2, <1>3, <1>4, StartStep, DispatchStep, ReplaceStep, DisconnectStep DEF Next

\* The initial states.
LEMMA InvInit == Init => Inv
  <1> SUFFICES ASSUME Init PROVE Inv
    OBVIOUS
  <1>1. rows \in Snapshots /\ NoRows \in Snapshots /\ lastId \in 0..MaxRows
    BY ListAssumption DEF Init, Snapshots, NoRows, Ids
  <1>2. wire \in Seq(Snapshots) /\ Len(wire) = 1 /\ \A k \in 1..1 : wire[k] = rows
    BY <1>1 DEF Init
  <1>3. TypeOK
    <2>1. state \subseteq Ids
      BY <1>1, ListAssumption DEF Init, Ids
    <2>2. getter \in BOOLEAN /\ Len(wire) <= MaxPushes
      BY <1>2, ListAssumption DEF Init
    <2>3. NoOp \in [kind : Writes \cup {"read", "none"}, id : 0..MaxRows,
                    version : 0..MaxVersion]
      BY ListAssumption DEF NoOp
    <2>4. running \in {<<>>} \cup {<<r>> : r \in Snapshots} /\ reconnects \in 0..MaxReconnects
      BY ListAssumption DEF Init
    <2>5. LocalTypes
      BY <2>3 DEF Init, LocalTypes, Pcs
    <2> QED
      BY <1>1, <1>2, <2>1, <2>2, <2>4, <2>5 DEF TypeOK, LocalTypes, Init
  <1>4. FlowInv
    BY DEF Init, FlowInv, Flow, Row, Reading, NoOp, ReadPcs, WaitPcs, Writes
  <1>5. FreshInv
    <2>1. \A i \in Ids : i > lastId => rows[i] = 0
      BY <1>1 DEF Init, Ids
    <2> QED
      BY <1>1, <1>2, <2>1 DEF Init, FreshInv, NoOp, NoRows
  <1>6. OwnInv /\ SeenInv /\ NoLostWakeup
    BY DEF Init, OwnInv, Own, NoOp, SeenInv, NoLostWakeup
  <1> QED
    BY <1>3, <1>4, <1>5, <1>6 DEF Inv

\* The inductive invariant.
LEMMA Invariance == Spec => []Inv
  BY InvInit, InvStep, PTL DEF Spec

-----------------------------------------------------------------------------
(* The theorems.                                                           *)

\* The list, its cache and the goroutines' locals have their types.
THEOREM SpecTypeOK == Spec => []TypeOK
  <1>1. Inv => TypeOK
    BY DEF Inv
  <1> QED
    BY <1>1, Invariance, PTL

\* MutateUntil never sleeps through the push it waits for: subscribing before
\* the emit, and again before each look at the list, leaves no gap.
THEOREM SpecNoLostWakeup == Spec => []NoLostWakeup
  <1>1. Inv => NoLostWakeup
    BY DEF Inv
  <1> QED
    BY <1>1, Invariance, PTL

\* A create that saw its row in the list reads it back, whichever pushes of other
\* writes come in between, as long as no reconnect empties the list.
THEOREM SpecConfirmedCreateIsReadBack == Spec => []ConfirmedCreateIsReadBack
  <1>1. Inv => ConfirmedCreateIsReadBack
    BY DEF Inv, SeenInv, ConfirmedCreateIsReadBack
  <1> QED
    BY <1>1, Invariance, PTL
===============================================================================
