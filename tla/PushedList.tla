------------------------------ MODULE PushedList ------------------------------
(***************************************************************************)
(* One list the server pushes, the cache the client keeps of it, and the   *)
(* goroutines that write its rows and read them back (wire/cache.go,       *)
(* client/list.go, api/api.go and the resources on top).                   *)
(*                                                                         *)
(* The session is that of SharedSession: one reconnect at a time, never    *)
(* while a call is in flight.  It is "up", "broken" (still there, flagged) *)
(* or "down" (being replaced).  The server pushes a snapshot of its table  *)
(* after a login, after a write and on the list's getter; the client       *)
(* handles the pushes one at a time, in order, apart from the answers.     *)
(* A handler that has started outlives its session.                        *)
(*                                                                         *)
(* A row's content is abstracted to a version, 0 when there is no row.  A  *)
(* channel is abstracted to whether it has been closed since its holder    *)
(* subscribed.                                                             *)
(***************************************************************************)
EXTENDS Naturals, Sequences

CONSTANTS
    Callers,        \* goroutines, each running one resource's operation
    Getters,        \* whether the list has a getter: {FALSE}, {TRUE} or both
    InitialRows,    \* how many rows the server may have at first
    MaxRows,        \* bound on the rows ever created
    MaxVersion,     \* bound on the versions of a row
    MaxPushes,      \* bound on the pushes in flight
    MaxReconnects   \* bound on the reconnects

ASSUME ListAssumption ==
    /\ Getters \subseteq BOOLEAN
    /\ MaxRows \in Nat \ {0}
    /\ InitialRows \subseteq 0..MaxRows
    /\ MaxVersion \in Nat \ {0}
    /\ MaxPushes \in Nat \ {0}
    /\ MaxReconnects \in Nat

VARIABLES
    getter,      \* the list has a getter event (API keys), or has not
    rows,        \* the server's table
    lastId,      \* the last ID the server gave out
    state,       \* the rows Terraform has in its state
    wire,        \* snapshots pushed, their handlers not started yet
    running,     \* the snapshot a handler is about to store
    items,       \* ListState.items
    loaded,      \* ListState.loaded
    session,     \* "up", "broken" or "down"
    reconnects,  \* reconnects so far
    pc,          \* pc[g]: where goroutine g stands
    op,          \* op[g]: the kind of operation, its row and the version to write
    request,     \* request[g]: what g's call asks: its write, or the list
    resume,      \* resume[g]: where g goes on once session() returns
    closed,      \* closed[g]: the channel g's write subscribed to is closed
    settled,     \* settled[g]: what ended the wait of g's write
    quiet        \* quiet[g]: no reconnect since g's operation began

server == <<rows, lastId, state>>
cache  == <<items, loaded>>
link   == <<wire, session, reconnects>>
locals == <<op, request, resume, settled, quiet>>

vars == <<getter, server, running, cache, closed, link, pc, locals>>

Ids       == 1..MaxRows
Snapshots == [Ids -> 0..MaxVersion]
NoRows    == [i \in Ids |-> 0]

Writes   == {"create", "update", "delete"}
InFlight == {"sent", "answered"}
Dialing  == {"dial", "auth"}
Pcs      == {"idle", "call", "recall", "ready", "has", "wait", "push",
             "ensure", "force", "session", "recheck", "last", "get"} \cup InFlight \cup Dialing

NoOp == [kind |-> "none", id |-> 0, version |-> 0]

Init ==
    /\ getter \in Getters
    /\ lastId \in InitialRows
    /\ rows = [i \in Ids |-> IF i <= lastId THEN 1 ELSE 0]
    /\ state = 1..lastId
    /\ wire = <<rows>>
    /\ running = <<>>
    /\ items = NoRows
    /\ loaded = FALSE
    /\ session = "up"
    /\ reconnects = 0
    /\ pc = [g \in Callers |-> "idle"]
    /\ op = [g \in Callers |-> NoOp]
    /\ request = [g \in Callers |-> "write"]
    /\ resume = [g \in Callers |-> "recall"]
    /\ closed = [g \in Callers |-> FALSE]
    /\ settled = [g \in Callers |-> "no"]
    /\ quiet = [g \in Callers |-> TRUE]

-----------------------------------------------------------------------------
(* Helpers.                                                                *)

Goto(g, label) == pc' = [pc EXCEPT ![g] = label]

Subscribe(g) == closed' = [closed EXCEPT ![g] = FALSE]

\* Mutation: the fresh channel is stored first, and it is the one closed.
SignalLockedSwapped == closed' = closed

\* signalLocked: every channel handed out so far is closed.
SignalLocked ==
    closed' = [g \in Callers |-> closed[g] \/ (op[g].kind \in Writes
                                                /\ settled[g] = "no")]

\* The operation returns, and its locals are gone.
Return(g) ==
    /\ op' = [op EXCEPT ![g] = NoOp]
    /\ request' = [request EXCEPT ![g] = "write"]
    /\ resume' = [resume EXCEPT ![g] = "recall"]
    /\ settled' = [settled EXCEPT ![g] = "no"]
    /\ quiet' = [quiet EXCEPT ![g] = TRUE]
    /\ closed' = [closed EXCEPT ![g] = FALSE]
    /\ Goto(g, "idle")

\* The server pushes its table as it stands after the step.
PushRows ==
    /\ Len(wire) < MaxPushes
    /\ wire' = Append(wire, rows')

\* No two goroutines work on the same resource.
Free(i) == \A h \in Callers : pc[h] # "idle" => op[h].id # i

-----------------------------------------------------------------------------
(* The list itself.                                                        *)

\* Mutation: the snapshot is merged into the list instead of replacing it.
ReplaceMerges ==
    /\ running # <<>>
    /\ items' = [i \in Ids |-> IF running[1][i] # 0 THEN running[1][i]
                               ELSE items[i]]
    /\ loaded' = TRUE
    /\ SignalLocked
    /\ running' = <<>>
    /\ UNCHANGED <<getter, server, link, pc, locals>>

Replace ==
    /\ running # <<>>
    /\ items' = running[1]
    /\ loaded' = TRUE
    /\ SignalLocked
    /\ running' = <<>>
    /\ UNCHANGED <<getter, server, link, pc, locals>>

\* The library hands the next push to its handler.
Dispatch ==
    /\ running = <<>>
    /\ wire # <<>>
    /\ running' = <<Head(wire)>>
    /\ wire' = Tail(wire)
    /\ UNCHANGED <<getter, server, cache, closed, session, reconnects, pc,
                   locals>>

\* Mutation: a nil map instead of an empty one.
InvalidateToNil ==
    /\ items' = <<>>
    /\ loaded' = FALSE

\* Invalidate wakes nobody.
Invalidate ==
    /\ items' = NoRows
    /\ loaded' = FALSE

-----------------------------------------------------------------------------
(* Operations: a write subscribes before it emits.                         *)

Begin(g, kind, i, version, label) ==
    /\ pc[g] = "idle"
    /\ op' = [op EXCEPT ![g] = [kind |-> kind, id |-> i, version |-> version]]
    /\ Goto(g, label)
    /\ UNCHANGED <<getter, server, running, cache, closed, link, request,
                   resume, settled, quiet>>

StartCreate(g) == Begin(g, "create", 0, 1, "call")

StartUpdate(g) ==
    \E i \in state :
        /\ Free(i)
        /\ rows[i] \in 1..(MaxVersion - 1)
        /\ Begin(g, "update", i, rows[i] + 1, "call")

StartDelete(g) ==
    \E i \in state :
        /\ Free(i)
        /\ Begin(g, "delete", i, 0, "call")

StartRead(g) ==
    \E i \in state :
        /\ Free(i)
        /\ Begin(g, "read", i, 0, "ensure")

-----------------------------------------------------------------------------
(* Call, over the shared session.                                          *)

Emit(g) ==
    /\ pc[g] \in {"call", "recall"}
    /\ session = "up"
    /\ Goto(g, "sent")
    /\ UNCHANGED <<getter, server, running, cache, closed, link, locals>>

NeedSession(g) ==
    /\ pc[g] = "call"
    /\ session = "broken"
    /\ resume' = [resume EXCEPT ![g] = "recall"]
    /\ Goto(g, "session")
    /\ UNCHANGED <<getter, server, running, cache, closed, link, op, request,
                   settled, quiet>>

\* ErrNotConnected: the session was lost again before the second pass.
NotConnected(g) ==
    /\ pc[g] = "recall"
    /\ session = "broken"
    /\ Return(g)
    /\ UNCHANGED <<getter, server, running, cache, link>>

\* The server runs the write or the getter, and pushes before it answers.
Serve(g) ==
    /\ pc[g] = "sent"
    /\ \/ /\ request[g] = "write" /\ op[g].kind = "create"
          /\ lastId < MaxRows
          /\ lastId' = lastId + 1
          /\ rows' = [rows EXCEPT ![lastId + 1] = op[g].version]
          /\ op' = [op EXCEPT ![g].id = lastId + 1]
       \/ /\ request[g] = "write" /\ op[g].kind # "create"
          /\ rows' = [rows EXCEPT ![op[g].id] = op[g].version]
          /\ UNCHANGED <<lastId, op>>
       \/ /\ request[g] = "list"
          /\ UNCHANGED <<rows, lastId, op>>
    /\ PushRows
    /\ Goto(g, "answered")
    /\ UNCHANGED <<getter, state, running, cache, closed, session, reconnects, request,
                   resume, settled, quiet>>

\* The server refuses; a delete is content when the row is not there anyway.
Refused(g) ==
    /\ pc[g] = "sent"
    /\ \/ UNCHANGED state
       \/ /\ op[g].kind = "delete"
          /\ rows[op[g].id] = 0
          /\ state' = state \ {op[g].id}
    /\ Return(g)
    /\ UNCHANGED <<getter, rows, lastId, running, cache, link>>

\* Where ready() starts: rowGone does not ask whether the list is loaded.
AtReady(g) == IF op[g].kind = "create" THEN "ready" ELSE "has"

AfterAck(g) ==
    IF request[g] = "list" THEN "recheck"
    ELSE IF op[g].kind = "update" THEN "push"
    ELSE AtReady(g)

Ack(g) ==
    /\ pc[g] = "answered"
    /\ Goto(g, AfterAck(g))
    /\ UNCHANGED <<getter, server, running, cache, closed, link, locals>>

\* No answer in time, served or not; the session is flagged.
CallTimeout(g) ==
    /\ pc[g] \in InFlight
    /\ session' = "broken"
    /\ Return(g)
    /\ UNCHANGED <<getter, server, running, cache, wire, reconnects>>

-----------------------------------------------------------------------------
(* MutateUntil: wait for the push that satisfies the post-condition.       *)

\* The write's wait is over: a delete is done, the others read their row back.
Settle(g, how) ==
    /\ \/ /\ op[g].kind = "delete"
          /\ state' = state \ {op[g].id}
          /\ Return(g)
       \/ /\ op[g].kind # "delete"
          /\ UNCHANGED state
          /\ settled' = [settled EXCEPT ![g] = how]
          /\ closed' = [closed EXCEPT ![g] = FALSE]
          /\ Goto(g, "ensure")
          /\ UNCHANGED <<op, request, resume, quiet>>
    /\ UNCHANGED <<getter, rows, lastId, running, cache, link>>

\* The loop looks on: nothing but the label and the channel changes.
Look(g, label) ==
    /\ Goto(g, label)
    /\ UNCHANGED <<getter, server, running, cache, link, locals>>

\* rowAdded: an unloaded list confirms nothing, and is not waited for.
Ready(g) ==
    /\ pc[g] = "ready"
    /\ \/ ~loaded /\ Settle(g, "unloaded")
       \/ loaded /\ Look(g, "has") /\ UNCHANGED closed

\* rowAdded and rowGone: whether the list shows the write.
Shown(g) ==
    IF op[g].kind = "create" THEN items[op[g].id] # 0 ELSE items[op[g].id] = 0

Has(g) ==
    /\ pc[g] = "has"
    /\ \/ Shown(g) /\ Settle(g, "row")
       \/ ~Shown(g) /\ Look(g, "wait") /\ UNCHANGED closed

\* Mutation: any push ends the wait, whatever it carries.
WaitOnce(g) ==
    /\ pc[g] = "wait"
    /\ closed[g]
    /\ Settle(g, "row")

\* A push: subscribe again, then look again.
Wait(g) ==
    /\ pc[g] = "wait"
    /\ closed[g]
    /\ Subscribe(g)
    /\ Look(g, AtReady(g))

\* Mutate, without a post-condition: whichever push comes first.
WaitPush(g) ==
    /\ pc[g] = "push"
    /\ closed[g]
    /\ Settle(g, "push")

\* The timeout is not an error.
WaitTimeout(g) ==
    /\ pc[g] \in {"wait", "push"}
    /\ Settle(g, "timeout")

-----------------------------------------------------------------------------
(* EnsureLoaded and the read that follows it.                              *)

\* An unloaded list is asked for with its getter, or by dropping the session.
Ensure(g) ==
    /\ pc[g] = "ensure"
    /\ \/ /\ loaded
          /\ Goto(g, "get")
          /\ UNCHANGED request
       \/ /\ ~loaded /\ getter
          /\ request' = [request EXCEPT ![g] = "list"]
          /\ Goto(g, "call")
       \/ /\ ~loaded /\ ~getter
          /\ Goto(g, "force")
          /\ UNCHANGED request
    /\ UNCHANGED <<getter, server, running, cache, closed, link, op, resume,
                   settled, quiet>>

\* markUnhealthy, which waits while another goroutine dials.
ForceReload(g) ==
    /\ pc[g] = "force"
    /\ session # "down"
    /\ session' = "broken"
    /\ resume' = [resume EXCEPT ![g] = "recheck"]
    /\ Goto(g, "session")
    /\ UNCHANGED <<getter, server, running, cache, closed, wire, reconnects, op,
                   request, settled, quiet>>

\* The list is looked at again, and once more after a push or the timeout.
Recheck(g) ==
    /\ pc[g] = "recheck"
    /\ Look(g, IF loaded THEN "get" ELSE "last")
    /\ UNCHANGED closed

Last(g) ==
    /\ pc[g] = "last"
    /\ \/ loaded /\ Look(g, "get") /\ UNCHANGED closed
       \/ ~loaded /\ Return(g) /\ UNCHANGED <<getter, server, running, cache,
                                              link>>

\* What the list shows of the row: a create puts it in the state, a read that
\* gets ErrNotFound takes it out.
Get(g) ==
    /\ pc[g] = "get"
    /\ state' = LET i == op[g].id
                IN  CASE op[g].kind = "create" /\ items[i] # 0 -> state \cup {i}
                      [] op[g].kind = "read" /\ items[i] = 0   -> state \ {i}
                      [] OTHER                                 -> state
    /\ Return(g)
    /\ UNCHANGED <<getter, rows, lastId, running, cache, link>>

-----------------------------------------------------------------------------
(* session(): the write lock waits for the calls in flight.                *)

EnterSession(g) ==
    /\ pc[g] = "session"
    /\ \A h \in Callers : pc[h] \notin InFlight
    /\ \/ /\ session = "up"
          /\ Goto(g, resume[g])
          /\ UNCHANGED <<cache, link, quiet>>
       \/ /\ session = "broken"
          /\ reconnects < MaxReconnects
          /\ reconnects' = reconnects + 1
          /\ session' = "down"
          /\ wire' = <<>>
          /\ Invalidate
          /\ quiet' = [h \in Callers |-> pc[h] = "idle"]
          /\ Goto(g, "dial")
    /\ UNCHANGED <<getter, server, running, closed, op, request, resume, settled>>

\* The server accepts the login and runs afterLogin.
AfterLogin(g) ==
    /\ pc[g] = "dial"
    /\ UNCHANGED server
    /\ PushRows
    /\ Goto(g, "auth")
    /\ UNCHANGED <<getter, running, cache, closed, session, reconnects, locals>>

LoggedIn(g) ==
    /\ pc[g] = "auth"
    /\ session' = "up"
    /\ Goto(g, resume[g])
    /\ UNCHANGED <<getter, server, running, cache, closed, wire, reconnects,
                   locals>>

DialFailed(g) ==
    /\ pc[g] \in Dialing
    /\ session' = "broken"
    /\ wire' = <<>>
    /\ Return(g)
    /\ UNCHANGED <<getter, server, running, cache, reconnects>>

\* The connection drops, and with it what the client had not received.
Disconnect ==
    /\ session = "up"
    /\ session' = "broken"
    /\ \E n \in 0..Len(wire) : wire' = SubSeq(wire, 1, n)
    /\ UNCHANGED <<getter, server, running, cache, closed, reconnects, pc,
                   locals>>

-----------------------------------------------------------------------------

Start(g) ==
    StartCreate(g) \/ StartUpdate(g) \/ StartDelete(g) \/ StartRead(g)

WriteStep(g) ==
    Emit(g) \/ NeedSession(g) \/ NotConnected(g) \/ Serve(g) \/ Refused(g)
        \/ Ack(g) \/ CallTimeout(g) \/ Ready(g) \/ Has(g) \/ Wait(g)
        \/ WaitPush(g) \/ WaitTimeout(g)

ReadStep(g) ==
    Ensure(g) \/ ForceReload(g) \/ Recheck(g) \/ Last(g) \/ Get(g)

SessionStep(g) ==
    EnterSession(g) \/ AfterLogin(g) \/ LoggedIn(g) \/ DialFailed(g)

Next ==
    \/ \E g \in Callers :
          Start(g) \/ WriteStep(g) \/ ReadStep(g) \/ SessionStep(g)
    \/ Dispatch
    \/ Replace
    \/ Disconnect

Spec == Init /\ [][Next]_vars

\* The library's goroutine keeps handling what the socket delivers.
FairSpec == Spec /\ WF_vars(Dispatch) /\ WF_vars(Replace)

-----------------------------------------------------------------------------
(* Properties.                                                             *)

TypeOK ==
    /\ getter \in BOOLEAN
    /\ rows \in Snapshots
    /\ lastId \in 0..MaxRows
    /\ state \subseteq Ids
    /\ wire \in Seq(Snapshots) /\ Len(wire) <= MaxPushes
    /\ running \in {<<>>} \cup {<<r>> : r \in Snapshots}
    /\ items \in Snapshots
    /\ loaded \in BOOLEAN
    /\ session \in {"up", "broken", "down"}
    /\ reconnects \in 0..MaxReconnects
    /\ pc \in [Callers -> Pcs]
    /\ op \in [Callers -> [kind : Writes \cup {"read", "none"}, id : 0..MaxRows,
                           version : 0..MaxVersion]]
    /\ request \in [Callers -> {"write", "list"}]
    /\ resume \in [Callers -> {"recall", "recheck"}]
    /\ closed \in [Callers -> BOOLEAN]
    /\ settled \in [Callers -> {"no", "row", "unloaded", "push", "timeout"}]
    /\ quiet \in [Callers -> BOOLEAN]

\* No write sleeps through the push it waits for: while the list is loaded, a
\* goroutine on an open channel has not been shown its row yet.
NoLostWakeup ==
    \A g \in Callers :
        pc[g] = "wait" /\ loaded /\ Shown(g) => closed[g]

\* A create whose row the pushed list has shown reads that row back, whatever
\* other writes push in between, unless a reconnect emptied the list.
ConfirmedCreateIsReadBack ==
    \A g \in Callers :
        /\ op[g].kind = "create" /\ settled[g] = "row" /\ quiet[g]
        /\ pc[g] = "get"
        => items[op[g].id] # 0

\* Once the session stays up, the cached list ends up equal to the server's:
\* nothing lost on an earlier session, and no old push, is left in it.
CacheConverges ==
    <>[](session = "up") => <>[](loaded /\ items = rows)

\* A resource leaves the Terraform state only once the server has no row for it.
ReadNeverLosesARow ==
    [][\A i \in state \ state' : rows[i] = 0]_vars

\* An update that was woken by a push, with no reconnect in between, reads back
\* what it wrote.
UpdateReadsBackItsWrite ==
    \A g \in Callers :
        /\ op[g].kind = "update" /\ settled[g] = "push" /\ quiet[g]
        /\ pc[g] = "get"
        => items[op[g].id] = op[g].version

\* A create that found the list unloaded is read back too: the read that follows
\* loads the list.
UnloadedCreateIsReadBack ==
    \A g \in Callers :
        /\ op[g].kind = "create" /\ settled[g] = "unloaded" /\ quiet[g]
        /\ pc[g] = "get"
        => items[op[g].id] # 0
==============================================================================
