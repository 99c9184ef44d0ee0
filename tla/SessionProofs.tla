---------------------------- MODULE SessionProofs ----------------------------
(***************************************************************************)
(* Proofs about Session, for any set of goroutines, any number of retries  *)
(* and any bound on the sessions dialed.  The inductive invariant Inv says *)
(* who holds which lock at each label, what the client's fields are worth  *)
(* at each stage of a reconnect, and which session a call or a reload has  *)
(* seen.                                                                   *)
(***************************************************************************)
EXTENDS Session, TLAPS

ExclusivePcs == WriterPcs \ {"drain"}
UnlockedPcs  == {"dial", "backoff"}
AuthPcs      == {"auth", "tokenAck", "loginAck", "selfMark"}
ReloadPcs    == {"lock"} \cup WriterPcs

\* Every label tells which locks its goroutine holds, and a writer past the
\* drain is alone.
LockInv ==
    /\ readers = {g \in Callers : pc[g] \in ReaderPcs}
    /\ \A g \in Callers : writer = g <=> pc[g] \in WriterPcs
    /\ \A g \in Callers : mu = g <=> pc[g] \in DialingPcs
    /\ \A g \in Callers : pc[g] \in ExclusivePcs => readers = {}

\* Which operation can stand at which label.
FlowInv ==
    \A g \in Callers :
        /\ pc[g] \in ReaderPcs \cup {"rlock", "rwait"} => op[g] = "call"
        /\ pc[g] = "forceMark" => op[g] = "reload"

\* c.sio, c.cancel and the live connection contexts, outside a reconnect and at
\* each stage of one.
ConnectionInv ==
    /\ mu = NoCaller => cancelFn = sio /\ open = {sio} \ {0}
    /\ \A g \in Callers :
          /\ pc[g] \in UnlockedPcs => sio = 0 /\ cancelFn = 0 /\ open = {}
          /\ pc[g] = "handshake" =>
                sio = 0 /\ cancelFn # 0 /\ open = {cancelFn}
          /\ pc[g] \in AuthPcs =>
                sio # 0 /\ cancelFn = sio /\ open = {sio}

\* A session is authenticated, and its token kept, before mu is released.
LoginInv ==
    /\ mu = NoCaller /\ sio # 0 => cfg.skipAuth \/ (sio \in loggedIn /\ jwt)
    /\ \A g \in Callers : pc[g] = "tokenAck" => jwt

\* The session a call was handed is still the client's.
HeldInv ==
    \A g \in Callers : pc[g] \in {"emit", "await"} => held[g] = sio /\ sio # 0

\* The session a reload dropped can only be the current one while it is still
\* marked unhealthy, and a dialed one is newer.
ReloadInv ==
    \A g \in Callers : op[g] = "reload" /\ pc[g] \in ReloadPcs =>
        /\ held[g] <= dialed
        /\ cancelFn # 0 /\ cancelFn <= held[g] =>
              mu = NoCaller /\ ~healthy

DialInv == cancelFn <= dialed

Inv == /\ TypeOK /\ LockInv /\ FlowInv /\ ConnectionInv /\ LoginInv
       /\ HeldInv /\ ReloadInv /\ DialInv

-----------------------------------------------------------------------------
(* What the helpers of the actions do to the types.                        *)

\* The part of TypeOK the end of an operation, or of a reconnect, writes.
LocalTypes ==
    /\ pass \in [Callers -> {1, 2}]
    /\ held \in [Callers -> 0..MaxSessions]
    /\ cancelled \in [Callers -> BOOLEAN]
    /\ result \in [Callers -> Results]

LockTypes ==
    /\ pc \in [Callers -> Pcs]
    /\ readers \subseteq Callers
    /\ writer \in Callers \cup {NoCaller}
    /\ mu \in Callers \cup {NoCaller}
    /\ attempt \in 0..MaxRetries

ConnectionTypes ==
    /\ sio \in 0..MaxSessions
    /\ healthy \in BOOLEAN
    /\ cancelFn \in 0..MaxSessions
    /\ open \subseteq Sessions
    /\ loggedIn \subseteq Sessions
    /\ lost \subseteq Sessions

LEMMA ReturnTypes ==
    ASSUME NEW g \in Callers, NEW r \in Results, TypeOK, Return(g, r)
    PROVE  LocalTypes'
<1>1. cancelled' \in [Callers -> BOOLEAN]
  BY DEF Return, TypeOK
<1>2. result' \in [Callers -> Results] /\ pass' \in [Callers -> {1, 2}]
  BY DEF Return, TypeOK
<1>3. held' \in [Callers -> 0..MaxSessions]
  BY SessionAssumption DEF Return, TypeOK
<1> QED
  BY <1>1, <1>2, <1>3 DEF LocalTypes

LEMMA LeaveSessionTypes ==
    ASSUME NEW g \in Callers, NEW label \in Pcs, TypeOK, LeaveSession(g, label)
    PROVE  LockTypes'
<1>1. pc' \in [Callers -> Pcs]
  <2>1. "check" \in Pcs
    BY DEF Pcs, ReaderPcs
  <2> QED
    BY <2>1 DEF LeaveSession, TypeOK
<1>2. readers' \subseteq Callers
  BY DEF LeaveSession, Woken, TypeOK
<1> QED
  BY <1>1, <1>2, SessionAssumption DEF LeaveSession, TypeOK, LockTypes

LEMMA CloseLockedTypes ==
    ASSUME TypeOK, CloseLocked
    PROVE  ConnectionTypes'
<1>1. sio' = 0 /\ cancelFn' = 0 /\ 0 \in 0..MaxSessions
  BY SessionAssumption DEF CloseLocked
<1>2. open' \subseteq Sessions /\ loggedIn' \subseteq Sessions
          /\ lost' \subseteq Sessions
  BY DEF CloseLocked, TypeOK
<1>3. healthy' \in BOOLEAN
  BY DEF CloseLocked
<1> QED
  BY <1>1, <1>2, <1>3 DEF ConnectionTypes

LEMMA SessionUpTypes ==
    ASSUME NEW g \in Callers, TypeOK, SessionUp(g)
    PROVE  LocalTypes' /\ LockTypes'
<1>1. {"rlock", "idle"} \subseteq Pcs /\ {"ok", "failed"} \subseteq Results
  BY DEF Pcs, Results
<1>2. CASE /\ pass' = [pass EXCEPT ![g] = 2]
           /\ LeaveSession(g, "rlock")
           /\ UNCHANGED <<held, cancelled, result>>
  <2>1. LockTypes'
    BY <1>1, <1>2, LeaveSessionTypes
  <2>2. LocalTypes'
    BY <1>2 DEF TypeOK, LocalTypes
  <2> QED
    BY <2>1, <2>2
<1>3. CASE \E r \in {"ok", "failed"} : Return(g, r) /\ LeaveSession(g, "idle")
  BY <1>1, <1>3, LeaveSessionTypes, ReturnTypes
<1> QED
  BY <1>2, <1>3 DEF SessionUp

LEMMA SessionFailedTypes ==
    ASSUME NEW g \in Callers, TypeOK, SessionFailed(g)
    PROVE  LocalTypes' /\ LockTypes'
<1>1. "idle" \in Pcs /\ "failed" \in Results
  BY DEF Pcs, Results
<1> QED
  BY <1>1, LeaveSessionTypes, ReturnTypes DEF SessionFailed

LEMMA GiveUpOrBackOffTypes ==
    ASSUME NEW g \in Callers, TypeOK, GiveUpOrBackOff(g)
    PROVE  TypeOK'
<1>1. ConnectionTypes'
  BY CloseLockedTypes DEF GiveUpOrBackOff
<1>2. LocalTypes' /\ LockTypes'
  <2>1. CASE /\ attempt + 1 < Attempts
             /\ attempt' = attempt + 1
             /\ Goto(g, "backoff")
             /\ UNCHANGED <<readers, writer, mu, locals>>
    <3>1. attempt' \in 0..MaxRetries
      BY <2>1, SessionAssumption DEF TypeOK, Attempts
    <3>2. pc' \in [Callers -> Pcs]
      BY <2>1 DEF TypeOK, Goto, Pcs, WriterPcs, DialingPcs
    <3> QED
      BY <2>1, <3>1, <3>2 DEF TypeOK, LocalTypes, LockTypes, locals
  <2>2. CASE SessionFailed(g)
    BY <2>2, SessionFailedTypes
  <2> QED
    BY <2>1, <2>2 DEF GiveUpOrBackOff
<1> QED
  BY <1>1, <1>2
     DEF GiveUpOrBackOff, TypeOK, ConnectionTypes, LocalTypes, LockTypes

\* A failed attempt leaves no connection and no session behind.
LEMMA GiveUpOrBackOffConnection ==
    ASSUME NEW g \in Callers, TypeOK, LockInv, ConnectionInv,
           pc[g] \in {"dial", "handshake"} \cup AuthPcs, GiveUpOrBackOff(g)
    PROVE  ConnectionInv'
<1>1. sio' = 0 /\ cancelFn' = 0
  BY DEF GiveUpOrBackOff, CloseLocked
<1>2. open' = {}
  BY DEF GiveUpOrBackOff, CloseLocked, ConnectionInv, UnlockedPcs
<1>3. \A h \in Callers :
         pc'[h] \in {"handshake"} \cup AuthPcs => pc[h] = pc'[h] /\ h # g
  BY DEF GiveUpOrBackOff, SessionFailed, LeaveSession, Woken, Goto, TypeOK,
         AuthPcs
<1>4. \A h \in Callers : pc[h] \in {"handshake"} \cup AuthPcs => h = g
  BY DEF LockInv, DialingPcs, AuthPcs
<1> QED
  BY <1>1, <1>2, <1>3, <1>4 DEF ConnectionInv

-----------------------------------------------------------------------------
(* Every step preserves the invariant.                                     *)

LEMMA InvStep == Inv /\ [Next]_vars => Inv'
<1> SUFFICES ASSUME Inv, [Next]_vars PROVE Inv'
  OBVIOUS
<1> USE SessionAssumption
<1>1. ASSUME NEW g \in Callers, StartCall(g) PROVE Inv'
  <2>1. TypeOK'
    BY <1>1, Inv DEF Inv, StartCall, Begin, Goto, locks, client, network,
       TypeOK, Pcs, ReaderPcs, WriterPcs, DialingPcs, Results, Sessions
  <2>2. LockInv'
    BY <1>1, Inv DEF Inv, StartCall, Begin, Goto, locks, client, network,
       LockInv, ReaderPcs, ExclusivePcs, WriterPcs, DialingPcs
  <2>3. FlowInv'
    BY <1>1, Inv DEF Inv, StartCall, Begin, Goto, locks, client, network,
       FlowInv, TypeOK, ReaderPcs, Pcs, WriterPcs, DialingPcs, Results,
       Sessions
  <2>4. ConnectionInv'
    BY <1>1, Inv DEF Inv, StartCall, Begin, Goto, locks, client, network,
       ConnectionInv, UnlockedPcs, AuthPcs
  <2>5. LoginInv'
    BY <1>1, Inv DEF Inv, StartCall, Begin, Goto, locks, client, network,
       LoginInv
  <2>6. HeldInv'
    BY <1>1, Inv DEF Inv, StartCall, Begin, Goto, locks, client, network,
       HeldInv
  <2>7. ReloadInv' /\ DialInv'
    BY <1>1, Inv DEF Inv, StartCall, Begin, Goto, locks, client, network,
       ReloadInv, DialInv, ReloadPcs, WriterPcs, DialingPcs
  <2> QED
    BY <2>1, <2>2, <2>3, <2>4, <2>5, <2>6, <2>7 DEF Inv
<1>2. ASSUME NEW g \in Callers, StartReload(g) PROVE Inv'
  <2>1. TypeOK'
    BY <1>2, Inv DEF Inv, StartReload, Begin, Goto, locks, client, network,
       TypeOK, Pcs, ReaderPcs, WriterPcs, DialingPcs, Results, Sessions
  <2>2. LockInv'
    BY <1>2, Inv DEF Inv, StartReload, Begin, Goto, locks, client, network,
       LockInv, ReaderPcs, ExclusivePcs, WriterPcs, DialingPcs
  <2>3. FlowInv'
    BY <1>2, Inv DEF Inv, StartReload, Begin, Goto, locks, client, network,
       FlowInv, TypeOK, ReaderPcs, Pcs, WriterPcs, DialingPcs, Results,
       Sessions
  <2>4. ConnectionInv'
    BY <1>2, Inv DEF Inv, StartReload, Begin, Goto, locks, client, network,
       ConnectionInv, UnlockedPcs, AuthPcs
  <2>5. LoginInv'
    BY <1>2, Inv DEF Inv, StartReload, Begin, Goto, locks, client, network,
       LoginInv
  <2>6. HeldInv'
    BY <1>2, Inv DEF Inv, StartReload, Begin, Goto, locks, client, network,
       HeldInv
  <2>7. ReloadInv' /\ DialInv'
    BY <1>2, Inv DEF Inv, StartReload, Begin, Goto, locks, client, network,
       ReloadInv, DialInv, ReloadPcs, WriterPcs, DialingPcs
  <2> QED
    BY <2>1, <2>2, <2>3, <2>4, <2>5, <2>6, <2>7 DEF Inv
<1>3. ASSUME NEW g \in Callers, RLock(g) PROVE Inv'
  <2>1. TypeOK'
    BY <1>3, Inv DEF Inv, RLock, Goto, locals, caller, client, network,
       TypeOK, Pcs, ReaderPcs, WriterPcs, DialingPcs, Results, Sessions
  <2>2. LockInv'
    BY <1>3, Inv DEF Inv, RLock, Goto, locals, caller, client, network,
       LockInv, TypeOK, ReaderPcs, ExclusivePcs, WriterPcs, DialingPcs, Pcs,
       Results, Sessions
  <2>3. FlowInv'
    BY <1>3, Inv DEF Inv, RLock, Goto, locals, caller, client, network,
       FlowInv, TypeOK, ReaderPcs, Pcs, WriterPcs, DialingPcs, Results,
       Sessions
  <2>4. ConnectionInv'
    BY <1>3, Inv DEF Inv, RLock, Goto, locals, caller, client, network,
       ConnectionInv, TypeOK, UnlockedPcs, AuthPcs, Pcs, ReaderPcs,
       WriterPcs, DialingPcs, Results, Sessions
  <2>5. LoginInv'
    BY <1>3, Inv DEF Inv, RLock, Goto, locals, caller, client, network,
       LoginInv, TypeOK, Pcs, ReaderPcs, WriterPcs, DialingPcs, Results,
       Sessions
  <2>6. HeldInv'
    BY <1>3, Inv DEF Inv, RLock, Goto, locals, caller, client, network,
       HeldInv, TypeOK, Pcs, ReaderPcs, WriterPcs, DialingPcs, Results,
       Sessions
  <2>7. ReloadInv' /\ DialInv'
    BY <1>3, Inv DEF Inv, RLock, Goto, locals, caller, client, network,
       ReloadInv, DialInv, TypeOK, ReloadPcs, WriterPcs, DialingPcs, Pcs,
       ReaderPcs, Results, Sessions
  <2> QED
    BY <2>1, <2>2, <2>3, <2>4, <2>5, <2>6, <2>7 DEF Inv
<1>4. ASSUME NEW g \in Callers, CheckLive(g) PROVE Inv'
  <2>1. TypeOK'
    BY <1>4, Inv DEF Inv, CheckLive, Goto, client, network, TypeOK, Pcs,
       ReaderPcs, WriterPcs, DialingPcs, Results, Sessions
  <2>2. LockInv'
    BY <1>4, Inv DEF Inv, CheckLive, Goto, client, network, LockInv, TypeOK,
       ReaderPcs, ExclusivePcs, WriterPcs, DialingPcs, Pcs, Results, Sessions
  <2>3. FlowInv'
    BY <1>4, Inv DEF Inv, CheckLive, Goto, client, network, FlowInv, TypeOK,
       ReaderPcs, Pcs, WriterPcs, DialingPcs, Results, Sessions
  <2>4. ConnectionInv'
    BY <1>4, Inv DEF Inv, CheckLive, Goto, client, network, ConnectionInv,
       TypeOK, UnlockedPcs, AuthPcs, Pcs, ReaderPcs, WriterPcs, DialingPcs,
       Results, Sessions
  <2>5. LoginInv'
    BY <1>4, Inv DEF Inv, CheckLive, Goto, client, network, LoginInv, TypeOK,
       Pcs, ReaderPcs, WriterPcs, DialingPcs, Results, Sessions
  <2>6. HeldInv'
    BY <1>4, Inv DEF Inv, CheckLive, Goto, client, network, HeldInv, TypeOK,
       Pcs, ReaderPcs, WriterPcs, DialingPcs, Results, Sessions
  <2>7. ReloadInv' /\ DialInv'
    BY <1>4, Inv DEF Inv, CheckLive, Goto, client, network, ReloadInv,
       DialInv, TypeOK, LockInv, ConnectionInv, FlowInv, LoginInv, HeldInv,
       ReloadPcs, WriterPcs, DialingPcs, Pcs, ReaderPcs, Results, Sessions,
       ExclusivePcs, UnlockedPcs, AuthPcs
  <2> QED
    BY <2>1, <2>2, <2>3, <2>4, <2>5, <2>6, <2>7 DEF Inv
<1>5. ASSUME NEW g \in Callers, Emit(g) PROVE Inv'
  <2>1. TypeOK'
    BY <1>5, Inv DEF Inv, Emit, Goto, locks, client, network, TypeOK, Pcs,
       ReaderPcs, WriterPcs, DialingPcs, Results, Sessions
  <2>2. LockInv'
    BY <1>5, Inv DEF Inv, Emit, Goto, locks, client, network, LockInv,
       TypeOK, ReaderPcs, ExclusivePcs, WriterPcs, DialingPcs, Pcs, Results,
       Sessions
  <2>3. FlowInv'
    BY <1>5, Inv DEF Inv, Emit, Goto, locks, client, network, FlowInv,
       TypeOK, ReaderPcs, Pcs, WriterPcs, DialingPcs, Results, Sessions
  <2>4. ConnectionInv'
    BY <1>5, Inv DEF Inv, Emit, Goto, locks, client, network, ConnectionInv,
       TypeOK, UnlockedPcs, AuthPcs, Pcs, ReaderPcs, WriterPcs, DialingPcs,
       Results, Sessions
  <2>5. LoginInv'
    BY <1>5, Inv DEF Inv, Emit, Goto, locks, client, network, LoginInv,
       TypeOK, Pcs, ReaderPcs, WriterPcs, DialingPcs, Results, Sessions
  <2>6. HeldInv'
    BY <1>5, Inv DEF Inv, Emit, Goto, locks, client, network, HeldInv,
       TypeOK, Pcs, ReaderPcs, WriterPcs, DialingPcs, Results, Sessions
  <2>7. ReloadInv' /\ DialInv'
    BY <1>5, Inv DEF Inv, Emit, Goto, locks, client, network, ReloadInv,
       DialInv, TypeOK, ReloadPcs, WriterPcs, DialingPcs, Pcs, ReaderPcs,
       Results, Sessions
  <2> QED
    BY <2>1, <2>2, <2>3, <2>4, <2>5, <2>6, <2>7 DEF Inv
<1>6. ASSUME NEW g \in Callers, Ack(g) PROVE Inv'
  <2>1. TypeOK'
    BY <1>6, Inv DEF Inv, Ack, Return, Goto, client, network, TypeOK, Pcs,
       ReaderPcs, WriterPcs, DialingPcs, Results, Sessions
  <2>2. LockInv'
    BY <1>6, Inv DEF Inv, Ack, Return, Goto, client, network, LockInv,
       TypeOK, ReaderPcs, ExclusivePcs, WriterPcs, DialingPcs, Pcs, Results,
       Sessions
  <2>3. FlowInv'
    BY <1>6, Inv DEF Inv, Ack, Return, Goto, client, network, FlowInv,
       ReaderPcs
  <2>4. ConnectionInv'
    BY <1>6, Inv DEF Inv, Ack, Return, Goto, client, network, ConnectionInv,
       UnlockedPcs, AuthPcs
  <2>5. LoginInv'
    BY <1>6, Inv DEF Inv, Ack, Return, Goto, client, network, LoginInv
  <2>6. HeldInv'
    BY <1>6, Inv DEF Inv, Ack, Return, Goto, client, network, HeldInv,
       TypeOK, Pcs, ReaderPcs, WriterPcs, DialingPcs, Results, Sessions
  <2>7. ReloadInv' /\ DialInv'
    BY <1>6, Inv DEF Inv, Ack, Return, Goto, client, network, ReloadInv,
       DialInv, ReloadPcs, WriterPcs, DialingPcs
  <2> QED
    BY <2>1, <2>2, <2>3, <2>4, <2>5, <2>6, <2>7 DEF Inv
<1>7. ASSUME NEW g \in Callers, CallTimeout(g) PROVE Inv'
  <2>1. TypeOK'
    BY <1>7, Inv DEF Inv, CallTimeout, Goto, locks, client, network, TypeOK,
       Pcs, ReaderPcs, WriterPcs, DialingPcs, Results, Sessions
  <2>2. LockInv'
    BY <1>7, Inv DEF Inv, CallTimeout, Goto, locks, client, network, LockInv,
       ReaderPcs, ExclusivePcs, WriterPcs, DialingPcs
  <2>3. FlowInv'
    BY <1>7, Inv DEF Inv, CallTimeout, Goto, locks, client, network, FlowInv,
       ReaderPcs
  <2>4. ConnectionInv'
    BY <1>7, Inv DEF Inv, CallTimeout, Goto, locks, client, network,
       ConnectionInv, UnlockedPcs, AuthPcs
  <2>5. LoginInv'
    BY <1>7, Inv DEF Inv, CallTimeout, Goto, locks, client, network, LoginInv
  <2>6. HeldInv'
    BY <1>7, Inv DEF Inv, CallTimeout, Goto, locks, client, network, HeldInv
  <2>7. ReloadInv' /\ DialInv'
    BY <1>7, Inv DEF Inv, CallTimeout, Goto, locks, client, network,
       ReloadInv, DialInv, ReloadPcs, WriterPcs, DialingPcs
  <2> QED
    BY <2>1, <2>2, <2>3, <2>4, <2>5, <2>6, <2>7 DEF Inv
<1>8. ASSUME NEW g \in Callers, CallCancelled(g) PROVE Inv'
  <2>1. TypeOK'
    BY <1>8, Inv DEF Inv, CallCancelled, Return, Goto, client, network,
       TypeOK, Pcs, ReaderPcs, WriterPcs, DialingPcs, Results, Sessions
  <2>2. LockInv'
    BY <1>8, Inv DEF Inv, CallCancelled, Return, Goto, client, network,
       LockInv, TypeOK, ReaderPcs, ExclusivePcs, WriterPcs, DialingPcs, Pcs,
       Results, Sessions
  <2>3. FlowInv'
    BY <1>8, Inv DEF Inv, CallCancelled, Return, Goto, client, network,
       FlowInv, ReaderPcs
  <2>4. ConnectionInv'
    BY <1>8, Inv DEF Inv, CallCancelled, Return, Goto, client, network,
       ConnectionInv, UnlockedPcs, AuthPcs
  <2>5. LoginInv'
    BY <1>8, Inv DEF Inv, CallCancelled, Return, Goto, client, network,
       LoginInv
  <2>6. HeldInv'
    BY <1>8, Inv DEF Inv, CallCancelled, Return, Goto, client, network,
       HeldInv, TypeOK, Pcs, ReaderPcs, WriterPcs, DialingPcs, Results,
       Sessions
  <2>7. ReloadInv' /\ DialInv'
    BY <1>8, Inv DEF Inv, CallCancelled, Return, Goto, client, network,
       ReloadInv, DialInv, ReloadPcs, WriterPcs, DialingPcs
  <2> QED
    BY <2>1, <2>2, <2>3, <2>4, <2>5, <2>6, <2>7 DEF Inv
<1>9. ASSUME NEW g \in Callers, MarkUnhealthy(g) PROVE Inv'
  <2>1. TypeOK'
    <3>1. LocalTypes'
      BY <1>9, ReturnTypes DEF Inv, MarkUnhealthy, TypeOK
    <3>2. pc' \in [Callers -> Pcs]
      BY <1>9 DEF Inv, MarkUnhealthy, TypeOK, Goto, Pcs
    <3> QED
      BY <1>9, <3>1, <3>2 DEF Inv, MarkUnhealthy, TypeOK, LocalTypes, network
  <2>2. LockInv'
    BY <1>9, Inv DEF Inv, MarkUnhealthy, Return, Goto, network, LockInv,
       TypeOK, ReaderPcs, ExclusivePcs, WriterPcs, DialingPcs, Pcs, Results,
       Sessions
  <2>3. FlowInv'
    BY <1>9, Inv DEF Inv, MarkUnhealthy, Return, Goto, network, FlowInv,
       ReaderPcs
  <2>4. ConnectionInv'
    BY <1>9, Inv DEF Inv, MarkUnhealthy, Return, Goto, network,
       ConnectionInv, UnlockedPcs, AuthPcs
  <2>5. LoginInv'
    BY <1>9, Inv DEF Inv, MarkUnhealthy, Return, Goto, network, LoginInv
  <2>6. HeldInv'
    BY <1>9, Inv DEF Inv, MarkUnhealthy, Return, Goto, network, HeldInv
  <2>7. ReloadInv' /\ DialInv'
    BY <1>9, Inv DEF Inv, MarkUnhealthy, Return, Goto, network, ReloadInv,
       DialInv, ReloadPcs, WriterPcs, DialingPcs
  <2> QED
    BY <2>1, <2>2, <2>3, <2>4, <2>5, <2>6, <2>7 DEF Inv
<1>10. ASSUME NEW g \in Callers, ForceUnhealthy(g) PROVE Inv'
  <2>1. TypeOK'
    BY <1>10, Inv DEF Inv, ForceUnhealthy, Goto, locks, network, TypeOK, Pcs,
       ReaderPcs, WriterPcs, DialingPcs, Results, Sessions
  <2>2. LockInv'
    BY <1>10, Inv DEF Inv, ForceUnhealthy, Goto, locks, network, LockInv,
       ReaderPcs, ExclusivePcs, WriterPcs, DialingPcs
  <2>3. FlowInv'
    BY <1>10, Inv DEF Inv, ForceUnhealthy, Goto, locks, network, FlowInv,
       ReaderPcs
  <2>4. ConnectionInv'
    BY <1>10, Inv DEF Inv, ForceUnhealthy, Goto, locks, network,
       ConnectionInv, UnlockedPcs, AuthPcs
  <2>5. LoginInv'
    BY <1>10, Inv DEF Inv, ForceUnhealthy, Goto, locks, network, LoginInv
  <2>6. HeldInv'
    BY <1>10, Inv DEF Inv, ForceUnhealthy, Goto, locks, network, HeldInv
  <2>7. ReloadInv' /\ DialInv'
    BY <1>10, Inv DEF Inv, ForceUnhealthy, Goto, locks, network, ReloadInv,
       DialInv, TypeOK, LockInv, ConnectionInv, ReloadPcs, WriterPcs,
       DialingPcs, Pcs, ReaderPcs, Results, Sessions, ExclusivePcs,
       UnlockedPcs, AuthPcs
  <2> QED
    BY <2>1, <2>2, <2>3, <2>4, <2>5, <2>6, <2>7 DEF Inv
<1>11. ASSUME NEW g \in Callers, LockLive(g) PROVE Inv'
  <2>1. TypeOK'
    BY <1>11, Inv DEF Inv, LockLive, Goto, locals, caller, client, network,
       TypeOK, Pcs, ReaderPcs, WriterPcs, DialingPcs, Results, Sessions
  <2>2. LockInv'
    BY <1>11, Inv DEF Inv, LockLive, Goto, locals, caller, client, network,
       LockInv, TypeOK, ReaderPcs, ExclusivePcs, WriterPcs, DialingPcs, Pcs,
       Results, Sessions
  <2>3. FlowInv'
    BY <1>11, Inv DEF Inv, LockLive, Goto, locals, caller, client, network,
       FlowInv, ReaderPcs
  <2>4. ConnectionInv'
    BY <1>11, Inv DEF Inv, LockLive, Goto, locals, caller, client, network,
       ConnectionInv, UnlockedPcs, AuthPcs
  <2>5. LoginInv'
    BY <1>11, Inv DEF Inv, LockLive, Goto, locals, caller, client, network,
       LoginInv
  <2>6. HeldInv'
    BY <1>11, Inv DEF Inv, LockLive, Goto, locals, caller, client, network,
       HeldInv
  <2>7. ReloadInv' /\ DialInv'
    BY <1>11, Inv DEF Inv, LockLive, Goto, locals, caller, client, network,
       ReloadInv, DialInv, ReloadPcs, WriterPcs, DialingPcs
  <2> QED
    BY <2>1, <2>2, <2>3, <2>4, <2>5, <2>6, <2>7 DEF Inv
<1>12. ASSUME NEW g \in Callers, Drained(g) PROVE Inv'
  <2>1. TypeOK'
    BY <1>12, Inv DEF Inv, Drained, Goto, locals, caller, locks, client,
       network, TypeOK, Pcs, ReaderPcs, WriterPcs, DialingPcs, Results,
       Sessions
  <2>2. LockInv'
    BY <1>12, Inv DEF Inv, Drained, Goto, locals, caller, locks, client,
       network, LockInv, ReaderPcs, ExclusivePcs, WriterPcs, DialingPcs
  <2>3. FlowInv'
    BY <1>12, Inv DEF Inv, Drained, Goto, locals, caller, locks, client,
       network, FlowInv, ReaderPcs
  <2>4. ConnectionInv'
    BY <1>12, Inv DEF Inv, Drained, Goto, locals, caller, locks, client,
       network, ConnectionInv, UnlockedPcs, AuthPcs
  <2>5. LoginInv'
    BY <1>12, Inv DEF Inv, Drained, Goto, locals, caller, locks, client,
       network, LoginInv
  <2>6. HeldInv'
    BY <1>12, Inv DEF Inv, Drained, Goto, locals, caller, locks, client,
       network, HeldInv
  <2>7. ReloadInv' /\ DialInv'
    BY <1>12, Inv DEF Inv, Drained, Goto, locals, caller, locks, client,
       network, ReloadInv, DialInv, ReloadPcs, WriterPcs, DialingPcs
  <2> QED
    BY <2>1, <2>2, <2>3, <2>4, <2>5, <2>6, <2>7 DEF Inv
<1>13. ASSUME NEW g \in Callers, EnterSession(g) PROVE Inv'
  <2>1. TypeOK'
    <3>1. CASE /\ SessionUp(g)
               /\ UNCHANGED <<client, open, loggedIn, lost>>
      <4>1. LocalTypes' /\ LockTypes'
        BY <3>1, SessionUpTypes DEF Inv
      <4> QED
        BY <1>13, <3>1, <4>1
           DEF Inv, EnterSession, TypeOK, LocalTypes, LockTypes, client
    <3>2. CASE /\ CloseLocked
               /\ mu' = g
               /\ Goto(g, "dial")
               /\ UNCHANGED <<cfg, readers, writer, jwt, locals, attempt>>
      <4>1. ConnectionTypes'
        BY <3>2, CloseLockedTypes DEF Inv
      <4>2. pc' \in [Callers -> Pcs]
        BY <3>2 DEF Inv, TypeOK, Goto, Pcs, WriterPcs, DialingPcs
      <4> QED
        BY <1>13, <3>2, <4>1, <4>2
           DEF Inv, EnterSession, TypeOK, ConnectionTypes, locals
    <3> QED
      BY <1>13, <3>1, <3>2 DEF EnterSession
  <2>2. LockInv'
    BY <1>13, Inv DEF Inv, EnterSession, SessionUp, Return, LeaveSession,
       Woken, CloseLocked, Goto, locals, client, LockInv, TypeOK, ReaderPcs,
       ExclusivePcs, WriterPcs, DialingPcs, Pcs, Results, Sessions
  <2>3. FlowInv'
    BY <1>13, Inv DEF Inv, EnterSession, SessionUp, Return, LeaveSession,
       Woken, CloseLocked, Goto, locals, client, FlowInv, TypeOK, ReaderPcs,
       Pcs, WriterPcs, DialingPcs, Results, Sessions
  <2>4. ConnectionInv'
    BY <1>13, Inv DEF Inv, EnterSession, SessionUp, Return, LeaveSession,
       Woken, CloseLocked, Goto, locals, client, ConnectionInv, TypeOK,
       LockInv, UnlockedPcs, AuthPcs, Pcs, ReaderPcs, WriterPcs, DialingPcs,
       Results, Sessions, ExclusivePcs
  <2>5. LoginInv'
    BY <1>13, Inv DEF Inv, EnterSession, SessionUp, Return, LeaveSession,
       Woken, CloseLocked, Goto, locals, client, LoginInv, TypeOK, Pcs,
       ReaderPcs, WriterPcs, DialingPcs, Results, Sessions
  <2>6. HeldInv'
    BY <1>13, Inv DEF Inv, EnterSession, SessionUp, Return, LeaveSession,
       Woken, CloseLocked, Goto, locals, client, HeldInv, TypeOK, LockInv,
       Pcs, ReaderPcs, WriterPcs, DialingPcs, Results, Sessions, ExclusivePcs
  <2>7. ReloadInv' /\ DialInv'
    BY <1>13, Inv DEF Inv, EnterSession, SessionUp, Return, LeaveSession,
       Woken, CloseLocked, Goto, locals, client, ReloadInv, DialInv, TypeOK,
       ReloadPcs, WriterPcs, DialingPcs, Pcs, ReaderPcs, Results, Sessions
  <2> QED
    BY <2>1, <2>2, <2>3, <2>4, <2>5, <2>6, <2>7 DEF Inv
<1>14. ASSUME NEW g \in Callers, Dial(g) PROVE Inv'
  <2>1. TypeOK'
    BY <1>14, Inv DEF Inv, Dial, Goto, locals, caller, locks, TypeOK, Pcs,
       ReaderPcs, WriterPcs, DialingPcs, Results, Sessions
  <2>2. LockInv'
    BY <1>14, Inv DEF Inv, Dial, Goto, locals, caller, locks, LockInv,
       ReaderPcs, ExclusivePcs, WriterPcs, DialingPcs
  <2>3. FlowInv'
    BY <1>14, Inv DEF Inv, Dial, Goto, locals, caller, locks, FlowInv,
       ReaderPcs
  <2>4. ConnectionInv'
    <3>1. cancelFn' = dialed + 1 /\ dialed + 1 # 0 /\ sio' = 0 /\ mu = g
      BY <1>14, Inv DEF Inv, Dial, client, TypeOK, LockInv, ConnectionInv,
         UnlockedPcs, DialingPcs
    <3>2. open' = {cancelFn'}
      BY <1>14, Inv DEF Inv, Dial, ConnectionInv, UnlockedPcs
    <3>3. \A h \in Callers : pc'[h] \in DialingPcs => h = g
      BY <1>14, Inv DEF Inv, Dial, Goto, LockInv, TypeOK, DialingPcs
    <3>4. pc'[g] = "handshake" /\ mu' = g /\ mu' # NoCaller
      BY <1>14, <3>1 DEF Inv, Dial, Goto, TypeOK, locks
    <3> QED
      BY <3>1, <3>2, <3>3, <3>4
         DEF ConnectionInv, UnlockedPcs, AuthPcs, DialingPcs
  <2>5. LoginInv'
    BY <1>14, Inv DEF Inv, Dial, Goto, locals, caller, locks, LoginInv
  <2>6. HeldInv'
    BY <1>14, Inv DEF Inv, Dial, Goto, locals, caller, locks, HeldInv
  <2>7. ReloadInv' /\ DialInv'
    BY <1>14, Inv DEF Inv, Dial, Goto, locals, caller, locks, ReloadInv,
       DialInv, TypeOK, ReloadPcs, WriterPcs, DialingPcs, Pcs, ReaderPcs,
       Results, Sessions
  <2> QED
    BY <2>1, <2>2, <2>3, <2>4, <2>5, <2>6, <2>7 DEF Inv
<1>15. ASSUME NEW g \in Callers, Handshake(g) PROVE Inv'
  <2>1. TypeOK'
    BY <1>15, Inv DEF Inv, Handshake, Goto, locals, caller, locks, network,
       TypeOK, Pcs, ReaderPcs, WriterPcs, DialingPcs, Results, Sessions
  <2>2. LockInv'
    BY <1>15, Inv DEF Inv, Handshake, Goto, locals, caller, locks, network,
       LockInv, ReaderPcs, ExclusivePcs, WriterPcs, DialingPcs
  <2>3. FlowInv'
    BY <1>15, Inv DEF Inv, Handshake, Goto, locals, caller, locks, network,
       FlowInv, ReaderPcs
  <2>4. ConnectionInv'
    BY <1>15, Inv DEF Inv, Handshake, Goto, locals, caller, locks, network,
       ConnectionInv, TypeOK, LockInv, UnlockedPcs, AuthPcs, Pcs, ReaderPcs,
       WriterPcs, DialingPcs, Results, Sessions, ExclusivePcs
  <2>5. LoginInv'
    BY <1>15, Inv DEF Inv, Handshake, Goto, locals, caller, locks, network,
       LoginInv, TypeOK, LockInv, Pcs, ReaderPcs, WriterPcs, DialingPcs,
       Results, Sessions, ExclusivePcs
  <2>6. HeldInv'
    BY <1>15, Inv DEF Inv, Handshake, Goto, locals, caller, locks, network,
       HeldInv, TypeOK, LockInv, Pcs, ReaderPcs, WriterPcs, DialingPcs,
       Results, Sessions, ExclusivePcs
  <2>7. ReloadInv' /\ DialInv'
    BY <1>15, Inv DEF Inv, Handshake, Goto, locals, caller, locks, network,
       ReloadInv, DialInv, TypeOK, LockInv, ReloadPcs, WriterPcs, DialingPcs,
       Pcs, ReaderPcs, Results, Sessions, ExclusivePcs
  <2> QED
    BY <2>1, <2>2, <2>3, <2>4, <2>5, <2>6, <2>7 DEF Inv
<1>16. ASSUME NEW g \in Callers, WithoutAuth(g) PROVE Inv'
  <2>1. TypeOK'
    <3>1. LocalTypes' /\ LockTypes'
      BY <1>16, SessionUpTypes DEF Inv, WithoutAuth, Connected
    <3> QED
      BY <1>16, <3>1
         DEF Inv, WithoutAuth, Connected, TypeOK, LocalTypes, LockTypes
  <2>2. LockInv'
    BY <1>16, Inv DEF Inv, WithoutAuth, Connected, SessionUp, Return,
       LeaveSession, Woken, LockInv, ReaderPcs, ExclusivePcs, WriterPcs,
       DialingPcs
  <2>3. FlowInv'
    BY <1>16, Inv DEF Inv, WithoutAuth, Connected, SessionUp, Return,
       LeaveSession, Woken, FlowInv, ReaderPcs
  <2>4. ConnectionInv'
    BY <1>16, Inv DEF Inv, WithoutAuth, Connected, SessionUp, Return,
       LeaveSession, Woken, ConnectionInv, UnlockedPcs, AuthPcs
  <2>5. LoginInv'
    BY <1>16, Inv DEF Inv, WithoutAuth, Connected, SessionUp, Return,
       LeaveSession, Woken, LoginInv
  <2>6. HeldInv'
    BY <1>16, Inv DEF Inv, WithoutAuth, Connected, SessionUp, Return,
       LeaveSession, Woken, HeldInv, TypeOK, Pcs, ReaderPcs, WriterPcs,
       DialingPcs, Results, Sessions
  <2>7. ReloadInv' /\ DialInv'
    BY <1>16, Inv DEF Inv, WithoutAuth, Connected, SessionUp, Return,
       LeaveSession, Woken, ReloadInv, DialInv, TypeOK, ReloadPcs, WriterPcs,
       DialingPcs, Pcs, ReaderPcs, Results, Sessions
  <2> QED
    BY <2>1, <2>2, <2>3, <2>4, <2>5, <2>6, <2>7 DEF Inv
<1>17. ASSUME NEW g \in Callers, SendToken(g) PROVE Inv'
  <2>1. TypeOK'
    BY <1>17, Inv DEF Inv, SendToken, Goto, locals, caller, locks, client,
       network, TypeOK, Pcs, ReaderPcs, WriterPcs, DialingPcs, Results,
       Sessions
  <2>2. LockInv'
    BY <1>17, Inv DEF Inv, SendToken, Goto, locals, caller, locks, client,
       network, LockInv, ReaderPcs, ExclusivePcs, WriterPcs, DialingPcs
  <2>3. FlowInv'
    BY <1>17, Inv DEF Inv, SendToken, Goto, locals, caller, locks, client,
       network, FlowInv, ReaderPcs
  <2>4. ConnectionInv'
    BY <1>17, Inv DEF Inv, SendToken, Goto, locals, caller, locks, client,
       network, ConnectionInv, UnlockedPcs, AuthPcs
  <2>5. LoginInv'
    BY <1>17, Inv DEF Inv, SendToken, Goto, locals, caller, locks, client,
       network, LoginInv
  <2>6. HeldInv'
    BY <1>17, Inv DEF Inv, SendToken, Goto, locals, caller, locks, client,
       network, HeldInv
  <2>7. ReloadInv' /\ DialInv'
    BY <1>17, Inv DEF Inv, SendToken, Goto, locals, caller, locks, client,
       network, ReloadInv, DialInv, ReloadPcs, WriterPcs, DialingPcs
  <2> QED
    BY <2>1, <2>2, <2>3, <2>4, <2>5, <2>6, <2>7 DEF Inv
<1>18. ASSUME NEW g \in Callers, SendLogin(g) PROVE Inv'
  <2>1. TypeOK'
    BY <1>18, Inv DEF Inv, SendLogin, Goto, locals, caller, locks, client,
       network, TypeOK, Pcs, ReaderPcs, WriterPcs, DialingPcs, Results,
       Sessions
  <2>2. LockInv'
    BY <1>18, Inv DEF Inv, SendLogin, Goto, locals, caller, locks, client,
       network, LockInv, ReaderPcs, ExclusivePcs, WriterPcs, DialingPcs
  <2>3. FlowInv'
    BY <1>18, Inv DEF Inv, SendLogin, Goto, locals, caller, locks, client,
       network, FlowInv, ReaderPcs
  <2>4. ConnectionInv'
    BY <1>18, Inv DEF Inv, SendLogin, Goto, locals, caller, locks, client,
       network, ConnectionInv, UnlockedPcs, AuthPcs
  <2>5. LoginInv'
    BY <1>18, Inv DEF Inv, SendLogin, Goto, locals, caller, locks, client,
       network, LoginInv
  <2>6. HeldInv'
    BY <1>18, Inv DEF Inv, SendLogin, Goto, locals, caller, locks, client,
       network, HeldInv
  <2>7. ReloadInv' /\ DialInv'
    BY <1>18, Inv DEF Inv, SendLogin, Goto, locals, caller, locks, client,
       network, ReloadInv, DialInv, ReloadPcs, WriterPcs, DialingPcs
  <2> QED
    BY <2>1, <2>2, <2>3, <2>4, <2>5, <2>6, <2>7 DEF Inv
<1>19. ASSUME NEW g \in Callers, TokenAccepted(g) PROVE Inv'
  <2>1. TypeOK'
    <3>1. LocalTypes' /\ LockTypes'
      BY <1>19, SessionUpTypes DEF Inv, TokenAccepted, Connected
    <3>2. sio \in Sessions
      BY <1>19 DEF Inv, TypeOK, TokenAccepted, ConnectionInv, AuthPcs, Sessions
    <3> QED
      BY <1>19, <3>1, <3>2
         DEF Inv, TokenAccepted, Connected, TypeOK, LocalTypes, LockTypes
  <2>2. LockInv'
    BY <1>19, Inv DEF Inv, TokenAccepted, Connected, SessionUp, Return,
       LeaveSession, Woken, LockInv, ReaderPcs, ExclusivePcs, WriterPcs,
       DialingPcs
  <2>3. FlowInv'
    BY <1>19, Inv DEF Inv, TokenAccepted, Connected, SessionUp, Return,
       LeaveSession, Woken, FlowInv, ReaderPcs
  <2>4. ConnectionInv'
    BY <1>19, Inv DEF Inv, TokenAccepted, Connected, SessionUp, Return,
       LeaveSession, Woken, ConnectionInv, UnlockedPcs, AuthPcs
  <2>5. LoginInv'
    BY <1>19, Inv DEF Inv, TokenAccepted, Connected, SessionUp, Return,
       LeaveSession, Woken, LoginInv
  <2>6. HeldInv'
    BY <1>19, Inv DEF Inv, TokenAccepted, Connected, SessionUp, Return,
       LeaveSession, Woken, HeldInv, TypeOK, Pcs, ReaderPcs, WriterPcs,
       DialingPcs, Results, Sessions
  <2>7. ReloadInv' /\ DialInv'
    BY <1>19, Inv DEF Inv, TokenAccepted, Connected, SessionUp, Return,
       LeaveSession, Woken, ReloadInv, DialInv, TypeOK, ReloadPcs, WriterPcs,
       DialingPcs, Pcs, ReaderPcs, Results, Sessions
  <2> QED
    BY <2>1, <2>2, <2>3, <2>4, <2>5, <2>6, <2>7 DEF Inv
<1>20. ASSUME NEW g \in Callers, TokenRefused(g) PROVE Inv'
  <2>1. TypeOK'
    BY <1>20, Inv DEF Inv, TokenRefused, DropToken, Goto, locals, caller,
       locks, TypeOK, Pcs, ReaderPcs, WriterPcs, DialingPcs, Results,
       Sessions
  <2>2. LockInv'
    BY <1>20, Inv DEF Inv, TokenRefused, DropToken, Goto, locals, caller,
       locks, LockInv, ReaderPcs, ExclusivePcs, WriterPcs, DialingPcs
  <2>3. FlowInv'
    BY <1>20, Inv DEF Inv, TokenRefused, DropToken, Goto, locals, caller,
       locks, FlowInv, ReaderPcs
  <2>4. ConnectionInv'
    BY <1>20, Inv DEF Inv, TokenRefused, DropToken, Goto, locals, caller,
       locks, ConnectionInv, UnlockedPcs, AuthPcs
  <2>5. LoginInv'
    BY <1>20, Inv DEF Inv, TokenRefused, DropToken, Goto, locals, caller,
       locks, LoginInv, TypeOK, LockInv, Pcs, ReaderPcs, WriterPcs,
       DialingPcs, Results, Sessions, ExclusivePcs
  <2>6. HeldInv'
    BY <1>20, Inv DEF Inv, TokenRefused, DropToken, Goto, locals, caller,
       locks, HeldInv
  <2>7. ReloadInv' /\ DialInv'
    BY <1>20, Inv DEF Inv, TokenRefused, DropToken, Goto, locals, caller,
       locks, ReloadInv, DialInv, ReloadPcs, WriterPcs, DialingPcs
  <2> QED
    BY <2>1, <2>2, <2>3, <2>4, <2>5, <2>6, <2>7 DEF Inv
<1>21. ASSUME NEW g \in Callers, TokenInterrupted(g) PROVE Inv'
  <2>1. TypeOK'
    BY <1>21, Inv DEF Inv, TokenInterrupted, DropToken, Goto, locals, caller,
       locks, TypeOK, Pcs, ReaderPcs, WriterPcs, DialingPcs, Results,
       Sessions
  <2>2. LockInv'
    BY <1>21, Inv DEF Inv, TokenInterrupted, DropToken, Goto, locals, caller,
       locks, LockInv, ReaderPcs, ExclusivePcs, WriterPcs, DialingPcs
  <2>3. FlowInv'
    BY <1>21, Inv DEF Inv, TokenInterrupted, DropToken, Goto, locals, caller,
       locks, FlowInv, ReaderPcs
  <2>4. ConnectionInv'
    BY <1>21, Inv DEF Inv, TokenInterrupted, DropToken, Goto, locals, caller,
       locks, ConnectionInv, UnlockedPcs, AuthPcs
  <2>5. LoginInv'
    BY <1>21, Inv DEF Inv, TokenInterrupted, DropToken, Goto, locals, caller,
       locks, LoginInv, TypeOK, LockInv, Pcs, ReaderPcs, WriterPcs,
       DialingPcs, Results, Sessions, ExclusivePcs
  <2>6. HeldInv'
    BY <1>21, Inv DEF Inv, TokenInterrupted, DropToken, Goto, locals, caller,
       locks, HeldInv
  <2>7. ReloadInv' /\ DialInv'
    BY <1>21, Inv DEF Inv, TokenInterrupted, DropToken, Goto, locals, caller,
       locks, ReloadInv, DialInv, ReloadPcs, WriterPcs, DialingPcs
  <2> QED
    BY <2>1, <2>2, <2>3, <2>4, <2>5, <2>6, <2>7 DEF Inv
<1>22. ASSUME NEW g \in Callers, LoginAccepted(g) PROVE Inv'
  <2>1. TypeOK'
    <3>1. LocalTypes' /\ LockTypes'
      BY <1>22, SessionUpTypes DEF Inv, LoginAccepted, Connected
    <3>2. sio \in Sessions
      BY <1>22 DEF Inv, TypeOK, LoginAccepted, ConnectionInv, AuthPcs, Sessions
    <3> QED
      BY <1>22, <3>1, <3>2
         DEF Inv, LoginAccepted, Connected, TypeOK, LocalTypes, LockTypes
  <2>2. LockInv'
    BY <1>22, Inv DEF Inv, LoginAccepted, Connected, SessionUp, Return,
       LeaveSession, Woken, LockInv, ReaderPcs, ExclusivePcs, WriterPcs,
       DialingPcs
  <2>3. FlowInv'
    BY <1>22, Inv DEF Inv, LoginAccepted, Connected, SessionUp, Return,
       LeaveSession, Woken, FlowInv, ReaderPcs
  <2>4. ConnectionInv'
    BY <1>22, Inv DEF Inv, LoginAccepted, Connected, SessionUp, Return,
       LeaveSession, Woken, ConnectionInv, UnlockedPcs, AuthPcs
  <2>5. LoginInv'
    BY <1>22, Inv DEF Inv, LoginAccepted, Connected, SessionUp, Return,
       LeaveSession, Woken, LoginInv
  <2>6. HeldInv'
    BY <1>22, Inv DEF Inv, LoginAccepted, Connected, SessionUp, Return,
       LeaveSession, Woken, HeldInv, TypeOK, Pcs, ReaderPcs, WriterPcs,
       DialingPcs, Results, Sessions
  <2>7. ReloadInv' /\ DialInv'
    BY <1>22, Inv DEF Inv, LoginAccepted, Connected, SessionUp, Return,
       LeaveSession, Woken, ReloadInv, DialInv, TypeOK, ReloadPcs, WriterPcs,
       DialingPcs, Pcs, ReaderPcs, Results, Sessions
  <2> QED
    BY <2>1, <2>2, <2>3, <2>4, <2>5, <2>6, <2>7 DEF Inv
<1>23. ASSUME NEW g \in Callers, LoginFault(g) PROVE Inv'
  <2>1. TypeOK'
    BY <1>23, Inv DEF Inv, LoginFault, Goto, locals, caller, locks, client,
       network, TypeOK, Pcs, ReaderPcs, WriterPcs, DialingPcs, Results,
       Sessions
  <2>2. LockInv'
    BY <1>23, Inv DEF Inv, LoginFault, Goto, locals, caller, locks, client,
       network, LockInv, ReaderPcs, ExclusivePcs, WriterPcs, DialingPcs
  <2>3. FlowInv'
    BY <1>23, Inv DEF Inv, LoginFault, Goto, locals, caller, locks, client,
       network, FlowInv, ReaderPcs
  <2>4. ConnectionInv'
    BY <1>23, Inv DEF Inv, LoginFault, Goto, locals, caller, locks, client,
       network, ConnectionInv, UnlockedPcs, AuthPcs
  <2>5. LoginInv'
    BY <1>23, Inv DEF Inv, LoginFault, Goto, locals, caller, locks, client,
       network, LoginInv
  <2>6. HeldInv'
    BY <1>23, Inv DEF Inv, LoginFault, Goto, locals, caller, locks, client,
       network, HeldInv
  <2>7. ReloadInv' /\ DialInv'
    BY <1>23, Inv DEF Inv, LoginFault, Goto, locals, caller, locks, client,
       network, ReloadInv, DialInv, ReloadPcs, WriterPcs, DialingPcs
  <2> QED
    BY <2>1, <2>2, <2>3, <2>4, <2>5, <2>6, <2>7 DEF Inv
<1>24. ASSUME NEW g \in Callers, ConnectFailed(g) PROVE Inv'
  <2>1. TypeOK'
    BY <1>24, GiveUpOrBackOffTypes DEF Inv, ConnectFailed
  <2>2. LockInv'
    BY <1>24, Inv DEF Inv, ConnectFailed, GiveUpOrBackOff, CloseLocked,
       SessionFailed, Return, LeaveSession, Woken, Goto, locals, LockInv,
       TypeOK, ReaderPcs, ExclusivePcs, WriterPcs, DialingPcs, Pcs, Results,
       Sessions
  <2>3. FlowInv'
    BY <1>24, Inv DEF Inv, ConnectFailed, GiveUpOrBackOff, CloseLocked,
       SessionFailed, Return, LeaveSession, Woken, Goto, locals, FlowInv,
       TypeOK, ReaderPcs, Pcs, WriterPcs, DialingPcs, Results, Sessions
  <2>4. ConnectionInv'
    BY <1>24, GiveUpOrBackOffConnection DEF Inv, ConnectFailed, DialingPcs,
       AuthPcs, UnlockedPcs
  <2>5. LoginInv'
    BY <1>24, Inv DEF Inv, ConnectFailed, GiveUpOrBackOff, CloseLocked,
       SessionFailed, Return, LeaveSession, Woken, Goto, locals, LoginInv,
       TypeOK, Pcs, ReaderPcs, WriterPcs, DialingPcs, Results, Sessions
  <2>6. HeldInv'
    BY <1>24, Inv DEF Inv, ConnectFailed, GiveUpOrBackOff, CloseLocked,
       SessionFailed, Return, LeaveSession, Woken, Goto, locals, HeldInv,
       TypeOK, LockInv, Pcs, ReaderPcs, WriterPcs, DialingPcs, Results,
       Sessions, ExclusivePcs
  <2>7. ReloadInv' /\ DialInv'
    BY <1>24, Inv DEF Inv, ConnectFailed, GiveUpOrBackOff, CloseLocked,
       SessionFailed, Return, LeaveSession, Woken, Goto, locals, ReloadInv,
       DialInv, TypeOK, ReloadPcs, WriterPcs, DialingPcs, Pcs, ReaderPcs,
       Results, Sessions
  <2> QED
    BY <2>1, <2>2, <2>3, <2>4, <2>5, <2>6, <2>7 DEF Inv
<1>25. ASSUME NEW g \in Callers, MissingCredentials(g) PROVE Inv'
  <2>1. TypeOK'
    BY <1>25, GiveUpOrBackOffTypes DEF Inv, MissingCredentials
  <2>2. LockInv'
    BY <1>25, Inv DEF Inv, MissingCredentials, GiveUpOrBackOff, CloseLocked,
       SessionFailed, Return, LeaveSession, Woken, Goto, locals, LockInv,
       TypeOK, ReaderPcs, ExclusivePcs, WriterPcs, DialingPcs, Pcs, Results,
       Sessions
  <2>3. FlowInv'
    BY <1>25, Inv DEF Inv, MissingCredentials, GiveUpOrBackOff, CloseLocked,
       SessionFailed, Return, LeaveSession, Woken, Goto, locals, FlowInv,
       TypeOK, ReaderPcs, Pcs, WriterPcs, DialingPcs, Results, Sessions
  <2>4. ConnectionInv'
    BY <1>25, GiveUpOrBackOffConnection DEF Inv, MissingCredentials, DialingPcs, AuthPcs,
       UnlockedPcs
  <2>5. LoginInv'
    BY <1>25, Inv DEF Inv, MissingCredentials, GiveUpOrBackOff, CloseLocked,
       SessionFailed, Return, LeaveSession, Woken, Goto, locals, LoginInv,
       TypeOK, Pcs, ReaderPcs, WriterPcs, DialingPcs, Results, Sessions
  <2>6. HeldInv'
    BY <1>25, Inv DEF Inv, MissingCredentials, GiveUpOrBackOff, CloseLocked,
       SessionFailed, Return, LeaveSession, Woken, Goto, locals, HeldInv,
       TypeOK, LockInv, Pcs, ReaderPcs, WriterPcs, DialingPcs, Results,
       Sessions, ExclusivePcs
  <2>7. ReloadInv' /\ DialInv'
    BY <1>25, Inv DEF Inv, MissingCredentials, GiveUpOrBackOff, CloseLocked,
       SessionFailed, Return, LeaveSession, Woken, Goto, locals, ReloadInv,
       DialInv, TypeOK, ReloadPcs, WriterPcs, DialingPcs, Pcs, ReaderPcs,
       Results, Sessions
  <2> QED
    BY <2>1, <2>2, <2>3, <2>4, <2>5, <2>6, <2>7 DEF Inv
<1>26. ASSUME NEW g \in Callers, LoginRefused(g) PROVE Inv'
  <2>1. TypeOK'
    BY <1>26, GiveUpOrBackOffTypes DEF Inv, LoginRefused
  <2>2. LockInv'
    BY <1>26, Inv DEF Inv, LoginRefused, GiveUpOrBackOff, CloseLocked,
       SessionFailed, Return, LeaveSession, Woken, Goto, locals, LockInv,
       TypeOK, ReaderPcs, ExclusivePcs, WriterPcs, DialingPcs, Pcs, Results,
       Sessions
  <2>3. FlowInv'
    BY <1>26, Inv DEF Inv, LoginRefused, GiveUpOrBackOff, CloseLocked,
       SessionFailed, Return, LeaveSession, Woken, Goto, locals, FlowInv,
       TypeOK, ReaderPcs, Pcs, WriterPcs, DialingPcs, Results, Sessions
  <2>4. ConnectionInv'
    BY <1>26, GiveUpOrBackOffConnection DEF Inv, LoginRefused, DialingPcs, AuthPcs,
       UnlockedPcs
  <2>5. LoginInv'
    BY <1>26, Inv DEF Inv, LoginRefused, GiveUpOrBackOff, CloseLocked,
       SessionFailed, Return, LeaveSession, Woken, Goto, locals, LoginInv,
       TypeOK, Pcs, ReaderPcs, WriterPcs, DialingPcs, Results, Sessions
  <2>6. HeldInv'
    BY <1>26, Inv DEF Inv, LoginRefused, GiveUpOrBackOff, CloseLocked,
       SessionFailed, Return, LeaveSession, Woken, Goto, locals, HeldInv,
       TypeOK, LockInv, Pcs, ReaderPcs, WriterPcs, DialingPcs, Results,
       Sessions, ExclusivePcs
  <2>7. ReloadInv' /\ DialInv'
    BY <1>26, Inv DEF Inv, LoginRefused, GiveUpOrBackOff, CloseLocked,
       SessionFailed, Return, LeaveSession, Woken, Goto, locals, ReloadInv,
       DialInv, TypeOK, ReloadPcs, WriterPcs, DialingPcs, Pcs, ReaderPcs,
       Results, Sessions
  <2> QED
    BY <2>1, <2>2, <2>3, <2>4, <2>5, <2>6, <2>7 DEF Inv
<1>27. ASSUME NEW g \in Callers, BackoffElapsed(g) PROVE Inv'
  <2>1. TypeOK'
    BY <1>27, Inv DEF Inv, BackoffElapsed, Goto, locals, caller, locks,
       client, network, TypeOK, Pcs, ReaderPcs, WriterPcs, DialingPcs,
       Results, Sessions
  <2>2. LockInv'
    BY <1>27, Inv DEF Inv, BackoffElapsed, Goto, locals, caller, locks,
       client, network, LockInv, ReaderPcs, ExclusivePcs, WriterPcs,
       DialingPcs
  <2>3. FlowInv'
    BY <1>27, Inv DEF Inv, BackoffElapsed, Goto, locals, caller, locks,
       client, network, FlowInv, ReaderPcs
  <2>4. ConnectionInv'
    BY <1>27, Inv DEF Inv, BackoffElapsed, Goto, locals, caller, locks,
       client, network, ConnectionInv, UnlockedPcs, AuthPcs
  <2>5. LoginInv'
    BY <1>27, Inv DEF Inv, BackoffElapsed, Goto, locals, caller, locks,
       client, network, LoginInv
  <2>6. HeldInv'
    BY <1>27, Inv DEF Inv, BackoffElapsed, Goto, locals, caller, locks,
       client, network, HeldInv
  <2>7. ReloadInv' /\ DialInv'
    BY <1>27, Inv DEF Inv, BackoffElapsed, Goto, locals, caller, locks,
       client, network, ReloadInv, DialInv, ReloadPcs, WriterPcs, DialingPcs
  <2> QED
    BY <2>1, <2>2, <2>3, <2>4, <2>5, <2>6, <2>7 DEF Inv
<1>28. ASSUME NEW g \in Callers, BackoffCancelled(g) PROVE Inv'
  <2>1. TypeOK'
    BY <1>28, Inv DEF Inv, BackoffCancelled, SessionFailed, Return,
       LeaveSession, Woken, client, network, TypeOK, Pcs, ReaderPcs,
       WriterPcs, DialingPcs, Results, Sessions
  <2>2. LockInv'
    BY <1>28, Inv DEF Inv, BackoffCancelled, SessionFailed, Return,
       LeaveSession, Woken, client, network, LockInv, ReaderPcs,
       ExclusivePcs, WriterPcs, DialingPcs
  <2>3. FlowInv'
    BY <1>28, Inv DEF Inv, BackoffCancelled, SessionFailed, Return,
       LeaveSession, Woken, client, network, FlowInv, ReaderPcs
  <2>4. ConnectionInv'
    BY <1>28, Inv DEF Inv, BackoffCancelled, SessionFailed, Return,
       LeaveSession, Woken, client, network, ConnectionInv, UnlockedPcs,
       AuthPcs
  <2>5. LoginInv'
    BY <1>28, Inv DEF Inv, BackoffCancelled, SessionFailed, Return,
       LeaveSession, Woken, client, network, LoginInv, TypeOK, LockInv,
       ConnectionInv, Pcs, ReaderPcs, WriterPcs, DialingPcs, Results,
       Sessions, ExclusivePcs, UnlockedPcs, AuthPcs
  <2>6. HeldInv'
    BY <1>28, Inv DEF Inv, BackoffCancelled, SessionFailed, Return,
       LeaveSession, Woken, client, network, HeldInv
  <2>7. ReloadInv' /\ DialInv'
    BY <1>28, Inv DEF Inv, BackoffCancelled, SessionFailed, Return,
       LeaveSession, Woken, client, network, ReloadInv, DialInv, ReloadPcs,
       WriterPcs, DialingPcs
  <2> QED
    BY <2>1, <2>2, <2>3, <2>4, <2>5, <2>6, <2>7 DEF Inv
<1>29. ASSUME NEW g \in Callers, CancelContext(g) PROVE Inv'
  <2>1. TypeOK'
    BY <1>29, Inv DEF Inv, CancelContext, locks, client, network, TypeOK,
       Pcs, ReaderPcs, WriterPcs, DialingPcs, Results, Sessions
  <2>2. LockInv'
    BY <1>29, Inv DEF Inv, CancelContext, locks, client, network, LockInv,
       ReaderPcs, ExclusivePcs, WriterPcs, DialingPcs
  <2>3. FlowInv'
    BY <1>29, Inv DEF Inv, CancelContext, locks, client, network, FlowInv,
       ReaderPcs
  <2>4. ConnectionInv'
    BY <1>29, Inv DEF Inv, CancelContext, locks, client, network,
       ConnectionInv, UnlockedPcs, AuthPcs
  <2>5. LoginInv'
    BY <1>29, Inv DEF Inv, CancelContext, locks, client, network, LoginInv
  <2>6. HeldInv'
    BY <1>29, Inv DEF Inv, CancelContext, locks, client, network, HeldInv
  <2>7. ReloadInv' /\ DialInv'
    BY <1>29, Inv DEF Inv, CancelContext, locks, client, network, ReloadInv,
       DialInv, ReloadPcs, WriterPcs, DialingPcs
  <2> QED
    BY <2>1, <2>2, <2>3, <2>4, <2>5, <2>6, <2>7 DEF Inv
<1>30. ASSUME Close PROVE Inv'
  <2>1. TypeOK'
    <3>1. ConnectionTypes'
      BY <1>30, CloseLockedTypes DEF Inv, Close
    <3> QED
      BY <1>30, <3>1 DEF Inv, Close, TypeOK, ConnectionTypes, caller, locals,
         locks
  <2>2. LockInv'
    BY <1>30, Inv DEF Inv, Close, CloseLocked, locals, caller, locks,
       LockInv, ReaderPcs, ExclusivePcs, WriterPcs, DialingPcs
  <2>3. FlowInv'
    BY <1>30, Inv DEF Inv, Close, CloseLocked, locals, caller, locks,
       FlowInv, ReaderPcs
  <2>4. ConnectionInv'
    BY <1>30, Inv DEF Inv, Close, CloseLocked, locals, caller, locks,
       ConnectionInv, UnlockedPcs, AuthPcs
  <2>5. LoginInv'
    BY <1>30, Inv DEF Inv, Close, CloseLocked, locals, caller, locks,
       LoginInv
  <2>6. HeldInv'
    BY <1>30, Inv DEF Inv, Close, CloseLocked, locals, caller, locks, HeldInv
  <2>7. ReloadInv' /\ DialInv'
    BY <1>30, Inv DEF Inv, Close, CloseLocked, locals, caller, locks,
       ReloadInv, DialInv, TypeOK, ReloadPcs, WriterPcs, DialingPcs, Pcs,
       ReaderPcs, Results, Sessions
  <2> QED
    BY <2>1, <2>2, <2>3, <2>4, <2>5, <2>6, <2>7 DEF Inv
<1>31. ASSUME NEW s \in Sessions, ConnectionLost(s) PROVE Inv'
  <2>1. TypeOK'
    BY <1>31, Inv DEF Inv, ConnectionLost, locals, caller, locks, client,
       TypeOK, Pcs, ReaderPcs, WriterPcs, DialingPcs, Results, Sessions
  <2>2. LockInv'
    BY <1>31, Inv DEF Inv, ConnectionLost, locals, caller, locks, client,
       LockInv, ReaderPcs, ExclusivePcs, WriterPcs, DialingPcs
  <2>3. FlowInv'
    BY <1>31, Inv DEF Inv, ConnectionLost, locals, caller, locks, client,
       FlowInv, ReaderPcs
  <2>4. ConnectionInv'
    BY <1>31, Inv DEF Inv, ConnectionLost, locals, caller, locks, client,
       ConnectionInv, UnlockedPcs, AuthPcs
  <2>5. LoginInv'
    BY <1>31, Inv DEF Inv, ConnectionLost, locals, caller, locks, client,
       LoginInv
  <2>6. HeldInv'
    BY <1>31, Inv DEF Inv, ConnectionLost, locals, caller, locks, client,
       HeldInv
  <2>7. ReloadInv' /\ DialInv'
    BY <1>31, Inv DEF Inv, ConnectionLost, locals, caller, locks, client,
       ReloadInv, DialInv, ReloadPcs, WriterPcs, DialingPcs
  <2> QED
    BY <2>1, <2>2, <2>3, <2>4, <2>5, <2>6, <2>7 DEF Inv
<1>32. ASSUME NEW s \in Sessions, HandleDisconnect(s) PROVE Inv'
  <2>1. TypeOK'
    BY <1>32, Inv DEF Inv, HandleDisconnect, locals, caller, locks, TypeOK,
       Pcs, ReaderPcs, WriterPcs, DialingPcs, Results, Sessions
  <2>2. LockInv'
    BY <1>32, Inv DEF Inv, HandleDisconnect, locals, caller, locks, LockInv,
       ReaderPcs, ExclusivePcs, WriterPcs, DialingPcs
  <2>3. FlowInv'
    BY <1>32, Inv DEF Inv, HandleDisconnect, locals, caller, locks, FlowInv,
       ReaderPcs
  <2>4. ConnectionInv'
    BY <1>32, Inv DEF Inv, HandleDisconnect, locals, caller, locks,
       ConnectionInv, UnlockedPcs, AuthPcs
  <2>5. LoginInv'
    BY <1>32, Inv DEF Inv, HandleDisconnect, locals, caller, locks, LoginInv
  <2>6. HeldInv'
    BY <1>32, Inv DEF Inv, HandleDisconnect, locals, caller, locks, HeldInv
  <2>7. ReloadInv' /\ DialInv'
    BY <1>32, Inv DEF Inv, HandleDisconnect, locals, caller, locks,
       ReloadInv, DialInv, ReloadPcs, WriterPcs, DialingPcs
  <2> QED
    BY <2>1, <2>2, <2>3, <2>4, <2>5, <2>6, <2>7 DEF Inv
<1>33. ASSUME RevokeToken PROVE Inv'
  <2>1. TypeOK'
    BY <1>33, Inv DEF Inv, RevokeToken, locals, caller, locks, client,
       TypeOK, Pcs, ReaderPcs, WriterPcs, DialingPcs, Results, Sessions
  <2>2. LockInv'
    BY <1>33, Inv DEF Inv, RevokeToken, locals, caller, locks, client,
       LockInv, ReaderPcs, ExclusivePcs, WriterPcs, DialingPcs
  <2>3. FlowInv'
    BY <1>33, Inv DEF Inv, RevokeToken, locals, caller, locks, client,
       FlowInv, ReaderPcs
  <2>4. ConnectionInv'
    BY <1>33, Inv DEF Inv, RevokeToken, locals, caller, locks, client,
       ConnectionInv, UnlockedPcs, AuthPcs
  <2>5. LoginInv'
    BY <1>33, Inv DEF Inv, RevokeToken, locals, caller, locks, client,
       LoginInv
  <2>6. HeldInv'
    BY <1>33, Inv DEF Inv, RevokeToken, locals, caller, locks, client,
       HeldInv
  <2>7. ReloadInv' /\ DialInv'
    BY <1>33, Inv DEF Inv, RevokeToken, locals, caller, locks, client,
       ReloadInv, DialInv, ReloadPcs, WriterPcs, DialingPcs
  <2> QED
    BY <2>1, <2>2, <2>3, <2>4, <2>5, <2>6, <2>7 DEF Inv
<1>34. CASE UNCHANGED vars
  BY <1>34, Inv DEF Inv, vars, locals, caller, locks, client, network,
     TypeOK, LockInv, FlowInv, ConnectionInv, LoginInv, HeldInv, ReloadInv,
     DialInv
<1> QED
  BY <1>1, <1>2, <1>3, <1>4, <1>5, <1>6, <1>7, <1>8, <1>9, <1>10, <1>11,
     <1>12, <1>13, <1>14, <1>15, <1>16, <1>17, <1>18, <1>19, <1>20, <1>21,
     <1>22, <1>23, <1>24, <1>25, <1>26, <1>27, <1>28, <1>29, <1>30, <1>31,
     <1>32, <1>33, <1>34 DEF Next, CallStep, ReconnectStep, Environment

-----------------------------------------------------------------------------
(* The invariant, and what follows from it.                                *)

LEMMA InvInit == Init => Inv
<1> SUFFICES ASSUME Init PROVE Inv
  OBVIOUS
<1> USE SessionAssumption
<1>1. PICK g \in Callers :
         /\ pc = [h \in Callers |-> IF h = g THEN "lock" ELSE "idle"]
         /\ op = [h \in Callers |-> IF h = g THEN "new" ELSE "call"]
  BY DEF Init
<1>2. TypeOK
  <2>1. pc \in [Callers -> Pcs]
    BY <1>1 DEF Pcs
  <2>2. op \in [Callers -> {"new", "call", "reload"}]
    BY <1>1
  <2>3. /\ cancelled \in [Callers -> BOOLEAN]
        /\ healthy \in BOOLEAN /\ jwt \in BOOLEAN /\ revoked \in BOOLEAN
        /\ cfg \in [skipAuth : BOOLEAN, credentials : BOOLEAN]
    BY DEF Init
  <2>4. /\ pass \in [Callers -> {1, 2}] /\ held \in [Callers -> 0..MaxSessions]
        /\ result \in [Callers -> Results]
    BY DEF Init, Results
  <2>5. /\ readers \subseteq Callers /\ writer \in Callers \cup {NoCaller}
        /\ mu \in Callers \cup {NoCaller}
    BY DEF Init
  <2>6. /\ sio \in 0..MaxSessions /\ cancelFn \in 0..MaxSessions
        /\ attempt \in 0..MaxRetries /\ dialed \in 0..MaxSessions
    BY DEF Init
  <2>7. /\ open \subseteq Sessions /\ loggedIn \subseteq Sessions
        /\ lost \subseteq Sessions /\ undelivered \subseteq Sessions
    BY DEF Init
  <2> QED
    BY <2>1, <2>2, <2>3, <2>4, <2>5, <2>6, <2>7 DEF TypeOK
<1>3. LockInv /\ FlowInv
  BY <1>1 DEF Init, LockInv, FlowInv, ReaderPcs, WriterPcs, ExclusivePcs,
     DialingPcs
<1>4. ConnectionInv
  BY <1>1 DEF Init, ConnectionInv, UnlockedPcs, AuthPcs
<1>5. LoginInv /\ HeldInv /\ ReloadInv /\ DialInv
  BY <1>1 DEF Init, LoginInv, HeldInv, ReloadInv, DialInv
<1> QED
  BY <1>2, <1>3, <1>4, <1>5 DEF Inv

LEMMA Invariance == Spec => []Inv
BY InvInit, InvStep, PTL DEF Spec

\* Every variable keeps its type: the attempt counter of sessionLocked never
\* exceeds cfg.MaxRetries and no goroutine is in an undefined place.
THEOREM SpecTypeOK == Spec => []TypeOK
<1>1. Inv => TypeOK
  BY DEF Inv
<1> QED
  BY <1>1, Invariance, PTL

\* However many goroutines share the client, none of them has its session torn
\* down by another one's reconnect between its emit and its answer.
THEOREM SpecCallsRideALiveSession == Spec => []CallsRideALiveSession
<1>1. Inv => CallsRideALiveSession
  <2> SUFFICES ASSUME Inv, NEW g \in Callers, pc[g] \in {"emit", "await"}
               PROVE  held[g] = sio /\ held[g] \in open /\ Usable(held[g])
    BY DEF CallsRideALiveSession
  <2>1. held[g] = sio /\ sio # 0
    BY DEF Inv, HeldInv
  <2>2. readers # {}
    BY DEF Inv, LockInv, ReaderPcs
  <2>3. mu = NoCaller
    BY <2>2 DEF Inv, TypeOK, LockInv, ExclusivePcs, WriterPcs, DialingPcs
  <2> QED
    BY <2>1, <2>3 DEF Inv, ConnectionInv, LoginInv, Usable
<1> QED
  BY <1>1, Invariance, PTL

\* Retries never pile connections up: the one c.cancel ends is the only one.
THEOREM SpecOneConnection == Spec => []OneConnection
<1>1. Inv => OneConnection
  <2> SUFFICES ASSUME Inv PROVE OneConnection
    OBVIOUS
  <2>1. CASE mu = NoCaller
    BY <2>1, SessionAssumption DEF Inv, TypeOK, ConnectionInv, OneConnection
  <2>2. CASE mu # NoCaller
    <3>1. PICK g \in Callers : mu = g /\ pc[g] \in DialingPcs
      BY <2>2 DEF Inv, TypeOK, LockInv
    <3> QED
      BY <2>2, <3>1 DEF Inv, ConnectionInv, OneConnection, DialingPcs,
         UnlockedPcs, AuthPcs
  <2> QED
    BY <2>1, <2>2
<1> QED
  BY <1>1, Invariance, PTL

\* A client that has a session has the token the next reconnect presents.
THEOREM SpecTokenOutlivesSession == Spec => []TokenOutlivesSession
<1>1. Inv => TokenOutlivesSession
  <2> SUFFICES ASSUME Inv, mu = NoCaller, sio # 0, ~cfg.skipAuth PROVE jwt
    BY DEF TokenOutlivesSession
  <2> QED
    BY DEF Inv, LoginInv
<1> QED
  BY <1>1, Invariance, PTL

\* A reload ends well only where session() returns nil.
LEMMA ReloadStep ==
    ASSUME NEW g \in Callers, Inv, [Next]_vars,
           op[g] = "reload", result[g] = "none", result'[g] = "ok"
    PROVE  sio' > held[g] /\ (cfg.skipAuth \/ sio' \in loggedIn')
<1> USE SessionAssumption
<1>1. result \in [Callers -> Results] /\ result' # result
  BY DEF Inv, TypeOK
<1>2. held[g] \in Nat /\ sio \in Nat
  BY DEF Inv, TypeOK
<1>3. ASSUME NEW h \in Callers, EnterSession(h), SessionUp(h), sio # 0, healthy,
             UNCHANGED <<client, open, loggedIn, lost>>
      PROVE  sio' > held[g] /\ (cfg.skipAuth \/ sio' \in loggedIn')
  <2>1. h = g
    BY <1>1, <1>3 DEF SessionUp, Return
  <2>2. pc[g] \in ReloadPcs /\ mu = NoCaller
    BY <1>3, <2>1 DEF EnterSession, ReloadPcs, WriterPcs
  <2>3. cancelFn = sio /\ (cfg.skipAuth \/ sio \in loggedIn)
    BY <1>3, <2>2 DEF Inv, ConnectionInv, LoginInv
  <2>4. ~(cancelFn # 0 /\ cancelFn <= held[g])
    BY <1>3, <2>2 DEF Inv, ReloadInv
  <2> QED
    BY <1>2, <1>3, <2>3, <2>4 DEF client
<1>4. ASSUME NEW h \in Callers,
             WithoutAuth(h) \/ TokenAccepted(h) \/ LoginAccepted(h)
      PROVE  sio' > held[g] /\ (cfg.skipAuth \/ sio' \in loggedIn')
  <2>1. SessionUp(h) /\ sio' = sio /\ (cfg.skipAuth \/ sio \in loggedIn')
    BY <1>4 DEF WithoutAuth, TokenAccepted, LoginAccepted, Connected
  <2>2. pc[h] \in AuthPcs
    BY <1>4 DEF WithoutAuth, TokenAccepted, LoginAccepted, AuthPcs
  <2>3. h = g
    BY <1>1, <2>1 DEF SessionUp, Return
  <2>4. pc[g] \in ReloadPcs /\ mu = g /\ sio # 0 /\ cancelFn = sio
    BY <2>2, <2>3 DEF Inv, LockInv, ConnectionInv, AuthPcs, ReloadPcs,
       WriterPcs, DialingPcs
  <2>5. ~(cancelFn # 0 /\ cancelFn <= held[g])
    BY <2>4 DEF Inv, ReloadInv
  <2> QED
    BY <1>2, <2>1, <2>4, <2>5
<1>5. ASSUME NEW h \in Callers, EnterSession(h), CloseLocked, UNCHANGED locals
      PROVE  FALSE
  BY <1>1, <1>5 DEF locals
<1>6. ASSUME NEW h \in Callers, StartCall(h) \/ StartReload(h)
      PROVE  FALSE
  BY <1>1, <1>6 DEF StartCall, StartReload, Begin
<1>7. ASSUME NEW h \in Callers, CallStep(h)
      PROVE  FALSE
  <2>1. ~(h = g /\ Ack(h))
    BY DEF Inv, FlowInv, Ack, ReaderPcs
  <2>2. CASE Ack(h)
    BY <1>1, <2>1, <2>2 DEF Ack, Return
  <2>3. CASE Emit(h) \/ CallTimeout(h) \/ CallCancelled(h) \/ MarkUnhealthy(h)
    BY <1>1, <2>3
       DEF Emit, CallTimeout, CallCancelled, MarkUnhealthy, Return
  <2>4. CASE RLock(h) \/ CheckLive(h)
    BY <1>1, <2>4 DEF RLock, CheckLive, caller, locals
  <2> QED
    BY <1>7, <2>2, <2>3, <2>4 DEF CallStep
<1>8. ASSUME NEW h \in Callers,
             \/ ForceUnhealthy(h) \/ LockLive(h) \/ Drained(h) \/ Dial(h)
             \/ Handshake(h) \/ SendToken(h) \/ SendLogin(h)
             \/ TokenRefused(h) \/ TokenInterrupted(h) \/ LoginFault(h)
             \/ BackoffElapsed(h)
      PROVE  FALSE
  BY <1>1, <1>8
     DEF ForceUnhealthy, LockLive, Drained, Dial, Handshake, SendToken,
         SendLogin, TokenRefused, TokenInterrupted, DropToken, LoginFault,
         BackoffElapsed, caller, locals
<1>9. ASSUME NEW h \in Callers,
             \/ ConnectFailed(h) \/ MissingCredentials(h) \/ LoginRefused(h)
             \/ BackoffCancelled(h)
      PROVE  FALSE
  BY <1>1, <1>9
     DEF ConnectFailed, MissingCredentials, LoginRefused, GiveUpOrBackOff,
         BackoffCancelled, SessionFailed, Return, locals
<1>10. ~(Close \/ Environment \/ UNCHANGED vars)
  BY <1>1 DEF Close, Environment, CancelContext, ConnectionLost,
     HandleDisconnect, RevokeToken, caller, locals, vars
<1>11. ASSUME NEW h \in Callers, EnterSession(h)
       PROVE  sio' > held[g] /\ (cfg.skipAuth \/ sio' \in loggedIn')
  BY <1>3, <1>5, <1>11 DEF EnterSession
<1> QED
  BY <1>4, <1>6, <1>7, <1>8, <1>9, <1>10, <1>11 DEF Next, ReconnectStep

\* A forced reload that succeeds ends on a session dialed and logged in after
\* the one it dropped, whichever goroutine dialed it.
THEOREM SpecReloadGetsNewSession == Spec => ReloadGetsNewSession
<1> DEFINE Reload ==
             \A g \in Callers :
                op[g] = "reload" /\ result[g] = "none" /\ result'[g] = "ok" =>
                    sio' > held[g] /\ (cfg.skipAuth \/ sio' \in loggedIn')
<1>1. Inv /\ [Next]_vars => [Reload]_vars
  BY ReloadStep
<1> QED
  BY <1>1, Invariance, PTL DEF Spec, ReloadGetsNewSession
==============================================================================
