-------------------------- MODULE SessionRefinement --------------------------
(***************************************************************************)
(* Session implements SharedSession, for any set of goroutines: what its   *)
(* steps do to the published session and to those who use it is one of the *)
(* abstract steps or nothing.                                              *)
(***************************************************************************)
EXTENDS SessionProofs

Published == IF mu = NoCaller THEN sio ELSE 0

Busy(g) == pc[g] \in {"emit", "await"}

Using == [g \in Callers |-> IF Busy(g) THEN held[g] ELSE 0]

\* A goroutine that uses a session keeps every other one out of a reconnect.
LEMMA BusyMeansPublished ==
    ASSUME NEW g \in Callers, Inv, Busy(g)
    PROVE  mu = NoCaller /\ held[g] = sio /\ sio # 0
<1>1. held[g] = sio /\ sio # 0
  BY DEF Busy, Inv, HeldInv
<1>2. readers # {}
  BY DEF Busy, Inv, LockInv, ReaderPcs
<1>3. mu = NoCaller
  BY <1>2 DEF Inv, TypeOK, LockInv, ExclusivePcs, WriterPcs, DialingPcs
<1> QED
  BY <1>1, <1>3

\* While a goroutine is past the drain, nobody uses a session.
LEMMA AloneIsIdle ==
    ASSUME NEW g \in Callers, Inv, pc[g] \in ExclusivePcs
    PROVE  /\ \A h \in Callers : ~Busy(h)
           /\ Using = [h \in Callers |-> 0]
<1>1. \A h \in Callers : ~Busy(h)
  BY DEF Inv, LockInv, Busy, ReaderPcs
<1> QED
  BY <1>1 DEF Using

LEMMA StillIdle ==
    ASSUME \A h \in Callers : ~Busy(h)', Using = [h \in Callers |-> 0]
    PROVE  Using' = Using
BY DEF Using

LEMMA SameUsing ==
    ASSUME \A h \in Callers : (Busy(h)' <=> Busy(h))
                                 /\ (Busy(h) => held'[h] = held[h])
    PROVE  Using' = Using
BY DEF Using

\* What a step may do to the published session and to those who use it.
SharedStep ==
    \/ UNCHANGED <<Published, Using>>
    \/ \E g \in Callers :
          /\ Published # 0
          /\ Using[g] = 0
          /\ Using' = [Using EXCEPT ![g] = Published]
          /\ Published' = Published
    \/ \E g \in Callers :
          /\ Using[g] # 0
          /\ Using' = [Using EXCEPT ![g] = 0]
          /\ Published' = Published
    \/ /\ \A g \in Callers : Using[g] = 0
       /\ Published' = 0
       /\ Using' = Using
    \/ /\ \A g \in Callers : Using[g] = 0
       /\ Published = 0
       /\ Published' \in Nat \ {0}
       /\ Using' = Using

\* The end of a call's turn on its session.
LEMMA ReleaseStep ==
    ASSUME NEW g \in Callers, Inv, Busy(g), ~Busy(g)',
           UNCHANGED <<sio, mu>>,
           \A h \in Callers \ {g} : pc'[h] = pc[h] /\ held'[h] = held[h]
    PROVE  SharedStep
<1>1. held[g] = sio /\ sio # 0
  BY BusyMeansPublished
<1>2. Using[g] # 0
  BY <1>1 DEF Using
<1>3. Using' = [Using EXCEPT ![g] = 0]
  BY DEF Using, Busy
<1> QED
  BY <1>2, <1>3 DEF SharedStep, Published

LEMMA CallRefines ==
    ASSUME NEW g \in Callers, Inv, CallStep(g)
    PROVE  SharedStep
<1> USE DEF Inv, TypeOK
<1>1. CASE RLock(g) \/ MarkUnhealthy(g)
  <2>1. \A h \in Callers : (Busy(h)' <=> Busy(h))
                              /\ (Busy(h) => held'[h] = held[h])
    BY <1>1 DEF RLock, MarkUnhealthy, Return, Goto, Busy, caller, locals
  <2>2. UNCHANGED <<sio, mu>>
    BY <1>1 DEF RLock, MarkUnhealthy, client
  <2> QED
    BY <2>1, <2>2, SameUsing DEF SharedStep, Published
<1>2. CASE CheckLive(g)
  <2>1. CASE /\ sio # 0 /\ healthy
             /\ held' = [held EXCEPT ![g] = sio]
             /\ Goto(g, "emit")
             /\ UNCHANGED readers
    <3>1. Published = sio /\ Published' = Published /\ Using[g] = 0
      BY <1>2 DEF CheckLive, Published, Using, Busy, client
    <3>2. Using' = [Using EXCEPT ![g] = sio]
      BY <2>1 DEF Using, Busy, Goto
    <3> QED
      BY <2>1, <3>1, <3>2 DEF SharedStep
  <2>2. CASE /\ readers' = readers \ {g}
             /\ Goto(g, "lock")
             /\ UNCHANGED held
    <3>1. \A h \in Callers : (Busy(h)' <=> Busy(h))
                                /\ (Busy(h) => held'[h] = held[h])
      BY <1>2, <2>2 DEF CheckLive, Goto, Busy
    <3> QED
      BY <1>2, <3>1, SameUsing DEF CheckLive, SharedStep, Published, client
  <2> QED
    BY <1>2, <2>1, <2>2 DEF CheckLive
<1>3. CASE Emit(g)
  <2>1. UNCHANGED <<sio, mu, held>>
    BY <1>3 DEF Emit, locks, client
  <2>2. CASE Goto(g, "await")
    <3>1. \A h \in Callers : (Busy(h)' <=> Busy(h))
                                /\ (Busy(h) => held'[h] = held[h])
      BY <1>3, <2>1, <2>2 DEF Emit, Goto, Busy
    <3> QED
      BY <2>1, <3>1, SameUsing DEF SharedStep, Published
  <2>3. CASE Goto(g, "mark")
    <3>1. Busy(g) /\ ~Busy(g)'
      BY <1>3, <2>3 DEF Emit, Goto, Busy
    <3>2. \A h \in Callers \ {g} : pc'[h] = pc[h] /\ held'[h] = held[h]
      BY <2>1, <2>3 DEF Goto
    <3> QED
      BY <2>1, <3>1, <3>2, ReleaseStep
  <2> QED
    BY <1>3, <2>2, <2>3 DEF Emit
<1>4. CASE Ack(g) \/ CallTimeout(g) \/ CallCancelled(g)
  <2>1. UNCHANGED <<sio, mu>>
    BY <1>4 DEF Ack, CallTimeout, CallCancelled, locks, client
  <2>2. Busy(g) /\ ~Busy(g)'
    BY <1>4 DEF Ack, CallTimeout, CallCancelled, Goto, Busy
  <2>3. \A h \in Callers \ {g} : pc'[h] = pc[h] /\ held'[h] = held[h]
    BY <1>4 DEF Ack, CallTimeout, CallCancelled, Goto, Return
  <2> QED
    BY <2>1, <2>2, <2>3, ReleaseStep
<1> QED
  BY <1>1, <1>2, <1>3, <1>4 DEF CallStep

\* A goroutine past the drain: only mu and sio can change what is published.
LEMMA AloneRefines ==
    ASSUME NEW g \in Callers, Inv, pc[g] \in ExclusivePcs,
           \A h \in Callers : ~Busy(h)',
           \/ Published' \in {Published, 0}
           \/ Published = 0 /\ Published' \in Nat
    PROVE  SharedStep
<1>1. Using = [h \in Callers |-> 0] /\ Using' = Using
  BY AloneIsIdle, StillIdle
<1>2. \A h \in Callers : Using[h] = 0
  BY <1>1
<1> QED
  BY <1>1, <1>2 DEF SharedStep

\* Nobody is busy once a goroutine has left the session.
LEMMA LeaveSessionIdle ==
    ASSUME NEW g \in Callers, NEW label \in {"rlock", "idle"}, Inv,
           pc[g] \in ExclusivePcs, LeaveSession(g, label)
    PROVE  (\A h \in Callers : ~Busy(h)') /\ mu' = NoCaller
<1>1. \A h \in Callers : ~Busy(h)
  BY AloneIsIdle
<1> QED
  BY <1>1 DEF LeaveSession, Busy

LEMMA GotoIdle ==
    ASSUME NEW g \in Callers, NEW label \in WriterPcs, Inv,
           pc[g] \in ExclusivePcs, Goto(g, label)
    PROVE  \A h \in Callers : ~Busy(h)'
<1>1. \A h \in Callers : ~Busy(h)
  BY AloneIsIdle
<1> QED
  BY <1>1 DEF Goto, Busy, WriterPcs, DialingPcs, Inv, TypeOK

LEMMA SessionUpIdle ==
    ASSUME NEW g \in Callers, Inv, pc[g] \in ExclusivePcs,
           SessionUp(g) \/ SessionFailed(g)
    PROVE  (\A h \in Callers : ~Busy(h)') /\ mu' = NoCaller
BY LeaveSessionIdle DEF SessionUp, SessionFailed

LEMMA EnterSessionRefines ==
    ASSUME NEW g \in Callers, Inv, EnterSession(g)
    PROVE  SharedStep
<1>1. pc[g] \in ExclusivePcs /\ mu = NoCaller
  BY DEF EnterSession, ExclusivePcs, WriterPcs
<1>2. CASE SessionUp(g) /\ UNCHANGED <<client, open, loggedIn, lost>>
  <2>1. (\A h \in Callers : ~Busy(h)') /\ mu' = NoCaller
    BY <1>1, <1>2, SessionUpIdle
  <2> QED
    BY <1>1, <1>2, <2>1, AloneRefines DEF Published, client
<1>3. CASE CloseLocked /\ mu' = g /\ Goto(g, "dial")
  <2>1. \A h \in Callers : ~Busy(h)'
    BY <1>1, <1>3, GotoIdle DEF WriterPcs, DialingPcs
  <2>2. Published' = 0
    BY <1>3 DEF Published, CloseLocked
  <2> QED
    BY <1>1, <2>1, <2>2, AloneRefines
<1> QED
  BY <1>2, <1>3 DEF EnterSession

LEMMA ReconnectRefines ==
    ASSUME NEW g \in Callers, Inv, ReconnectStep(g)
    PROVE  SharedStep
<1> USE SessionAssumption
<1>1. CASE ForceUnhealthy(g) \/ LockLive(g) \/ Drained(g)
  <2>1. \A h \in Callers : (Busy(h)' <=> Busy(h))
                              /\ (Busy(h) => held'[h] = held[h])
    BY <1>1 DEF ForceUnhealthy, LockLive, Drained, Goto, Busy, caller, locals,
       Inv, TypeOK
  <2>2. UNCHANGED <<sio, mu>>
    BY <1>1 DEF ForceUnhealthy, LockLive, Drained, locks, client
  <2> QED
    BY <2>1, <2>2, SameUsing DEF SharedStep, Published
<1>2. CASE EnterSession(g)
  BY <1>2, EnterSessionRefines
<1>3. ASSUME pc[g] \in DialingPcs
      PROVE  mu = g /\ Published = 0 /\ pc[g] \in ExclusivePcs
  BY <1>3 DEF Inv, LockInv, Published, ExclusivePcs, WriterPcs, DialingPcs
<1>4. CASE \/ Dial(g) \/ Handshake(g) \/ SendToken(g) \/ SendLogin(g)
           \/ TokenRefused(g) \/ TokenInterrupted(g) \/ LoginFault(g)
           \/ BackoffElapsed(g)
  <2>1. pc[g] \in DialingPcs /\ mu' = mu
    BY <1>4 DEF DialingPcs, Dial, Handshake, SendToken, SendLogin,
       TokenRefused, TokenInterrupted, DropToken, LoginFault, BackoffElapsed,
       locks
  <2>2. \E label \in DialingPcs : Goto(g, label)
    BY <1>4 DEF DialingPcs, Dial, Handshake, SendToken, SendLogin,
       TokenRefused, TokenInterrupted, DropToken, LoginFault, BackoffElapsed
  <2>3. \A h \in Callers : ~Busy(h)'
    BY <1>3, <2>1, <2>2, GotoIdle DEF WriterPcs
  <2>4. Published' = 0
    BY <1>3, <2>1 DEF Published
  <2> QED
    BY <1>3, <2>1, <2>3, <2>4, AloneRefines
<1>5. CASE WithoutAuth(g) \/ TokenAccepted(g) \/ LoginAccepted(g)
  <2>1. pc[g] \in DialingPcs /\ SessionUp(g) /\ sio' = sio
    BY <1>5 DEF WithoutAuth, TokenAccepted, LoginAccepted, Connected,
       DialingPcs
  <2>2. (\A h \in Callers : ~Busy(h)') /\ mu' = NoCaller
    BY <1>3, <2>1, SessionUpIdle
  <2>3. Published' \in Nat
    BY <2>1, <2>2 DEF Published, Inv, TypeOK
  <2> QED
    BY <1>3, <2>1, <2>2, <2>3, AloneRefines
<1>6. CASE ConnectFailed(g) \/ MissingCredentials(g) \/ LoginRefused(g)
  <2>1. pc[g] \in DialingPcs /\ GiveUpOrBackOff(g)
    BY <1>6 DEF ConnectFailed, MissingCredentials, LoginRefused, DialingPcs
  <2>2. Published' = 0
    BY <2>1 DEF GiveUpOrBackOff, CloseLocked, Published
  <2>3. Goto(g, "backoff") \/ SessionFailed(g)
    BY <2>1 DEF GiveUpOrBackOff
  <2>4. \A h \in Callers : ~Busy(h)'
    BY <1>3, <2>1, <2>3, GotoIdle, SessionUpIdle DEF WriterPcs, DialingPcs
  <2> QED
    BY <1>3, <2>1, <2>2, <2>4, AloneRefines
<1>7. CASE BackoffCancelled(g)
  <2>1. pc[g] \in DialingPcs /\ SessionFailed(g) /\ sio' = sio /\ sio = 0
    BY <1>7 DEF BackoffCancelled, DialingPcs, client, Inv, ConnectionInv,
       UnlockedPcs
  <2>2. \A h \in Callers : ~Busy(h)'
    BY <1>3, <2>1, SessionUpIdle
  <2> QED
    BY <1>3, <2>1, <2>2, AloneRefines DEF Published
<1> QED
  BY <1>1, <1>2, <1>4, <1>5, <1>6, <1>7 DEF ReconnectStep

LEMMA SharedStepAlways ==
    ASSUME Inv, [Next]_vars
    PROVE  SharedStep
<1>1. ASSUME NEW g \in Callers, StartCall(g) \/ StartReload(g)
      PROVE  SharedStep
  <2>1. \A h \in Callers : (Busy(h)' <=> Busy(h))
                              /\ (Busy(h) => held'[h] = held[h])
    BY <1>1 DEF StartCall, StartReload, Begin, Goto, Busy, Inv, TypeOK
  <2> QED
    BY <1>1, <2>1, SameUsing
       DEF StartCall, StartReload, Begin, SharedStep, Published, locks, client
<1>2. CASE Close
  <2>1. \A h \in Callers : ~Busy(h) /\ ~Busy(h)'
    BY <1>2 DEF Close, Busy
  <2>2. Using = [h \in Callers |-> 0]
    BY <2>1 DEF Using
  <2>3. Using' = Using /\ \A h \in Callers : Using[h] = 0
    BY <2>1, <2>2, StillIdle
  <2>4. Published' = 0
    BY <1>2 DEF Close, CloseLocked, Published
  <2> QED
    BY <2>3, <2>4 DEF SharedStep
<1>3. CASE Environment \/ UNCHANGED vars
  <2>1. UNCHANGED <<pc, held, sio, mu>>
    BY <1>3 DEF Environment, CancelContext, ConnectionLost, HandleDisconnect,
       RevokeToken, vars, caller, locals, locks, client
  <2>2. UNCHANGED <<Published, Using>>
    BY <2>1 DEF Published, Using, Busy
  <2> QED
    BY <2>2 DEF SharedStep
<1> QED
  BY <1>1, <1>2, <1>3, CallRefines, ReconnectRefines DEF Next

\* The two locks, the health flag and the whole reconnect implement the lock-free
\* contract: whoever is handed a session uses the one published, and it is
\* withdrawn or replaced only while nobody does.
THEOREM SpecImplementsSharedSession == Spec => ImplementsSharedSession
<1>1. Init => Shared!SharedInit
  BY DEF Init, Shared!SharedInit
<1>2. SharedStep => [Shared!SharedNext]_(Shared!shared)
  BY DEF SharedStep, Published, Using, Busy, Shared!SharedNext, Shared!Use,
     Shared!Release, Shared!Withdraw, Shared!Publish, Shared!Idle,
     Shared!shared
<1>3. Inv /\ [Next]_vars => [Shared!SharedNext]_(Shared!shared)
  BY <1>2, SharedStepAlways
<1> QED
  BY <1>1, <1>3, Invariance, PTL
     DEF Spec, ImplementsSharedSession, Shared!SharedSpec
==============================================================================
