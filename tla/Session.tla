------------------------------- MODULE Session -------------------------------
(***************************************************************************)
(* The one Socket.IO session of an Uptime Kuma client and the goroutines   *)
(* that share it (internal/kuma/client: client.go, connect.go, auth.go,    *)
(* rpc.go and the forced reconnect of list.go).                            *)
(*                                                                         *)
(* Call holds the read lock of "live" for its whole emit-and-wait.  A      *)
(* reconnect takes its write lock, then "mu", closes the old session and   *)
(* dials a new one.  "mu" also guards the one-step critical sections of    *)
(* liveSession and markUnhealthy, which are single actions here.           *)
(*                                                                         *)
(* Sessions are numbered in the order they are dialed; 0 is a nil session. *)
(* What a call carries and what the server answers is abstracted to how    *)
(* the call ends.                                                          *)
(***************************************************************************)
EXTENDS Naturals

CONSTANTS
    Callers,        \* the goroutines that share the client
    NoCaller,       \* the free state of a lock
    MaxRetries,     \* cfg.MaxRetries, not negative after buildClient
    Configs,        \* the configurations a client may be built with
    LoginFaults,    \* a login emit may fail or go unanswered
    MaxSessions     \* bound on the sessions dialed

ASSUME SessionAssumption ==
    /\ NoCaller \notin Callers
    /\ MaxRetries \in Nat
    /\ MaxSessions \in Nat \ {0}
    /\ Configs \subseteq [skipAuth : BOOLEAN, credentials : BOOLEAN]
    /\ LoginFaults \in BOOLEAN

VARIABLES
    cfg,          \* skipAuth, and whether Username and Password are both set
    pc,           \* pc[g]: where goroutine g stands
    op,           \* op[g]: what g runs: New, a Call or a forced reload
    pass,         \* pass[g]: which of Call's two passes g is in
    held,         \* held[g]: the session g's call got, or g's reload dropped
    cancelled,    \* cancelled[g]: g's request context has ended
    result,       \* result[g]: how g's last operation ended
    readers,      \* goroutines holding live for reading
    writer,       \* the goroutine that announced itself as live's writer
    mu,           \* the goroutine inside sessionLocked
    sio,          \* c.sio
    healthy,      \* c.healthy
    jwt,          \* whether c.jwt is set
    cancelFn,     \* the session whose context c.cancel ends, 0 when nil
    attempt,      \* sessionLocked's attempt counter
    dialed,       \* sessions dialed so far
    open,         \* sessions whose connection context has not been cancelled
    loggedIn,     \* open sessions the server has authenticated
    lost,         \* open sessions whose connection dropped
    undelivered,  \* dropped sessions whose "disconnect" callback has not run
    revoked       \* the server no longer honours the token in c.jwt

locals  == <<pass, held, cancelled, result>>
caller  == <<op, locals>>
locks   == <<readers, writer, mu>>
client  == <<cfg, sio, healthy, jwt, cancelFn>>
network == <<dialed, open, loggedIn, lost, undelivered, revoked>>
vars    == <<pc, caller, locks, client, attempt, network>>

Sessions == 1..MaxSessions
Attempts == MaxRetries + 1

ReaderPcs  == {"check", "emit", "await", "mark"}
DialingPcs == {"dial", "handshake", "auth", "tokenAck", "loginAck",
               "selfMark", "backoff"}
WriterPcs  == {"drain", "enter"} \cup DialingPcs
Pcs        == {"idle", "rlock", "rwait", "forceMark", "lock"}
                  \cup ReaderPcs \cup WriterPcs

Results == {"none", "ok", "failed"}

-----------------------------------------------------------------------------
(* What buildClient returns, and one goroutine in New about to dial it.    *)

Init ==
    /\ cfg \in Configs
    /\ \E g \in Callers :
          /\ pc = [h \in Callers |-> IF h = g THEN "lock" ELSE "idle"]
          /\ op = [h \in Callers |-> IF h = g THEN "new" ELSE "call"]
    /\ pass = [g \in Callers |-> 1]
    /\ held = [g \in Callers |-> 0]
    /\ cancelled = [g \in Callers |-> FALSE]
    /\ result = [g \in Callers |-> "none"]
    /\ readers = {}
    /\ writer = NoCaller
    /\ mu = NoCaller
    /\ sio = 0
    /\ healthy = FALSE
    /\ jwt = FALSE
    /\ cancelFn = 0
    /\ attempt = 0
    /\ dialed = 0
    /\ open = {}
    /\ loggedIn = {}
    /\ lost = {}
    /\ undelivered = {}
    /\ revoked = FALSE

-----------------------------------------------------------------------------
(* Helpers.                                                                *)

Goto(g, label) == pc' = [pc EXCEPT ![g] = label]

\* The operation returns: its outcome stays, its locals and its context go.
Return(g, r) ==
    /\ result' = [result EXCEPT ![g] = r]
    /\ pass' = [pass EXCEPT ![g] = 1]
    /\ held' = [held EXCEPT ![g] = 0]
    /\ cancelled' = [cancelled EXCEPT ![g] = FALSE]

\* Mutation: the cancel func is dropped without being called.
CloseLockedKeepsContext ==
    /\ open' = open
    /\ loggedIn' = loggedIn \ {cancelFn}
    /\ lost' = lost \ {cancelFn}
    /\ cancelFn' = 0
    /\ sio' = 0
    /\ healthy' = FALSE

\* closeLocked: the connection context ends, the session is forgotten here and
\* at the server.
CloseLocked ==
    /\ open' = open \ {cancelFn}
    /\ loggedIn' = loggedIn \ {cancelFn}
    /\ lost' = lost \ {cancelFn}
    /\ cancelFn' = 0
    /\ sio' = 0
    /\ healthy' = FALSE

\* Go's RWMutex.Unlock lets in every reader that queued behind the writer,
\* before another writer can announce itself.
Woken == {h \in Callers : pc[h] = "rwait"}

\* The deferred unlocks of sessionLocked and session, with g going on at label.
LeaveSession(g, label) ==
    /\ attempt' = 0
    /\ mu' = NoCaller
    /\ writer' = NoCaller
    /\ readers' = readers \cup Woken
    /\ pc' = [h \in Callers |-> IF h = g THEN label
                                ELSE IF h \in Woken THEN "check" ELSE pc[h]]

\* session() returned nil: a Call goes into its second pass or gives up, New
\* hands the client out, a forced reload has its fresh session.
SessionUp(g) ==
    \/ /\ op[g] = "call" /\ pass[g] = 1
       /\ pass' = [pass EXCEPT ![g] = 2]
       /\ LeaveSession(g, "rlock")
       /\ UNCHANGED <<held, cancelled, result>>
    \/ /\ op[g] = "call" /\ pass[g] = 2
       /\ Return(g, "failed")
       /\ LeaveSession(g, "idle")
    \/ /\ op[g] \in {"new", "reload"}
       /\ Return(g, "ok")
       /\ LeaveSession(g, "idle")

\* session() returned an error, which ends the operation.
SessionFailed(g) ==
    /\ Return(g, "failed")
    /\ LeaveSession(g, "idle")

-----------------------------------------------------------------------------
(* Operations a goroutine starts.                                          *)

\* Nobody sees the client before New has returned it.
HandedOut == \A g \in Callers : op[g] = "new" => result[g] = "ok"

Begin(g, kind, label) ==
    /\ HandedOut
    /\ pc[g] = "idle"
    /\ op' = [op EXCEPT ![g] = kind]
    /\ result' = [result EXCEPT ![g] = "none"]
    /\ Goto(g, label)
    /\ UNCHANGED <<pass, held, cancelled, locks, client, attempt, network>>

StartCall(g) == Begin(g, "call", "rlock")

\* EnsureLoaded on a list without a getter that has not been pushed yet.
StartReload(g) == Begin(g, "reload", "forceMark")

\* Close, which takes mu only: the program defers it past its last call.
Close ==
    /\ HandedOut
    /\ \A g \in Callers : pc[g] = "idle"
    /\ mu = NoCaller
    /\ CloseLocked
    /\ UNCHANGED <<cfg, pc, caller, locks, jwt, attempt, dialed, undelivered,
                   revoked>>

-----------------------------------------------------------------------------
(* Call: one pass under the read lock.                                     *)

RLock(g) ==
    /\ pc[g] = "rlock"
    /\ \/ /\ writer = NoCaller
          /\ readers' = readers \cup {g}
          /\ Goto(g, "check")
       \/ /\ writer # NoCaller
          /\ Goto(g, "rwait")
          /\ UNCHANGED readers
    /\ UNCHANGED <<caller, writer, mu, client, attempt, network>>

\* liveSession, and the RUnlock that follows when there is none to use.
CheckLive(g) ==
    /\ pc[g] = "check"
    /\ mu = NoCaller
    /\ \/ /\ sio # 0 /\ healthy
          /\ held' = [held EXCEPT ![g] = sio]
          /\ Goto(g, "emit")
          /\ UNCHANGED readers
       \/ /\ ~(sio # 0 /\ healthy)
          /\ readers' = readers \ {g}
          /\ Goto(g, "lock")
          /\ UNCHANGED held
    /\ UNCHANGED <<op, pass, cancelled, result, writer, mu, client, attempt,
                   network>>

Emit(g) ==
    /\ pc[g] = "emit"
    /\ \/ /\ Goto(g, "await")
          /\ UNCHANGED result
       \/ /\ result' = [result EXCEPT ![g] = "failed"]
          /\ Goto(g, "mark")
    /\ UNCHANGED <<op, pass, held, cancelled, locks, client, attempt, network>>

\* The acknowledgement: accepted, or turned into an error by decodeAck.  The
\* library drops it once the session's connection context has ended.
Ack(g) ==
    /\ pc[g] = "await"
    /\ held[g] \in open \ lost
    /\ \E r \in {"ok", "failed"} : Return(g, r)
    /\ readers' = readers \ {g}
    /\ Goto(g, "idle")
    /\ UNCHANGED <<op, writer, mu, client, attempt, network>>

\* The library's timer or waitCtx, whichever fires.
CallTimeout(g) ==
    /\ pc[g] = "await"
    /\ result' = [result EXCEPT ![g] = "failed"]
    /\ Goto(g, "mark")
    /\ UNCHANGED <<op, pass, held, cancelled, locks, client, attempt, network>>

CallCancelled(g) ==
    /\ pc[g] = "await"
    /\ cancelled[g]
    /\ Return(g, "failed")
    /\ readers' = readers \ {g}
    /\ Goto(g, "idle")
    /\ UNCHANGED <<op, writer, mu, client, attempt, network>>

\* Mutation: a call that fails closes the session instead of flagging it.
MarkUnhealthyCloses(g) ==
    /\ pc[g] = "mark"
    /\ mu = NoCaller
    /\ CloseLocked
    /\ readers' = readers \ {g}
    /\ Return(g, result[g])
    /\ Goto(g, "idle")
    /\ UNCHANGED <<cfg, op, writer, mu, jwt, attempt, dialed, undelivered,
                   revoked>>

\* Mutation: the error path forgets the read unlock.
MarkUnhealthyKeepsLock(g) ==
    /\ pc[g] = "mark"
    /\ mu = NoCaller
    /\ healthy' = FALSE
    /\ Return(g, result[g])
    /\ Goto(g, "idle")
    /\ UNCHANGED <<cfg, op, locks, sio, jwt, cancelFn, attempt, network>>

\* markUnhealthy from callWith, then the deferred RUnlock.
MarkUnhealthy(g) ==
    /\ pc[g] = "mark"
    /\ mu = NoCaller
    /\ healthy' = FALSE
    /\ readers' = readers \ {g}
    /\ Return(g, result[g])
    /\ Goto(g, "idle")
    /\ UNCHANGED <<cfg, op, writer, mu, sio, jwt, cancelFn, attempt, network>>

-----------------------------------------------------------------------------
(* session: the write lock, and the reconnect under mu.                    *)

\* Mutation: the reload goes to session() without dropping the session.
ForceUnhealthyForgotten(g) ==
    /\ pc[g] = "forceMark"
    /\ mu = NoCaller
    /\ UNCHANGED healthy
    /\ held' = [held EXCEPT ![g] = sio]
    /\ Goto(g, "lock")
    /\ UNCHANGED <<cfg, op, pass, cancelled, result, locks, sio, jwt,
                   cancelFn, attempt, network>>

\* EnsureLoaded drops the session to force a new one.
ForceUnhealthy(g) ==
    /\ pc[g] = "forceMark"
    /\ mu = NoCaller
    /\ healthy' = FALSE
    /\ held' = [held EXCEPT ![g] = sio]
    /\ Goto(g, "lock")
    /\ UNCHANGED <<cfg, op, pass, cancelled, result, locks, sio, jwt,
                   cancelFn, attempt, network>>

\* RWMutex.Lock announces the writer first: later readers queue behind it.
LockLive(g) ==
    /\ pc[g] = "lock"
    /\ writer = NoCaller
    /\ writer' = g
    /\ Goto(g, "drain")
    /\ UNCHANGED <<caller, readers, mu, client, attempt, network>>

\* Mutation: the writer does not wait for the readers.
DrainedAtOnce(g) ==
    /\ pc[g] = "drain"
    /\ Goto(g, "enter")
    /\ UNCHANGED <<caller, locks, client, attempt, network>>

Drained(g) ==
    /\ pc[g] = "drain"
    /\ readers = {}
    /\ Goto(g, "enter")
    /\ UNCHANGED <<caller, locks, client, attempt, network>>

\* Someone else reconnected meanwhile, or the stale session is closed.
EnterSession(g) ==
    /\ pc[g] = "enter"
    /\ mu = NoCaller
    /\ \/ /\ sio # 0 /\ healthy
          /\ SessionUp(g)
          /\ UNCHANGED <<client, open, loggedIn, lost>>
       \/ /\ ~(sio # 0 /\ healthy)
          /\ CloseLocked
          /\ mu' = g
          /\ Goto(g, "dial")
          /\ UNCHANGED <<cfg, readers, writer, jwt, locals, attempt>>
    /\ UNCHANGED <<op, dialed, undelivered, revoked>>

\* newConnectionContext, buildSocket, registerHandlers and Connect.
Dial(g) ==
    /\ pc[g] = "dial"
    /\ dialed < MaxSessions
    /\ dialed' = dialed + 1
    /\ open' = open \cup {dialed + 1}
    /\ cancelFn' = dialed + 1
    /\ Goto(g, "handshake")
    /\ UNCHANGED <<cfg, caller, locks, sio, healthy, jwt, attempt, loggedIn,
                   lost, undelivered, revoked>>

\* The connect event arrived.
Handshake(g) ==
    /\ pc[g] = "handshake"
    /\ cancelFn \notin lost
    /\ sio' = cancelFn
    /\ healthy' = TRUE
    /\ Goto(g, "auth")
    /\ UNCHANGED <<cfg, caller, locks, jwt, cancelFn, attempt, network>>

-----------------------------------------------------------------------------
(* authenticateLocked, under both locks.                                   *)

Connected(g) ==
    /\ SessionUp(g)
    /\ UNCHANGED <<cfg, op, sio, healthy, cancelFn, dialed, open, lost,
                   undelivered>>

WithoutAuth(g) ==
    /\ pc[g] = "auth"
    /\ cfg.skipAuth
    /\ Connected(g)
    /\ UNCHANGED <<jwt, loggedIn, revoked>>

SendToken(g) ==
    /\ pc[g] = "auth"
    /\ ~cfg.skipAuth
    /\ jwt
    /\ Goto(g, "tokenAck")
    /\ UNCHANGED <<caller, locks, client, attempt, network>>

SendLogin(g) ==
    /\ pc[g] = "auth"
    /\ ~cfg.skipAuth
    /\ ~jwt
    /\ cfg.credentials
    /\ Goto(g, "loginAck")
    /\ UNCHANGED <<caller, locks, client, attempt, network>>

TokenAccepted(g) ==
    /\ pc[g] = "tokenAck"
    /\ sio \notin lost
    /\ ~revoked
    /\ loggedIn' = loggedIn \cup {sio}
    /\ Connected(g)
    /\ UNCHANGED <<jwt, revoked>>

\* Any error of loginByToken drops the token.
DropToken(g) ==
    /\ jwt' = FALSE
    /\ revoked' = FALSE
    /\ Goto(g, "auth")
    /\ UNCHANGED <<cfg, caller, locks, sio, healthy, cancelFn, attempt, dialed,
                   open, loggedIn, lost, undelivered>>

TokenRefused(g) ==
    /\ pc[g] = "tokenAck"
    /\ sio \notin lost
    /\ revoked
    /\ DropToken(g)

\* g's own context ended before the server answered.
TokenInterrupted(g) ==
    /\ pc[g] = "tokenAck"
    /\ cancelled[g]
    /\ DropToken(g)

\* Mutation: the token of the answer is not kept.
LoginAcceptedForgetsToken(g) ==
    /\ pc[g] = "loginAck"
    /\ sio \notin lost
    /\ UNCHANGED jwt
    /\ loggedIn' = loggedIn \cup {sio}
    /\ Connected(g)
    /\ UNCHANGED revoked

LoginAccepted(g) ==
    /\ pc[g] = "loginAck"
    /\ sio \notin lost
    /\ jwt' = TRUE
    /\ loggedIn' = loggedIn \cup {sio}
    /\ Connected(g)
    /\ UNCHANGED revoked

\* callWith calls markUnhealthy, which locks mu again: g holds mu already, so
\* no action takes a goroutine out of "selfMark".
LoginFault(g) ==
    /\ pc[g] \in {"tokenAck", "loginAck"}
    /\ LoginFaults
    /\ Goto(g, "selfMark")
    /\ UNCHANGED <<caller, locks, client, attempt, network>>

-----------------------------------------------------------------------------
(* A failed attempt: close, back off, dial again or give up.               *)

\* Mutation: one attempt too many.
GiveUpOrBackOffLate(g) ==
    /\ CloseLocked
    /\ \/ /\ attempt < Attempts
          /\ attempt' = attempt + 1
          /\ Goto(g, "backoff")
          /\ UNCHANGED <<readers, writer, mu, locals>>
       \/ /\ attempt >= Attempts
          /\ SessionFailed(g)
    /\ UNCHANGED <<cfg, op, jwt, dialed, undelivered, revoked>>

GiveUpOrBackOff(g) ==
    /\ CloseLocked
    /\ \/ /\ attempt + 1 < Attempts
          /\ attempt' = attempt + 1
          /\ Goto(g, "backoff")
          /\ UNCHANGED <<readers, writer, mu, locals>>
       \/ /\ attempt + 1 >= Attempts
          /\ SessionFailed(g)
    /\ UNCHANGED <<cfg, op, jwt, dialed, undelivered, revoked>>

\* The endpoint does not parse or Connect refuses, the handshake times out, or
\* g's context ends while it waits.
ConnectFailed(g) ==
    /\ pc[g] \in {"dial", "handshake"}
    /\ GiveUpOrBackOff(g)

MissingCredentials(g) ==
    /\ pc[g] = "auth"
    /\ ~cfg.skipAuth
    /\ ~jwt
    /\ ~cfg.credentials
    /\ GiveUpOrBackOff(g)

\* Wrong password, a 2FA code required, no token in the answer, a rate limit,
\* or g's context ended.
LoginRefused(g) ==
    /\ pc[g] = "loginAck"
    /\ sio \notin lost \/ cancelled[g]
    /\ GiveUpOrBackOff(g)

BackoffElapsed(g) ==
    /\ pc[g] = "backoff"
    /\ Goto(g, "dial")
    /\ UNCHANGED <<caller, locks, client, attempt, network>>

BackoffCancelled(g) ==
    /\ pc[g] = "backoff"
    /\ cancelled[g]
    /\ SessionFailed(g)
    /\ UNCHANGED <<op, client, network>>

-----------------------------------------------------------------------------
(* What happens outside the goroutines.                                    *)

CancelContext(g) ==
    /\ pc[g] # "idle"
    /\ ~cancelled[g]
    /\ cancelled' = [cancelled EXCEPT ![g] = TRUE]
    /\ UNCHANGED <<pc, op, pass, held, result, locks, client, attempt, network>>

ConnectionLost(s) ==
    /\ s \in open \ lost
    /\ LoginFaults \/ sio # s \/ mu = NoCaller
    /\ lost' = lost \cup {s}
    /\ undelivered' = undelivered \cup {s}
    /\ UNCHANGED <<pc, caller, locks, client, attempt, dialed, open, loggedIn,
                   revoked>>

\* The handler is not tied to its session: a late one marks the next session.
HandleDisconnect(s) ==
    /\ s \in undelivered
    /\ mu = NoCaller
    /\ healthy' = FALSE
    /\ undelivered' = undelivered \ {s}
    /\ UNCHANGED <<cfg, pc, caller, locks, sio, jwt, cancelFn, attempt, dialed,
                   open, loggedIn, lost, revoked>>

\* The user's password changed, or the server's signing secret.
RevokeToken ==
    /\ jwt
    /\ ~revoked
    /\ revoked' = TRUE
    /\ UNCHANGED <<pc, caller, locks, client, attempt, dialed, open, loggedIn,
                   lost, undelivered>>

-----------------------------------------------------------------------------

CallStep(g) ==
    RLock(g) \/ CheckLive(g) \/ Emit(g) \/ Ack(g) \/ CallTimeout(g)
        \/ CallCancelled(g) \/ MarkUnhealthy(g)

ReconnectStep(g) ==
    ForceUnhealthy(g) \/ LockLive(g) \/ Drained(g) \/ EnterSession(g)
        \/ Dial(g) \/ Handshake(g) \/ WithoutAuth(g) \/ SendToken(g)
        \/ SendLogin(g) \/ TokenAccepted(g) \/ TokenRefused(g)
        \/ TokenInterrupted(g) \/ LoginAccepted(g) \/ LoginFault(g)
        \/ ConnectFailed(g) \/ MissingCredentials(g) \/ LoginRefused(g)
        \/ BackoffElapsed(g) \/ BackoffCancelled(g)

Environment ==
    \/ \E g \in Callers : CancelContext(g)
    \/ \E s \in Sessions : ConnectionLost(s) \/ HandleDisconnect(s)
    \/ RevokeToken

Next ==
    \/ \E g \in Callers :
          StartCall(g) \/ StartReload(g) \/ CallStep(g) \/ ReconnectStep(g)
    \/ Close
    \/ Environment

Spec == Init /\ [][Next]_vars

\* Timers expire, locks are granted and goroutines run on.  Go's mutexes hand
\* themselves to a starving waiter, hence strong fairness where one is awaited.
FairSpec ==
    /\ Spec
    /\ \A g \in Callers :
          /\ WF_vars(CallStep(g) \/ ReconnectStep(g))
          /\ SF_vars(ForceUnhealthy(g) \/ LockLive(g))

-----------------------------------------------------------------------------
(* Properties.                                                             *)

TypeOK ==
    /\ cfg \in [skipAuth : BOOLEAN, credentials : BOOLEAN]
    /\ pc \in [Callers -> Pcs]
    /\ op \in [Callers -> {"new", "call", "reload"}]
    /\ pass \in [Callers -> {1, 2}]
    /\ held \in [Callers -> 0..MaxSessions]
    /\ cancelled \in [Callers -> BOOLEAN]
    /\ result \in [Callers -> Results]
    /\ readers \subseteq Callers
    /\ writer \in Callers \cup {NoCaller}
    /\ mu \in Callers \cup {NoCaller}
    /\ sio \in 0..MaxSessions
    /\ healthy \in BOOLEAN
    /\ jwt \in BOOLEAN
    /\ cancelFn \in 0..MaxSessions
    /\ attempt \in 0..MaxRetries
    /\ dialed \in 0..MaxSessions
    /\ open \subseteq Sessions
    /\ loggedIn \subseteq Sessions
    /\ lost \subseteq Sessions
    /\ undelivered \subseteq Sessions
    /\ revoked \in BOOLEAN

Usable(s) == cfg.skipAuth \/ s \in loggedIn

\* A call that has been handed a session, from its emit to its answer, runs on
\* the client's current one, which is authenticated and whose connection context
\* is alive: a reconnect forced by another goroutine never tears the session
\* down underneath the call, which would drop the acknowledgement silently.
CallsRideALiveSession ==
    \A g \in Callers :
        pc[g] \in {"emit", "await"} =>
            held[g] = sio /\ held[g] \in open /\ Usable(held[g])

\* However many dials and logins failed on the way, the only connection context
\* still alive is the one c.cancel can end; outside a reconnect it belongs to
\* c.sio, and a client without a session leaves no connection behind.
OneConnection ==
    /\ open \subseteq {cancelFn}
    /\ mu = NoCaller => open = {sio} \ {0}

\* Outside a reconnect, a client that has a session holds the token of a login,
\* so the next reconnect can present it instead of spending the password login
\* and the single-use 2FA code.
TokenOutlivesSession ==
    mu = NoCaller /\ sio # 0 /\ ~cfg.skipAuth => jwt

\* A forced reload that succeeds leaves the client on a session dialed after the
\* one it dropped, whichever goroutine dialed it: the server has run afterLogin
\* and pushed the lists again since the reload began.
ReloadGetsNewSession ==
    [][\A g \in Callers :
          op[g] = "reload" /\ result[g] = "none" /\ result'[g] = "ok" =>
              sio' > held[g] /\ (cfg.skipAuth \/ sio' \in loggedIn')]_vars

\* The cached token is given up only because the server refused it, so that a
\* reconnect neither spends a login nor burns the single-use 2FA code.
TokenDroppedOnlyWhenRefused == [][jwt /\ ~jwt' => revoked]_vars

\* Every New, Call and forced reload ends: timeouts, lost connections, cancelled
\* contexts and concurrent reconnects included.
EveryOperationEnds ==
    \A g \in Callers : pc[g] # "idle" ~> pc[g] = "idle"

\* The locks implement the lock-free contract of SharedSession.
Shared == INSTANCE SharedSession WITH
    published <- IF mu = NoCaller THEN sio ELSE 0,
    using <- [g \in Callers |-> IF pc[g] \in {"emit", "await"}
                                THEN held[g] ELSE 0]

ImplementsSharedSession == Shared!SharedSpec
==============================================================================
