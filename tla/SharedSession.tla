---------------------------- MODULE SharedSession ----------------------------
(***************************************************************************)
(* What the client promises the goroutines that share it, without locks:   *)
(* one published session at a time; a goroutine uses the session that is   *)
(* published when it starts; a session is published and withdrawn only     *)
(* while nobody uses one.  Sessions are numbered in the order they are     *)
(* opened, and 0 stands for no session.                                    *)
(***************************************************************************)
EXTENDS Naturals

CONSTANTS Callers   \* the goroutines sharing the client

VARIABLES published, \* the session handed to callers, 0 when there is none
          using      \* using[g]: the session g's call runs on, 0 when none

shared == <<published, using>>

Idle == \A g \in Callers : using[g] = 0

SharedInit ==
    /\ published = 0
    /\ using = [g \in Callers |-> 0]

Use(g) ==
    /\ published # 0
    /\ using[g] = 0
    /\ using' = [using EXCEPT ![g] = published]
    /\ UNCHANGED published

Release(g) ==
    /\ using[g] # 0
    /\ using' = [using EXCEPT ![g] = 0]
    /\ UNCHANGED published

Withdraw ==
    /\ Idle
    /\ published' = 0
    /\ UNCHANGED using

Publish ==
    /\ Idle
    /\ published = 0
    /\ published' \in Nat \ {0}
    /\ UNCHANGED using

SharedNext ==
    \/ \E g \in Callers : Use(g) \/ Release(g)
    \/ Withdraw
    \/ Publish

SharedSpec == SharedInit /\ [][SharedNext]_shared
==============================================================================
