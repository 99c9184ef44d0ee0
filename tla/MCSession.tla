------------------------------ MODULE MCSession ------------------------------
(* Small instances of Session for TLC.                                     *)
EXTENDS Session, TLC

Authenticated   == [skipAuth |-> FALSE, credentials |-> TRUE]
Unauthenticated == [skipAuth |-> TRUE, credentials |-> FALSE]
NoPassword      == [skipAuth |-> FALSE, credentials |-> FALSE]

AllConfigs  == {Authenticated, Unauthenticated, NoPassword}
UserConfigs == {Authenticated}

Interchangeable == Permutations(Callers)
==============================================================================
