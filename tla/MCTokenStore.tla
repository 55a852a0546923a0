---------------------------- MODULE MCTokenStore ----------------------------
(* Small instances of TokenStore for TLC. *)
EXTENDS TokenStore

CONSTANTS n1, n2, reg1, reg2, use1, auth2

\* Two registrations, a command of the first node, and one that saves
\* credentials before it speaks for the second.
MCNodeOf == [p \in Cmds |-> IF p \in {reg1, use1} THEN n1 ELSE n2]
=============================================================================
