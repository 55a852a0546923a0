----------------------------- MODULE MCOverlay -----------------------------
(* Small instances of Overlay for TLC. *)
EXTENDS Overlay

CONSTANTS self, n1, n2, n3, n4, h0, h1, h2

\* Two nodes on one host, the second being the first after a new registration,
\* a node on another host, and one whose address does not parse.
MCHosts == [n \in Nodes |-> CASE n = self -> h0 [] n \in {n1, n2} -> h1
                              [] n = n3 -> h2   [] n = n4 -> BadHost]
=============================================================================
