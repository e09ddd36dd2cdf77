------------------------------ MODULE MCInvites ------------------------------
(***************************************************************************)
(* A small instance of Invites, with the dispatchers, for TLC.             *)
(***************************************************************************)
EXTENDS Invites, TLC

CONSTANT k1

\* Two deliveries of one message; of the other messages the model shows no more
\* than that they are published.
Twice == {<<k1, 1>>, <<k1, 2>>}

Symmetry == Permutations(Dispatchers) \cup Permutations(Containers)
=============================================================================
