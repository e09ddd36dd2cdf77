------------------------------ MODULE MCPasswords ------------------------------
(***************************************************************************)
(* Small instances of Passwords for TLC.                                   *)
(***************************************************************************)
EXTENDS Passwords, TLC

CONSTANTS m1, m2, x1, x2

FirstNumbers == m1 :> x1 @@ m2 :> x2

\* The containers are interchangeable, and so are the members with their numbers.
Swaps == {<<m1, m2, x1, x2>>, <<m2, m1, x2, x1>>}
Swap(s) == m1 :> s[1] @@ m2 :> s[2] @@ x1 :> s[3] @@ x2 :> s[4]
Interchangeable == {p @@ Swap(s) : p \in Permutations(Containers), s \in Swaps}
=============================================================================
