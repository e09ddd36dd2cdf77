--------------------------- MODULE MCRegistration ---------------------------
(***************************************************************************)
(* Small instances of Registration for TLC.                                *)
(***************************************************************************)
EXTENDS Registration, TLC

CONSTANTS k1, k2

OtherAndSpouse == k1 :> "other" @@ k2 :> "spouse"

\* LPAD(n::TEXT, 4, '0') in a numeral system of base 3 and a column of one
\* digit: what is longer is cut at the right, so 3 ("10") reads like 1.
Lpad(n) ==
    IF n < 3 THEN n ELSE LET cut == CHOOSE k \in 1 .. n : 3 ^ k <= n /\ n < 3 ^ (k + 1)
                         IN  n \div 3 ^ cut

Interchangeable == Permutations(Containers) \cup Permutations(Users \ {Admin})
                   \cup Permutations(Mobiles \ {AdminMobile})
=============================================================================
