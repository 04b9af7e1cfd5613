---------------------------- MODULE MCSessions -----------------------------
(* Instances of Sessions for TLC: the names carry no meaning.                *)
EXTENDS Sessions, TLC

Symmetry == Permutations(Calls) \cup Permutations(Tokens)
            \cup Permutations(Users) \cup Permutations(Emails)

=============================================================================
