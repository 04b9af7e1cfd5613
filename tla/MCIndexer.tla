----------------------------- MODULE MCIndexer -----------------------------
(* Instances of Indexer for TLC: symmetry of the three kinds of goroutine.   *)
EXTENDS Indexer, TLC

Symmetry == Permutations(Producers) \cup Permutations(Stoppers)
            \cup Permutations(Workers)

=============================================================================
