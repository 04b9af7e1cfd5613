------------------------- MODULE MCDocumentService -------------------------
(* Instances of DocumentService for TLC: symmetry of requests, of workers    *)
(* and of the texts, which are only ever copied and compared.                *)
EXTENDS DocumentService, TLC

Symmetry == Permutations(Reqs) \cup Permutations(Workers) \cup Permutations(Texts)

=============================================================================
