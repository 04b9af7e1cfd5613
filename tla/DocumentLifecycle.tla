------------------------- MODULE DocumentLifecycle -------------------------
(***************************************************************************)
(* What the document service promises about one document's status: it is   *)
(* pending from the upload on, becomes ready or failed at most once, and a *)
(* deleted document never comes back.  A PATCH never shows here.           *)
(*                                                                         *)
(* A ready whose write was reported as an error is unsure: it becomes      *)
(* failed, or ready for good when that second write does not happen.       *)
(***************************************************************************)
CONSTANT Docs
VARIABLE state

Init == state = [d \in Docs |-> "unborn"]

Move(d, from, to) == state[d] = from /\ state' = [state EXCEPT ![d] = to]

Upload(d) == Move(d, "unborn", "pending")
Index(d) == \E st \in {"ready", "failed", "unsure"} : Move(d, "pending", st)
Retract(d) == Move(d, "unsure", "failed")
Remove(d) ==
    \E st \in {"pending", "ready", "failed", "unsure"} : Move(d, st, "deleted")

\* The end of the process keeps every unsure ready there is.
Keep ==
    \E S \in SUBSET {d \in Docs : state[d] = "unsure"} :
       state' = [d \in Docs |-> IF d \in S THEN "ready" ELSE state[d]]

Next == Keep \/ \E d \in Docs : Upload(d) \/ Index(d) \/ Retract(d) \/ Remove(d)

Spec == Init /\ [][Next]_state

=============================================================================
