------------------------------ MODULE MCServer ------------------------------
(* Instances of Server for TLC.                                              *)
EXTENDS Server, TLC

CONSTANTS p1, p2

\* Small numbers with the shape of the code's defaults: an int of six bits,
\* shifted by two.
MCDefaults ==
    [workers |-> 2, queue |-> 2, uploadMB |-> 3, rps |-> 1, burst |-> 2]

\* An environment is the defaults but for what is given.  Upload limits: 0,
\* negative, the first that wraps to a negative number, the one that wraps to
\* 0, one that wraps to a positive number, and a negative one that does.
AllUnset == [f \in Fields |-> Unset]
Given(k, v) == [AllUnset EXCEPT ![k] = v]
MCEnvs ==
    {Given(k, 0) : k \in Fields}
    \cup {Given("uploadMB", v) : v \in {-1, 8, 16, 17}}
    \cup {[Given("uploadMB", -15) EXCEPT !["rps"] = NaN]}

=============================================================================
