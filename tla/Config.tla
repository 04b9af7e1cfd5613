------------------------------- MODULE Config -------------------------------
(***************************************************************************)
(* config.Load of godocs as a function: the environment in, a              *)
(* configuration or a refusal out.  Integers have the width of an int64,   *)
(* because the upload limit is given in megabytes and shifted to bytes.    *)
(***************************************************************************)
EXTENDS Integers

CONSTANTS
    Width,      \* bits of an int64
    Shift,      \* 20 in the code: megabytes to bytes
    Defaults,   \* what each variable is when it is not given
    Unset,      \* absent, empty or unparseable: the default applies
    NaN         \* ParseFloat reads "NaN" as a number

ASSUME WidthAssumption ==
    Width \in Nat \ {0} /\ Shift \in Nat /\ Shift < Width

Fields == {"workers", "queue", "uploadMB", "rps", "burst"}
ASSUME DefaultsAssumption == Defaults \in [Fields -> Int]

\* Atoi accepts what an int holds and the sum below stays there.
HalfRange == 2 ^ (Width - 1)
Wrap(n) == ((n + HalfRange) % (2 * HalfRange)) - HalfRange
ShiftLeft(n) == Wrap(n * 2 ^ Shift)

\* envInt and envFloat.
EnvValue(env, k) == IF env[k] = Unset THEN Defaults[k] ELSE env[k]

Load(env) ==
    [k \in Fields |-> IF k = "uploadMB" THEN ShiftLeft(EnvValue(env, k))
                      ELSE EnvValue(env, k)]

\* A comparison with NaN is false.
NotPositive(x) == x # NaN /\ x <= 0

\* Mutant of Accepted: the upload limit is not looked at.
AcceptsAnyLimit(c) ==
    /\ c["workers"] >= 1 /\ c["queue"] >= 1
    /\ ~NotPositive(c["rps"]) /\ c["burst"] >= 1

\* The checks at the end of Load.
Accepted(c) ==
    /\ c["workers"] >= 1 /\ c["queue"] >= 1 /\ c["uploadMB"] > 0
    /\ ~NotPositive(c["rps"]) /\ c["burst"] >= 1

\* The megabytes whose bytes an int64 can hold.
Representable(mb) == mb * 2 ^ Shift \in -HalfRange .. HalfRange - 1

\* A configuration is accepted only with a positive upload limit, and it is
\* the one that was asked for, unless its bytes do not fit an int64; a negative
\* number that large may come out positive (config.go Load).
LimitAsAsked(env) ==
    LET c == Load(env)  mb == EnvValue(env, "uploadMB") IN
    Accepted(c) =>
        /\ c["uploadMB"] > 0
        /\ Representable(mb) => mb > 0 /\ c["uploadMB"] = mb * 2 ^ Shift

=============================================================================
