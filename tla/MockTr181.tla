------------------------------ MODULE MockTr181 ------------------------------
(***************************************************************************)
(* What the mock TR-181 handler decides about a request                    *)
(* (internal/wrphandlers/mocktr181/handler.go), before it changes          *)
(* anything.  A name is the sequence of its parts and dots.                *)
(***************************************************************************)
EXTENDS Sequences, SequencesExt

CONSTANTS
    Parameter,   \* names in the parameter file
    access       \* [Parameter -> SUBSET {"r", "w"}]

IsWildcard(name) == name # <<>> /\ Last(name) = "."

\* The parameters that a name of a GET selects.
Selected(name) == {p \in Parameter : name # <<>> /\ IsPrefix(name, p)}

\* get: a name fails when it selects nothing readable, or, unless it is a wild
\* card, something that is not.
GetFails(name) ==
    \/ \A p \in Selected(name) : "r" \notin access[p]
    \/ ~IsWildcard(name) /\ \E p \in Selected(name) : "r" \notin access[p]

GetStatus(names) == IF \E name \in names : GetFails(name) THEN 520 ELSE 200

\* set: every name is a parameter's own and writable.
SetFails(name) == name \notin Parameter \/ "w" \notin access[name]

SetStatus(names) == IF \E name \in names : SetFails(name) THEN 520 ELSE 202
=============================================================================
