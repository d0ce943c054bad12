----------------------------- MODULE AttemptLog -----------------------------
(***************************************************************************)
(* What the benchmark firmware promises to whoever reads its serial line:  *)
(* the BENCH_ATTEMPT lines of a batch come one by one, 1, 2, ... Total.    *)
(* Only a reset from outside may make it say its last line again or start  *)
(* the batch over, and one reset excuses one such jump.                    *)
(***************************************************************************)
EXTENDS Naturals

CONSTANT Total       \* attempts of a batch

VARIABLES
    last,            \* index of the last line, 0 before the first
    disturbed        \* has the board been reset since that line

vars == <<last, disturbed>>

Init == last = 0 /\ disturbed = FALSE

Disturb ==
    /\ disturbed' = TRUE
    /\ UNCHANGED last

Report ==
    /\ \/ last' = last + 1
       \/ disturbed /\ last' \in {1, last}
    /\ last' \in 1 .. Total
    /\ disturbed' = FALSE

Next == Disturb \/ Report

Spec == Init /\ [][Next]_vars
=============================================================================
