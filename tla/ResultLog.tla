----------------------------- MODULE ResultLog -----------------------------
(***************************************************************************)
(* What the benchmark runner promises to whoever reads its results: each   *)
(* session it has scheduled is reported exactly once, as at least one row  *)
(* behind those its case has already; the rows of a case are numbered from *)
(* 1 without a gap, and no row is changed or taken back.                   *)
(***************************************************************************)
EXTENDS Naturals, Sequences

CONSTANTS
    Cases,
    Sessions             \* records with the case of a session

VARIABLES
    pending,             \* sessions without rows
    rows                 \* rows of each case

vars == <<pending, rows>>

Init ==
    /\ pending = Sessions
    /\ rows = [c \in Cases |-> <<>>]

Extends(new, old, session) ==
    /\ Len(new) > Len(old)
    /\ \A k \in DOMAIN old : new[k] = old[k]
    /\ \A k \in DOMAIN new \ DOMAIN old : new[k] = [index |-> k, session |-> session]

Report(session) ==
    /\ pending' = pending \ {session}
    /\ Extends(rows'[session.case], rows[session.case], session)
    /\ \A c \in Cases \ {session.case} : rows'[c] = rows[c]

Next == \E session \in pending : Report(session)

Spec == Init /\ [][Next]_vars
=============================================================================
