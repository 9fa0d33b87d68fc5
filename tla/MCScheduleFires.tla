-------------------------- MODULE MCScheduleFires --------------------------
(* Small instances of ScheduleFires for TLC. *)
EXTENDS ScheduleFires, TLC

CONSTANTS w1, w2

Base == [interval |-> 1, start |-> 0, max_catch_up |-> 2, max_attempts |-> 2,
         lease |-> 1, backoff |-> 1, max_backoff |-> 1, retention |-> 1,
         max_retained_fires |-> 1]

\* The host is restarted with another interval or a smaller catch-up bound, under
\* which a tick after two missed occurrences skips one.
ChangingPolicies == {Base, [Base EXCEPT !.max_catch_up = 1], [Base EXCEPT !.interval = 2]}

\* The start is moved past occurrences that were already due.
MovedStart == {[Base EXCEPT !.interval = 2], [Base EXCEPT !.interval = 2, !.start = 3]}

MCSymmetry == Permutations(Workers)
=============================================================================
