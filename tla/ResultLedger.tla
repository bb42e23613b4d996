---------------------------- MODULE ResultLedger ----------------------------
(***************************************************************************)
(* What the pool promises about results (internal/engine/pool): a result   *)
(* that the results channel accepted is reported exactly once, before the  *)
(* final report, and no result is accepted after it.                       *)
(***************************************************************************)
EXTENDS Naturals

VARIABLES
    accepted,  \* results the channel has taken from workers
    reported,  \* results that are in the statistics
    final      \* the final report has been made

vars == <<accepted, reported, final>>

Init == accepted = 0 /\ reported = 0 /\ final = FALSE

Accept == /\ ~final
          /\ accepted' = accepted + 1
          /\ UNCHANGED <<reported, final>>

Report == /\ ~final /\ reported < accepted
          /\ reported' = reported + 1
          /\ UNCHANGED <<accepted, final>>

Finish == /\ ~final /\ reported = accepted
          /\ final' = TRUE
          /\ UNCHANGED <<accepted, reported>>

Next == Accept \/ Report \/ Finish

Spec == Init /\ [][Next]_vars
=============================================================================
