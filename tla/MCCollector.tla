----------------------------- MODULE MCCollector -----------------------------
(* Collector on a small instance: a reservoir smaller than the number of    *)
(* results, responses of all status classes, three latencies.               *)
EXTENDS Collector
=============================================================================
