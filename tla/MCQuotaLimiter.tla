--------------------------- MODULE MCQuotaLimiter ---------------------------
(* AdmissionHistory for TLC: two plans, of which the larger allows two     *)
(* admissions a minute, and more a day than two minutes let through, so    *)
(* that the minute is what limits a burst.                                 *)
EXTENDS AdmissionHistory

ASSUME HistoryHolds == HistoryAssumption

MCPlans == {"registered", "pro"}
MCDaily == [p \in MCPlans |-> IF p = "pro" THEN 5 ELSE 2]
MCEdge == [p \in MCPlans |-> IF p = "pro" THEN 2 ELSE 1]
MCStreams == [p \in MCPlans |-> IF p = "pro" THEN 2 ELSE 1]

=============================================================================
