-------------------------- MODULE MCMaintenanceLease --------------------------
(* MaintenanceLease for TLC: one lease length holds three renewals, and a tick *)
(* is the time a statement may take.                                           *)
EXTENDS MaintenanceLease, TLC

Symmetry == Permutations(Invocations)

=============================================================================
