------------------------------ MODULE MCGateway ------------------------------
(***************************************************************************)
(* Gateway for TLC: two requests of one subject, two candidates each, one  *)
(* slot.  They are two streams, of which one may be left unread, or one    *)
(* stream and a plain request.  A tick stands for 30 s: a lease lasts four *)
(* ticks and a call is cut off after four, a renewal is sent every two.    *)
(* The run begins two ticks before a midnight or at one.                   *)
(***************************************************************************)
EXTENDS Gateway

MCPlans == {"anonymous"}
MCDaily == [p \in MCPlans |-> 2]
MCEdge == [p \in MCPlans |-> 0]
MCStreams == [p \in MCPlans |-> 1]
MCStarts == {6, 8}
MCFallback == [p \in MCPlans |-> 2]

CONSTANT Parties

VARIABLE party

MCInit == Init /\ party \in Parties
MCNext == Next /\ UNCHANGED party /\ \A r \in Requests \ party : pc'[r] = "new"
MCSpec == MCInit /\ [][MCNext]_<<vars, party>> /\ Fairness

=============================================================================
