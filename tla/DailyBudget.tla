---------------------------- MODULE DailyBudget ----------------------------
(***************************************************************************)
(* What the quota service promises to a caller, with no clocks, windows or *)
(* stored records in sight.  Every admitted request spends one unit of the *)
(* day's budget, an admitted stream also holds a slot, and a slot that was *)
(* given up is never held again.  Units come back only when the UTC day    *)
(* turns or when the account is erased.                                    *)
(***************************************************************************)
EXTENDS Naturals, FiniteSets

CONSTANTS
    Leases,      \* the stream slots that can ever be asked for
    MaxDaily,    \* the largest daily budget of any plan
    MaxStreams   \* the largest number of concurrent streams of any plan

VARIABLES
    spent,       \* units spent since the day began
    held,        \* the streams that hold a slot
    closed,      \* the streams that once held a slot and do not any more
    day          \* the name of the current UTC day

vars == <<spent, held, closed, day>>

Init ==
    /\ spent = 0
    /\ held = {}
    /\ closed = {}
    /\ day \in Nat

Spend ==
    /\ spent < MaxDaily
    /\ spent' = spent + 1
    /\ UNCHANGED <<held, closed, day>>

Open(l) ==
    /\ l \notin held \cup closed
    /\ Cardinality(held) < MaxStreams
    /\ spent < MaxDaily
    /\ spent' = spent + 1
    /\ held' = held \cup {l}
    /\ UNCHANGED <<closed, day>>

\* Slots are given up by a release, or lapse as time goes by.
Close(gone) ==
    /\ held' = held \ gone
    /\ closed' = closed \cup gone
    /\ UNCHANGED <<spent, day>>

\* Midnight UTC gives the whole budget back, and drops every slot with it.
NewDay ==
    /\ day' \in Nat \ {day}
    /\ spent' = 0
    /\ held' = {}
    /\ closed' = closed \cup held

\* The account is erased.
Forget ==
    /\ spent' = 0
    /\ held' = {}
    /\ closed' = closed \cup held
    /\ UNCHANGED day

Next ==
    \/ Spend
    \/ \E l \in Leases : Open(l)
    \/ \E gone \in SUBSET held : Close(gone)
    \/ NewDay
    \/ Forget

Spec == Init /\ [][Next]_vars

=============================================================================
