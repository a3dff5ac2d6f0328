------------------------------ MODULE MCWaitlist ------------------------------
(* Waitlist for TLC.  Everyone at once is too many states: a behaviour has one  *)
(* of several casts, and whoever is not in it does nothing.                     *)
EXTENDS Waitlist, TLC

CONSTANTS Casts, Started, Ended

MCTierOf == [d \in {Started, Ended} |-> "configured"]

VARIABLE cast

Absent(x) == x \notin cast

OnlyCast ==
    /\ \A s \in Savers : (Absent(s) => save[s] = Idle) /\ (save[s].of # NoDelivery => save[s].of \in cast)
    /\ \A r \in Readers : Absent(r) => lapse[r] = "none"
    /\ \A a \in Admins : Absent(a) => admin[a] = NoCall
    /\ \A c \in Creators : Absent(c) => make[c] = NoMake

MCInit == Init /\ cast \in Casts
MCNext == Next /\ UNCHANGED cast /\ OnlyCast'
MCSpec == MCInit /\ [][MCNext]_<<vars, cast>>

Symmetry == Permutations(Savers)

=============================================================================
