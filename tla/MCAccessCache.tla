----------------------------- MODULE MCAccessCache -----------------------------
(* AccessCache for TLC: a tick stands for 300 s, so that a cached context lasts *)
(* two ticks and the index three, as 600 s and 900 s do.  Two keys and two      *)
(* account calls at once are too many states: a behaviour has one of several    *)
(* casts, and a call or key that is not in it does nothing.                     *)
EXTENDS AccessCache, TLC

CONSTANT Casts

VARIABLE cast

OnlyCast ==
    /\ \A c \in Calls \ cast : doing[c] = "idle"
    /\ \A k \in Keys \ cast : status[k] \in {"none", "deleted"}

MCInit == Init /\ cast \in Casts
MCNext == Next /\ UNCHANGED cast /\ OnlyCast'
MCSpec == MCInit /\ [][MCNext]_<<vars, cast>>

Symmetry == Permutations(Keys) \cup Permutations(Requests)

=============================================================================
