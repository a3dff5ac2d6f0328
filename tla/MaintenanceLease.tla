--------------------------- MODULE MaintenanceLease ---------------------------
(***************************************************************************)
(* Scheduled invocations competing for one maintenance lease               *)
(* (withMaintenanceLease, apps/worker/src/probe.ts).                       *)
(*                                                                         *)
(* The lease is a row of D1.  An invocation inserts it, or takes it over   *)
(* when its expiry has passed; a timer pushes the expiry out while the     *)
(* task runs, and a DELETE gives the lease back.  Every expiry is computed *)
(* before its statement is sent, renewals are not awaited, a statement may *)
(* fail or be applied after its sender died, and a worker whose renewals   *)
(* fail is not told.                                                       *)
(***************************************************************************)
EXTENDS Integers

CONSTANTS
    Invocations,   \* runs of the scheduled handler; each draws its own holder UUID
    None,          \* the holder of no row
    LeaseLen,      \* 15 minutes
    RenewEvery,    \* 2 minutes
    Delay,         \* bound: a statement is applied, or fails, within this time
    Tolerance,     \* how long a stretch of lost renewals the lease has to survive
    MaxTime        \* bound: the clock stops here

ASSUME LeaseAssumption ==
    /\ None \notin Invocations
    /\ {LeaseLen, RenewEvery, Delay} \subseteq Nat \ {0}
    /\ {Tolerance, MaxTime} \subseteq Nat
    /\ Delay < RenewEvery
    /\ Tolerance + RenewEvery + 2 * Delay < LeaseLen

VARIABLES
    now,       \* Date.now() and CURRENT_TIMESTAMP
    row,       \* worker_maintenance_leases: the lease's row
    wire,      \* statements sent to D1 and neither applied nor failed yet
    pc,        \* where each invocation is in withMaintenanceLease
    due,       \* when the answer to its claim is due, then when its timer fires next
    ended,     \* history: when it was over, whatever ended it
    late       \* history: how long a stretch of its renewals failed in a row

local == <<pc, due, ended, late>>
vars == <<now, row, wire, local>>

Holders == Invocations \cup {None}

Statement == [type: {"claim", "renew", "delete"}, holder: Invocations, sent: Nat]

Phases == {"idle", "claiming", "granted", "working", "leaving", "gone"}

NoRow == [holder |-> None, expires |-> 0]

\* Fault: the lease length taken off instead of added.
ExpiryBefore(t) == t - LeaseLen

Expiry(t) == t + LeaseLen

Send(type, i) == wire' = wire \cup {[type |-> type, holder |-> i, sent |-> now]}

\* Invocation i is over; no timer of it runs any more.
End(i, phase) ==
    /\ pc' = [pc EXCEPT ![i] = phase]
    /\ due' = [due EXCEPT ![i] = 0]
    /\ ended' = [ended EXCEPT ![i] = now]
    /\ late' = [late EXCEPT ![i] = 0]

\* The statement of invocation i it was waiting for in phase `from` is settled.
Settle(i, from, to) ==
    IF pc[i] = from THEN pc' = [pc EXCEPT ![i] = to] ELSE UNCHANGED pc

Init ==
    /\ now = 0
    /\ row = NoRow
    /\ wire = {}
    /\ pc = [i \in Invocations |-> "idle"]
    /\ due = [i \in Invocations |-> 0]
    /\ ended = [i \in Invocations |-> 0]
    /\ late = [i \in Invocations |-> 0]

-----------------------------------------------------------------------------
(* An invocation. *)

Claim(i) ==
    /\ pc[i] = "idle"
    /\ pc' = [pc EXCEPT ![i] = "claiming"]
    /\ due' = [due EXCEPT ![i] = now + Delay]
    /\ Send("claim", i)
    /\ UNCHANGED <<now, row, ended, late>>

\* The claim's answer arrives: the timer starts, and the task.
Work(i) ==
    /\ pc[i] = "granted"
    /\ pc' = [pc EXCEPT ![i] = "working"]
    /\ due' = [due EXCEPT ![i] = now + RenewEvery]
    /\ UNCHANGED <<now, row, wire, ended, late>>

\* Fault: the timer outlives the task.
RenewalUncleared(i) ==
    /\ pc[i] \in {"working", "leaving", "gone"} /\ now >= due[i]
    /\ due' = [due EXCEPT ![i] = now + RenewEvery]
    /\ Send("renew", i)
    /\ UNCHANGED <<now, row, pc, ended, late>>

Renewal(i) ==
    /\ pc[i] = "working" /\ now >= due[i]
    /\ due' = [due EXCEPT ![i] = now + RenewEvery]
    /\ Send("renew", i)
    /\ UNCHANGED <<now, row, pc, ended, late>>

\* The task returns or throws: the timer is cleared and the row deleted.
Finish(i) ==
    /\ pc[i] = "working"
    /\ End(i, "leaving")
    /\ Send("delete", i)
    /\ UNCHANGED <<now, row>>

\* The isolate dies, or the answer to a claim that was applied does not arrive.
\* What was sent stays on its way.
Crash(i) ==
    /\ pc[i] \in {"claiming", "granted", "working"}
    /\ End(i, "gone")
    /\ UNCHANGED <<now, row, wire>>

-----------------------------------------------------------------------------
(* D1 applies the statements, in any order. *)

\* INSERT ... ON CONFLICT(name) DO UPDATE ... WHERE expires_at <= CURRENT_TIMESTAMP
Taken(m) ==
    /\ m.type = "claim"
    /\ row.holder = None \/ row.expires <= now
    /\ wire' = wire \ {m}
    /\ row' = [holder |-> m.holder, expires |-> Expiry(m.sent)]
    /\ Settle(m.holder, "claiming", "granted")
    /\ UNCHANGED <<now, due, ended, late>>

\* No row changed: the invocation has nothing to do.
Refused(m) ==
    /\ m.type = "claim"
    /\ row.holder # None /\ row.expires > now
    /\ wire' = wire \ {m}
    /\ IF pc[m.holder] = "claiming" THEN End(m.holder, "gone") ELSE UNCHANGED local
    /\ UNCHANGED <<now, row>>

\* A renewal that did not push the expiry out adds to the stretch of lost ones.
Missed(i) ==
    late' = IF pc[i] = "working" THEN [late EXCEPT ![i] = @ + RenewEvery] ELSE late

\* UPDATE ... WHERE name = ? AND holder = ?: without effect when the lease was lost.
Renewed(m) ==
    /\ m.type = "renew"
    /\ wire' = wire \ {m}
    /\ \/ /\ row.holder = m.holder
          /\ row' = [row EXCEPT !.expires = Expiry(m.sent)]
          /\ late' = [late EXCEPT ![m.holder] = 0]
       \/ /\ row.holder # m.holder
          /\ Missed(m.holder)
          /\ UNCHANGED row
    /\ UNCHANGED <<now, pc, due, ended>>

\* Fault: the row is deleted by its name alone.
DeletedByName(m) ==
    /\ m.type = "delete"
    /\ wire' = wire \ {m}
    /\ row' = NoRow
    /\ Settle(m.holder, "leaving", "gone")
    /\ UNCHANGED <<now, due, ended, late>>

\* DELETE ... WHERE name = ? AND holder = ?
Deleted(m) ==
    /\ m.type = "delete"
    /\ wire' = wire \ {m}
    /\ row' = IF row.holder = m.holder THEN NoRow ELSE row
    /\ Settle(m.holder, "leaving", "gone")
    /\ UNCHANGED <<now, due, ended, late>>

\* A statement fails.  A claim or a DELETE throws; a renewal is only logged.
Failed(m) ==
    /\ wire' = wire \ {m}
    /\ \/ /\ m.type = "claim"
          /\ IF pc[m.holder] = "claiming" THEN End(m.holder, "gone") ELSE UNCHANGED local
       \/ /\ m.type = "renew"
          /\ Missed(m.holder)
          /\ UNCHANGED <<pc, due, ended>>
       \/ /\ m.type = "delete"
          /\ Settle(m.holder, "leaving", "gone")
          /\ UNCHANGED <<due, ended, late>>
    /\ UNCHANGED <<now, row>>

\* Timers fire on time; statements and their answers take Delay at most.
Timely ==
    /\ \A m \in wire : now < m.sent + Delay
    /\ \A i \in Invocations :
        pc[i] \in {"claiming", "granted", "working"} => now < due[i]

Tick ==
    /\ now < MaxTime /\ Timely
    /\ now' = now + 1
    /\ UNCHANGED <<row, wire, local>>

Next ==
    \/ \E i \in Invocations : Claim(i) \/ Work(i) \/ Renewal(i) \/ Finish(i) \/ Crash(i)
    \/ \E m \in wire : Taken(m) \/ Refused(m) \/ Renewed(m) \/ Deleted(m) \/ Failed(m)
    \/ Tick

Spec == Init /\ [][Next]_vars

-----------------------------------------------------------------------------
(* Properties. *)

\* The variables keep their types.
TypeOK ==
    /\ now \in Nat
    /\ row \in [holder: Holders, expires: Nat]
    /\ wire \in SUBSET Statement
    /\ pc \in [Invocations -> Phases]
    /\ due \in [Invocations -> Nat]
    /\ ended \in [Invocations -> Nat]
    /\ late \in [Invocations -> Nat]

\* Two invocations run the task at the same time only if one of them failed to
\* renew for longer than the lease has to survive: claims sent before and applied
\* after another's lease ran out, statements of dead invocations and the DELETE of
\* one that lost its lease never let a second one in.
OneWorker ==
    \A i, j \in Invocations :
        (i # j /\ pc[i] = "working" /\ pc[j] = "working") =>
            (late[i] > Tolerance \/ late[j] > Tolerance)

Over(i) == pc[i] \in {"leaving", "gone"}

\* The lease never outlives the last thing its holder did by more than its length,
\* though the DELETE may fail and a renewal sent before may arrive after the end:
\* maintenance is blocked for that long at most.
LeaseRunsOut ==
    \A i \in Invocations :
        (row.holder = i /\ Over(i)) => row.expires <= Expiry(ended[i])

\* "Serialize scheduled maintenance without relying on eventually consistent KV"
\* (apps/worker/migrations/0012_worker_maintenance_leases.sql:1): the task never
\* runs in two invocations at once.
Serialized ==
    \A i, j \in Invocations : (i # j /\ pc[i] = "working") => pc[j] # "working"

=============================================================================
