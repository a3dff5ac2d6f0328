------------------------ MODULE MaintenanceLeaseProofs ------------------------
(***************************************************************************)
(* Proofs about MaintenanceLease, for every number of invocations and every *)
(* choice of the lease length, the renewal period and the statement delay   *)
(* that LeaseAssumption allows.                                             *)
(***************************************************************************)
EXTENDS MaintenanceLease, TLAPS

Waiting(i) == pc[i] \in {"claiming", "granted"}

\* A renewal of i is on its way.
Pending(i) == \E m \in wire : m.type = "renew" /\ m.holder = i

\* What is on its way was sent recently, by an invocation that could send it.
WireInv ==
    \A m \in wire :
        /\ m.sent <= now /\ now <= m.sent + Delay
        /\ m.type = "claim" =>
            \/ pc[m.holder] = "claiming" /\ m.sent + Delay = due[m.holder]
            \/ pc[m.holder] = "gone"
        /\ m.type = "renew" =>
            \/ pc[m.holder] = "working" /\ m.sent + RenewEvery = due[m.holder]
            \/ Over(m.holder)
        /\ m.type = "delete" => Over(m.holder)
        /\ Over(m.holder) => m.sent <= ended[m.holder]

\* Deadlines are met, and nothing is missed before the first renewal.
TimeInv ==
    \A i \in Invocations :
        /\ Waiting(i) \/ pc[i] = "working" => now <= due[i]
        /\ Waiting(i) => due[i] <= now + Delay
        /\ Waiting(i) \/ pc[i] = "idle" => late[i] = 0

\* A granted claim holds the row, with the expiry it was sent with.
GrantedInv ==
    \A i \in Invocations :
        pc[i] = "granted" =>
            row.holder = i /\ row.expires + Delay = due[i] + LeaseLen

\* A worker that failed to renew for no longer than Tolerance holds the row, and
\* the expiry is ahead of the timer by what the lost renewals left of it.
WorkingInv ==
    \A i \in Invocations :
        (pc[i] = "working" /\ late[i] <= Tolerance) =>
            /\ row.holder = i
            /\ due[i] + LeaseLen <= row.expires + Delay + late[i] + RenewEvery
                                    + (IF Pending(i) THEN RenewEvery ELSE 0)

\* The expiry was computed by its holder while it was alive.
RowInv ==
    \A i \in Invocations :
        row.holder = i =>
            /\ row.expires <= now + LeaseLen
            /\ Over(i) => row.expires <= ended[i] + LeaseLen

LeaseInv == TypeOK /\ WireInv /\ TimeInv /\ GrantedInv /\ WorkingInv /\ RowInv

-----------------------------------------------------------------------------
(* Types. *)

\* Every step of the model keeps the types.
LEMMA TypeStep == ASSUME TypeOK, [Next]_vars PROVE TypeOK'
<1> USE LeaseAssumption DEF TypeOK, Holders, Statement, Phases
<1>1. ASSUME NEW i \in Invocations,
             Claim(i) \/ Work(i) \/ Renewal(i) \/ Finish(i) \/ Crash(i)
      PROVE  TypeOK'
  BY <1>1 DEF Claim, Work, Renewal, Finish, Crash, End, Send
<1>2. ASSUME NEW m \in wire, Taken(m) PROVE TypeOK'
  BY <1>2 DEF Taken, Settle, Expiry
<1>3. ASSUME NEW m \in wire, Refused(m) PROVE TypeOK'
  BY <1>3 DEF Refused, End, local
<1>4. ASSUME NEW m \in wire, Renewed(m) PROVE TypeOK'
  BY <1>4 DEF Renewed, Missed, Expiry
<1>5. ASSUME NEW m \in wire, Deleted(m) PROVE TypeOK'
  BY <1>5 DEF Deleted, Settle, NoRow
<1>6. ASSUME NEW m \in wire, Failed(m) PROVE TypeOK'
  BY <1>6 DEF Failed, Missed, Settle, End, local
<1>7. CASE Tick
  BY <1>7 DEF Tick, local
<1>8. CASE UNCHANGED vars
  BY <1>8 DEF vars, local
<1> QED BY <1>1, <1>2, <1>3, <1>4, <1>5, <1>6, <1>7, <1>8 DEF Next

-----------------------------------------------------------------------------
(* What holds of a worker at any time. *)

\* The lease of a worker that failed to renew for no longer than Tolerance has not
\* run out: the timer fires in time, and so does the statement it sent last.
LEMMA WorkerLeads ==
    ASSUME LeaseInv, NEW i \in Invocations, pc[i] = "working", late[i] <= Tolerance
    PROVE  row.holder = i /\ row.expires > now
<1> USE LeaseAssumption DEF LeaseInv, TypeOK
<1>1. row.holder = i
  BY DEF WorkingInv
<1>2. CASE Pending(i)
  <2>1. PICK m \in wire : m.type = "renew" /\ m.holder = i
    BY <1>2 DEF Pending
  <2>2. m.sent + RenewEvery = due[i] /\ now <= m.sent + Delay /\ m.sent \in Nat
    BY <2>1 DEF WireInv, Over, Statement
  <2>3. due[i] + LeaseLen <= row.expires + Delay + late[i] + RenewEvery + RenewEvery
    BY <1>2 DEF WorkingInv
  <2> QED BY <1>1, <2>2, <2>3
<1>3. CASE ~Pending(i)
  <2>1. due[i] + LeaseLen <= row.expires + Delay + late[i] + RenewEvery + 0
    BY <1>3 DEF WorkingInv
  <2>2. now <= due[i]
    BY DEF TimeInv
  <2> QED BY <1>1, <2>1, <2>2
<1> QED BY <1>2, <1>3

\* A granted claim has not run out either when its answer arrives.
LEMMA GrantLeads ==
    ASSUME LeaseInv, NEW i \in Invocations, pc[i] = "granted"
    PROVE  row.holder = i /\ row.expires > now
BY LeaseAssumption DEF LeaseInv, TypeOK, GrantedInv, TimeInv, Waiting

-----------------------------------------------------------------------------
(* The invariant is inductive: the steps of an invocation. *)

\* Sending a claim.
LEMMA ClaimStep ==
    ASSUME LeaseInv, NEW i \in Invocations, Claim(i) PROVE LeaseInv'
<1> USE LeaseAssumption DEF LeaseInv
<1>0. TypeOK' BY TypeStep DEF Next
<1>1. WireInv' BY DEF WireInv, TypeOK, Claim, Send, Statement, Over
<1>2. TimeInv' BY DEF TimeInv, TypeOK, Claim, Waiting
<1>3. GrantedInv' BY DEF GrantedInv, TypeOK, Claim
<1>4. WorkingInv' BY DEF WorkingInv, TypeOK, Claim, Send, Pending, Statement
<1>5. RowInv' BY DEF RowInv, TypeOK, Claim, Over
<1> QED BY <1>0, <1>1, <1>2, <1>3, <1>4, <1>5

\* Starting the timer and the task.
LEMMA WorkStep ==
    ASSUME LeaseInv, NEW i \in Invocations, Work(i) PROVE LeaseInv'
<1> USE LeaseAssumption DEF LeaseInv
<1>0. TypeOK' BY TypeStep DEF Next
<1>1. WireInv' BY DEF WireInv, TypeOK, Work, Statement, Over
<1>2. TimeInv' BY DEF TimeInv, TypeOK, Work, Waiting
<1>3. GrantedInv' BY DEF GrantedInv, TypeOK, Work
<1>4. WorkingInv'
  BY DEF WorkingInv, GrantedInv, TimeInv, Waiting, TypeOK, Work, Pending, Statement
<1>5. RowInv' BY DEF RowInv, TypeOK, Work, Over
<1> QED BY <1>0, <1>1, <1>2, <1>3, <1>4, <1>5

\* A renewal fires: the one before it is settled by then, so one is on its way.
LEMMA RenewalStep ==
    ASSUME LeaseInv, NEW i \in Invocations, Renewal(i) PROVE LeaseInv'
<1> USE LeaseAssumption DEF LeaseInv
<1>0. TypeOK' BY TypeStep DEF Next
<1>1. now = due[i] BY DEF TimeInv, TypeOK, Renewal
<1>2. ~Pending(i) BY <1>1 DEF WireInv, TypeOK, Statement, Pending, Renewal, Over
<1>3. WireInv' BY <1>2 DEF WireInv, TypeOK, Renewal, Send, Statement, Over, Pending
<1>4. TimeInv' BY DEF TimeInv, TypeOK, Renewal, Waiting
<1>5. GrantedInv' BY DEF GrantedInv, TypeOK, Renewal
<1>6. WorkingInv'
  <2> SUFFICES ASSUME NEW j \in Invocations, pc'[j] = "working", late'[j] <= Tolerance
               PROVE  /\ row'.holder = j
                      /\ due'[j] + LeaseLen <=
                            row'.expires + Delay + late'[j] + RenewEvery
                            + (IF Pending(j)' THEN RenewEvery ELSE 0)
    BY DEF WorkingInv
  <2>1. /\ row' = row /\ late' = late /\ pc' = pc
        /\ wire' = wire \cup {[type |-> "renew", holder |-> i, sent |-> now]}
        /\ due' = [due EXCEPT ![i] = now + RenewEvery]
    BY DEF Renewal, Send
  <2>2. /\ row.holder = j
        /\ due[j] + LeaseLen <= row.expires + Delay + late[j] + RenewEvery
                                + (IF Pending(j) THEN RenewEvery ELSE 0)
    BY <2>1 DEF WorkingInv
  <2>3. CASE j = i
    <3>1. Pending(j)'
      <4>1. \E m \in wire' : m.type = "renew" /\ m.holder = j
        <5> DEFINE r == [type |-> "renew", holder |-> i, sent |-> now]
        <5>1. r.type = "renew" /\ r.holder = j BY <2>3
        <5>2. r \in wire' BY <2>1
        <5> HIDE DEF r
        <5> QED BY <5>1, <5>2
      <4> QED BY <4>1 DEF Pending
    <3> QED BY <1>1, <1>2, <2>1, <2>2, <2>3, <3>1 DEF TypeOK
  <2>4. CASE j # i
    <3>1. Pending(j)' = Pending(j) BY <2>1, <2>4 DEF Pending
    <3> QED BY <2>1, <2>2, <2>4, <3>1 DEF TypeOK
  <2> QED BY <2>3, <2>4
<1>7. RowInv' BY DEF RowInv, TypeOK, Renewal, Over
<1> QED BY <1>0, <1>3, <1>4, <1>5, <1>6, <1>7

\* The task ends.
LEMMA FinishStep ==
    ASSUME LeaseInv, NEW i \in Invocations, Finish(i) PROVE LeaseInv'
<1> USE LeaseAssumption DEF LeaseInv
<1>0. TypeOK' BY TypeStep DEF Next
<1>1. WireInv' BY DEF WireInv, TypeOK, Finish, End, Send, Statement, Over
<1>2. TimeInv' BY DEF TimeInv, TypeOK, Finish, End, Waiting
<1>3. GrantedInv' BY DEF GrantedInv, TypeOK, Finish, End
<1>4. WorkingInv' BY DEF WorkingInv, TypeOK, Finish, End, Send, Pending, Statement
<1>5. RowInv' BY DEF RowInv, TypeOK, Finish, End, Over
<1> QED BY <1>0, <1>1, <1>2, <1>3, <1>4, <1>5

\* The isolate dies.
LEMMA CrashStep ==
    ASSUME LeaseInv, NEW i \in Invocations, Crash(i) PROVE LeaseInv'
<1> USE LeaseAssumption DEF LeaseInv
<1>0. TypeOK' BY TypeStep DEF Next
<1>1. WireInv' BY DEF WireInv, TypeOK, Crash, End, Statement, Over
<1>2. TimeInv' BY DEF TimeInv, TypeOK, Crash, End, Waiting
<1>3. GrantedInv' BY DEF GrantedInv, TypeOK, Crash, End
<1>4. WorkingInv' BY DEF WorkingInv, TypeOK, Crash, End, Pending, Statement
<1>5. RowInv' BY DEF RowInv, TypeOK, Crash, End, Over
<1> QED BY <1>0, <1>1, <1>2, <1>3, <1>4, <1>5

-----------------------------------------------------------------------------
(* The invariant is inductive: the statements. *)

\* A claim is applied: no worker that Tolerance covers, and no other invocation
\* with a granted claim, loses the row to it.
LEMMA TakenStep ==
    ASSUME LeaseInv, NEW m \in wire, Taken(m) PROVE LeaseInv'
<1> USE LeaseAssumption DEF LeaseInv
<1>0. TypeOK' BY TypeStep DEF Next
<1>1. /\ m \in Statement /\ m.holder \in Invocations /\ m.sent \in Nat
      /\ m.type = "claim"
  BY DEF TypeOK, Statement, Taken
<1>2. pc[m.holder] \in {"claiming", "gone"} BY <1>1 DEF WireInv
<1>3. WireInv'
  <2> SUFFICES ASSUME NEW n \in wire' PROVE
        /\ n.sent <= now' /\ now' <= n.sent + Delay
        /\ n.type = "claim" =>
            \/ pc'[n.holder] = "claiming" /\ n.sent + Delay = due'[n.holder]
            \/ pc'[n.holder] = "gone"
        /\ n.type = "renew" =>
            \/ pc'[n.holder] = "working" /\ n.sent + RenewEvery = due'[n.holder]
            \/ Over(n.holder)'
        /\ n.type = "delete" => Over(n.holder)'
        /\ Over(n.holder)' => n.sent <= ended'[n.holder]
    BY DEF WireInv
  <2>1. /\ n \in wire /\ n # m /\ n.holder \in Invocations
        /\ now' = now /\ due' = due /\ ended' = ended
    BY DEF Taken, TypeOK, Statement
  <2>2. CASE n.holder = m.holder /\ pc[m.holder] = "claiming"
    <3>1. n.type # "claim"
      BY <1>1, <2>1, <2>2 DEF WireInv, TypeOK, Statement
    <3> QED BY <2>1, <2>2, <3>1, <1>1 DEF WireInv, TypeOK, Statement, Over
  <2>3. CASE ~(n.holder = m.holder /\ pc[m.holder] = "claiming")
    <3>1. pc'[n.holder] = pc[n.holder]
      BY <2>1, <2>3, <1>1 DEF Taken, Settle, TypeOK
    <3> QED BY <2>1, <3>1 DEF WireInv, Over
  <2> QED BY <2>2, <2>3
<1>4. TimeInv' BY <1>1 DEF TimeInv, TypeOK, Taken, Settle, Waiting
<1>5. GrantedInv'
  <2> SUFFICES ASSUME NEW i \in Invocations, pc'[i] = "granted"
               PROVE  row'.holder = i /\ row'.expires + Delay = due'[i] + LeaseLen
    BY DEF GrantedInv
  <2>1. row' = [holder |-> m.holder, expires |-> m.sent + LeaseLen] /\ due' = due
    BY DEF Taken, Expiry
  <2>2. pc[i] # "granted"
    BY GrantLeads, <1>1 DEF Taken, TypeOK
  <2>3. i = m.holder /\ pc[i] = "claiming"
    BY <2>2, <1>1 DEF Taken, Settle, TypeOK
  <2>4. m.sent + Delay = due[i]
    BY <2>3, <1>1 DEF WireInv
  <2> QED BY <2>1, <2>3, <2>4, <1>1 DEF TypeOK
<1>6. WorkingInv'
  <2> SUFFICES ASSUME NEW i \in Invocations, pc'[i] = "working", late'[i] <= Tolerance
               PROVE  FALSE
    BY DEF WorkingInv
  <2>1. pc[i] = "working" /\ late[i] <= Tolerance
    BY <1>1, <1>2 DEF Taken, Settle, TypeOK
  <2> QED BY <2>1, WorkerLeads DEF Taken, TypeOK
<1>7. RowInv'
  <2> SUFFICES ASSUME NEW i \in Invocations, row'.holder = i
               PROVE  /\ row'.expires <= now' + LeaseLen
                      /\ Over(i)' => row'.expires <= ended'[i] + LeaseLen
    BY DEF RowInv
  <2>1. /\ row' = [holder |-> m.holder, expires |-> m.sent + LeaseLen]
        /\ now' = now /\ ended' = ended /\ i = m.holder
    BY DEF Taken, Expiry
  <2>2. m.sent <= now /\ (Over(i)' => m.sent <= ended[i])
    BY <1>1, <1>2, <2>1 DEF WireInv, Taken, Settle, Over, TypeOK
  <2> QED BY <2>1, <2>2, <1>1 DEF TypeOK
<1> QED BY <1>0, <1>3, <1>4, <1>5, <1>6, <1>7

\* A claim is refused.
LEMMA RefusedStep ==
    ASSUME LeaseInv, NEW m \in wire, Refused(m) PROVE LeaseInv'
<1> USE LeaseAssumption DEF LeaseInv
<1>0. TypeOK' BY TypeStep DEF Next
<1>1. m.holder \in Invocations BY DEF TypeOK, Statement
<1>2. WireInv' BY <1>1 DEF WireInv, TypeOK, Refused, End, local, Statement, Over
<1>3. TimeInv' BY <1>1 DEF TimeInv, TypeOK, Refused, End, local, Waiting
<1>4. GrantedInv' BY <1>1 DEF GrantedInv, TypeOK, Refused, End, local
<1>5. WorkingInv'
  BY <1>1 DEF WorkingInv, TypeOK, Refused, End, local, Pending, Statement
<1>6. RowInv' BY <1>1 DEF RowInv, TypeOK, Refused, End, local, Over
<1> QED BY <1>0, <1>2, <1>3, <1>4, <1>5, <1>6

\* A renewal is applied: it finds the row of its holder, or it is one more missed.
LEMMA RenewedStep ==
    ASSUME LeaseInv, NEW m \in wire, Renewed(m) PROVE LeaseInv'
<1> USE LeaseAssumption DEF LeaseInv
<1>0. TypeOK' BY TypeStep DEF Next
<1>1. /\ m.holder \in Invocations /\ m.sent \in Nat /\ m.type = "renew"
      /\ pc' = pc /\ due' = due /\ ended' = ended /\ now' = now
      /\ wire' = wire \ {m}
  BY DEF TypeOK, Statement, Renewed
<1>2. \/ pc[m.holder] = "working" /\ m.sent + RenewEvery = due[m.holder]
      \/ Over(m.holder)
  BY <1>1 DEF WireInv
<1>3. WireInv' BY <1>1 DEF WireInv, Over
<1>4. TimeInv' BY <1>1, <1>2 DEF TimeInv, TypeOK, Renewed, Missed, Waiting, Over
<1>5. GrantedInv' BY <1>1, <1>2 DEF GrantedInv, TypeOK, Renewed, Over
<1>6. WorkingInv'
  <2> SUFFICES ASSUME NEW i \in Invocations, pc[i] = "working", late'[i] <= Tolerance
               PROVE  /\ row'.holder = i
                      /\ due[i] + LeaseLen <=
                            row'.expires + Delay + late'[i] + RenewEvery
                            + (IF Pending(i)' THEN RenewEvery ELSE 0)
    BY <1>1 DEF WorkingInv
  <2>1. CASE i # m.holder
    <3>1. late'[i] = late[i] BY <1>1, <2>1 DEF Renewed, Missed, TypeOK
    <3>2. row.holder = i BY <3>1 DEF WorkingInv
    <3>3. row' = row BY <2>1, <3>2 DEF Renewed
    <3>4. Pending(i)' = Pending(i) BY <1>1, <2>1 DEF Pending
    <3> QED BY <3>1, <3>2, <3>3, <3>4 DEF WorkingInv
  <2>2. CASE i = m.holder /\ row.holder = i
    <3>1. /\ row'.holder = i /\ row'.expires = m.sent + LeaseLen
          /\ late'[i] = 0
      BY <1>1, <2>2 DEF Renewed, Expiry, TypeOK
    <3>2. m.sent + RenewEvery = due[i] BY <1>2, <2>2 DEF Over
    <3>3. due[i] \in Nat BY DEF TypeOK
    <3> QED BY <1>1, <3>1, <3>2, <3>3
  <2>3. CASE i = m.holder /\ row.holder # i
    <3>1. late'[i] = late[i] + RenewEvery
      BY <1>1, <2>3 DEF Renewed, Missed, TypeOK
    <3> QED BY <2>3, <3>1 DEF WorkingInv, TypeOK
  <2> QED BY <2>1, <2>2, <2>3
<1>7. RowInv'
  BY <1>1, <1>2 DEF RowInv, WireInv, TypeOK, Renewed, Expiry, Over
<1> QED BY <1>0, <1>3, <1>4, <1>5, <1>6, <1>7

\* A DELETE is applied: it takes the row of nobody else.
LEMMA DeletedStep ==
    ASSUME LeaseInv, NEW m \in wire, Deleted(m) PROVE LeaseInv'
<1> USE LeaseAssumption DEF LeaseInv
<1>0. TypeOK' BY TypeStep DEF Next
<1>1. m.holder \in Invocations /\ Over(m.holder)
  BY DEF TypeOK, Statement, Deleted, WireInv
<1>2. WireInv' BY <1>1 DEF WireInv, TypeOK, Deleted, Settle, Statement, Over
<1>3. TimeInv' BY <1>1 DEF TimeInv, TypeOK, Deleted, Settle, Waiting, Over
<1>4. GrantedInv' BY <1>1 DEF GrantedInv, TypeOK, Deleted, Settle, Over
<1>5. WorkingInv'
  <2>1. \A i \in Invocations : pc'[i] = "working" <=> pc[i] = "working"
    BY <1>1 DEF TypeOK, Deleted, Settle, Over
  <2>2. \A i \in Invocations : Pending(i)' = Pending(i)
    BY DEF Deleted, Pending
  <2>3. \A i \in Invocations : pc[i] = "working" /\ row.holder = i => row' = row
    BY <1>1 DEF Deleted, Over
  <2> QED BY <2>1, <2>2, <2>3 DEF WorkingInv, Deleted
<1>6. RowInv'
  BY <1>1 DEF RowInv, TypeOK, Deleted, Settle, NoRow, Over
<1> QED BY <1>0, <1>2, <1>3, <1>4, <1>5, <1>6

\* A statement fails.
LEMMA FailedStep ==
    ASSUME LeaseInv, NEW m \in wire, Failed(m) PROVE LeaseInv'
<1> USE LeaseAssumption DEF LeaseInv
<1>0. TypeOK' BY TypeStep DEF Next
<1>1. m.holder \in Invocations /\ m.sent \in Nat
  BY DEF TypeOK, Statement
<1>2. CASE m.type = "claim"
  <2>1. WireInv'
    BY <1>1, <1>2 DEF WireInv, TypeOK, Failed, End, local, Statement, Over
  <2>2. TimeInv' BY <1>1, <1>2 DEF TimeInv, TypeOK, Failed, End, local, Waiting
  <2>3. GrantedInv' BY <1>1, <1>2 DEF GrantedInv, TypeOK, Failed, End, local
  <2>4. WorkingInv'
    BY <1>1, <1>2 DEF WorkingInv, TypeOK, Failed, End, local, Pending, Statement
  <2>5. RowInv' BY <1>1, <1>2 DEF RowInv, TypeOK, Failed, End, local, Over
  <2> QED BY <1>0, <2>1, <2>2, <2>3, <2>4, <2>5
<1>3. CASE m.type = "renew"
  <2>1. /\ row' = row /\ pc' = pc /\ due' = due /\ ended' = ended /\ now' = now
        /\ wire' = wire \ {m}
        /\ late' = IF pc[m.holder] = "working"
                   THEN [late EXCEPT ![m.holder] = @ + RenewEvery] ELSE late
    BY <1>3 DEF Failed, Missed
  <2>2. WireInv' BY <2>1 DEF WireInv, Over
  <2>3. TimeInv' BY <1>1, <2>1 DEF TimeInv, TypeOK, Waiting
  <2>4. GrantedInv' BY <2>1 DEF GrantedInv
  <2>5. WorkingInv'
    <3> SUFFICES ASSUME NEW i \in Invocations, pc[i] = "working", late'[i] <= Tolerance
                 PROVE  /\ row.holder = i
                        /\ due[i] + LeaseLen <=
                              row.expires + Delay + late'[i] + RenewEvery
                              + (IF Pending(i)' THEN RenewEvery ELSE 0)
      BY <2>1 DEF WorkingInv
    <3>1. CASE i # m.holder
      <4>1. late'[i] = late[i] BY <1>1, <2>1, <3>1 DEF TypeOK
      <4>2. Pending(i)' = Pending(i) BY <2>1, <3>1 DEF Pending
      <4> QED BY <4>1, <4>2 DEF WorkingInv
    <3>2. CASE i = m.holder
      <4>1. late'[i] = late[i] + RenewEvery BY <1>1, <2>1, <3>2 DEF TypeOK
      <4>2. late[i] <= Tolerance BY <4>1 DEF TypeOK
      <4>3. /\ row.holder = i
            /\ due[i] + LeaseLen <= row.expires + Delay + late[i] + RenewEvery
                                    + (IF Pending(i) THEN RenewEvery ELSE 0)
        BY <4>2 DEF WorkingInv
      <4> QED BY <4>1, <4>3 DEF TypeOK
    <3> QED BY <3>1, <3>2
  <2>6. RowInv' BY <2>1 DEF RowInv, Over
  <2> QED BY <1>0, <2>2, <2>3, <2>4, <2>5, <2>6
<1>4. CASE m.type = "delete"
  <2>1. Over(m.holder) BY <1>4 DEF WireInv
  <2>2. WireInv'
    BY <1>1, <1>4, <2>1 DEF WireInv, TypeOK, Failed, Settle, Statement, Over
  <2>3. TimeInv' BY <1>1, <1>4, <2>1 DEF TimeInv, TypeOK, Failed, Settle, Waiting, Over
  <2>4. GrantedInv' BY <1>1, <1>4, <2>1 DEF GrantedInv, TypeOK, Failed, Settle, Over
  <2>5. WorkingInv'
    <3>1. \A i \in Invocations : pc'[i] = "working" <=> pc[i] = "working"
      BY <1>1, <1>4, <2>1 DEF TypeOK, Failed, Settle, Over
    <3>2. \A i \in Invocations : Pending(i)' = Pending(i)
      BY <1>4 DEF Failed, Pending
    <3> QED BY <1>4, <3>1, <3>2 DEF WorkingInv, Failed
  <2>6. RowInv' BY <1>1, <1>4, <2>1 DEF RowInv, TypeOK, Failed, Settle, Over
  <2> QED BY <1>0, <2>2, <2>3, <2>4, <2>5, <2>6
<1> QED BY <1>2, <1>3, <1>4 DEF Failed

\* The clock: it does not pass a deadline.
LEMMA ClockStep == ASSUME LeaseInv, Tick PROVE LeaseInv'
<1> USE LeaseAssumption DEF LeaseInv
<1>0. TypeOK' BY TypeStep DEF Next
<1>1. WireInv' BY DEF WireInv, TypeOK, Tick, Timely, local, Statement, Over
<1>2. TimeInv' BY DEF TimeInv, TypeOK, Tick, Timely, local, Waiting
<1>3. GrantedInv' BY DEF GrantedInv, Tick, local
<1>4. WorkingInv' BY DEF WorkingInv, Tick, local, Pending
<1>5. RowInv' BY DEF RowInv, TypeOK, Tick, local, Over
<1> QED BY <1>0, <1>1, <1>2, <1>3, <1>4, <1>5

-----------------------------------------------------------------------------
(* The theorems. *)

\* The invariant holds in every reachable state.
THEOREM LeaseInvariant == Spec => []LeaseInv
<1>1. Init => LeaseInv
  BY LeaseAssumption DEF Init, LeaseInv, TypeOK, WireInv, TimeInv, GrantedInv,
     WorkingInv, RowInv, Waiting, Over, Holders, Statement, Phases, NoRow
<1>2. LeaseInv /\ [Next]_vars => LeaseInv'
  <2> SUFFICES ASSUME LeaseInv, [Next]_vars PROVE LeaseInv'
    OBVIOUS
  <2>1. ASSUME NEW i \in Invocations,
               Claim(i) \/ Work(i) \/ Renewal(i) \/ Finish(i) \/ Crash(i)
        PROVE  LeaseInv'
    BY <2>1, ClaimStep, WorkStep, RenewalStep, FinishStep, CrashStep
  <2>2. ASSUME NEW m \in wire,
               Taken(m) \/ Refused(m) \/ Renewed(m) \/ Deleted(m) \/ Failed(m)
        PROVE  LeaseInv'
    BY <2>2, TakenStep, RefusedStep, RenewedStep, DeletedStep, FailedStep
  <2>3. CASE Tick
    BY <2>3, ClockStep
  <2>4. CASE UNCHANGED vars
    BY <2>4 DEF vars, local, LeaseInv, TypeOK, WireInv, TimeInv, GrantedInv,
       WorkingInv, RowInv, Waiting, Over, Pending
  <2> QED BY <2>1, <2>2, <2>3, <2>4 DEF Next
<1> QED BY <1>1, <1>2, PTL DEF Spec

\* The variables keep their types.
THEOREM LeaseTypes == Spec => []TypeOK
BY LeaseInvariant, PTL DEF LeaseInv

\* The maintenance task runs in one invocation at a time, as long as no worker
\* fails to renew for longer than Tolerance: a second one needs the row, and the
\* row is the first one's until then.
THEOREM OneWorkerAtATime == Spec => []OneWorker
<1>1. LeaseInv => OneWorker
  <2> SUFFICES ASSUME LeaseInv, NEW i \in Invocations, NEW j \in Invocations,
                      pc[i] = "working", pc[j] = "working",
                      late[i] <= Tolerance, late[j] <= Tolerance
               PROVE  i = j
    BY LeaseAssumption DEF OneWorker, LeaseInv, TypeOK
  <2> QED BY WorkerLeads
<1> QED BY <1>1, LeaseInvariant, PTL

\* A lease never outlives its holder by more than its length.
THEOREM LeaseEnds == Spec => []LeaseRunsOut
<1>1. LeaseInv => LeaseRunsOut
  BY DEF LeaseInv, RowInv, LeaseRunsOut, Expiry
<1> QED BY <1>1, LeaseInvariant, PTL

=============================================================================
