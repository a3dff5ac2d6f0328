---------------------------- MODULE GatewayProofs ----------------------------
(***************************************************************************)
(* The requests of a subject, together with its quota object, for every    *)
(* number of requests, every timing of timers and messages and every       *)
(* length of lease, renewal interval and transit the assumption allows.    *)
(*                                                                         *)
(* What the object does to budget, slots and expiries is taken from        *)
(* QuotaLimiterProofs.  GatewayInv adds the bounds in time that the        *)
(* properties follow from: which messages can be under way in which phase  *)
(* of a request, how old they are, and how long the lease they renew still *)
(* lasts.                                                                  *)
(***************************************************************************)
EXTENDS Gateway, TLAPS, FiniteSetTheorems, WellFoundedInduction

\* Of the object's theorems; its history of admissions plays no part here.
QP == INSTANCE QuotaLimiterProofs
          WITH Leases <- Requests, Hour <- 1, WaitlistCap <- 0, recent <- <<>>

-----------------------------------------------------------------------------
(* The inductive invariant. *)

History == [at: Nat, day: Nat, answered: Nat, ended: Nat]

Expiry(r) == stored.streams[r]

\* The renewals of request r that are under way.
Renewals(r) == {m \in wire : m.lease = r /\ m.type = "renew"}

\* The variables of `run` and of the object, with the object's own invariant.
Typed ==
    /\ TypeOK
    /\ kind = "access"
    /\ QP!QuotaInv
    /\ admitted \in [Requests -> History]

\* A request that was not admitted has neither history nor lease; only streams draw one.
Drawn ==
    \A r \in Requests :
        /\ pc[r] = "new" => admitted[r] = Never
        /\ r \in issued => pc[r] \notin {"new", "refused"} /\ r \notin Plain
        /\ r \in Plain => pc[r] # "relaying"
        /\ admitted[r].day <= midnight

\* No message is older than its transit time, none comes from the future or is sent
\* after its request left, and each comes from a stage of `run` that sends it.
Sent ==
    \A m \in wire :
        /\ m.sent <= now /\ now <= m.sent + Transit
        /\ pc[m.lease] \in {"relaying", "done", "crashed"}
        /\ ~Running(m.lease) => m.sent <= admitted[m.lease].ended
        /\ m.type = "release" => pc[m.lease] = "done"

\* A lease lasts one lease time from now at most, and after its request has left
\* one transit and one lease from then at most.
Lasts ==
    \A r \in Q!Held :
        /\ Expiry(r) <= now + LeaseTtl
        /\ ~Running(r) => Expiry(r) <= admitted[r].ended + Transit + LeaseTtl

\* Until the answer comes nothing moves the expiry set at the admission.
Waits ==
    \A r \in Requests \ Plain :
        /\ pc[r] = "calling"
        /\ admitted[r].day = midnight
        /\ now < admitted[r].at + LeaseTtl
        => r \in Q!Held /\ Expiry(r) = admitted[r].at + LeaseTtl

\* The renewal that should have been sent one interval before time t needs no waiting
\* for: there was none, it is under way, or it has arrived.
Preceded(r, t) ==
    \/ t = admitted[r].answered + RenewEvery
    \/ \E m \in Renewals(r) : t = m.sent + RenewEvery
    \/ t - RenewEvery + LeaseTtl <= Expiry(r)

\* While a stream is relayed its renewals form an unbroken chain from the answer on.
Chained ==
    \A r \in Requests :
        /\ pc[r] = "relaying"
        /\ admitted[r].day = midnight
        /\ AnsweredInTime(r)
        /\ <<"renew", r>> \notin lost
        => /\ r \in Q!Held
           /\ admitted[r].at + LeaseTtl <= Expiry(r)
           /\ Preceded(r, renewAt[r])
           /\ \A m \in Renewals(r) : Preceded(r, m.sent)

\* A timer has not been due in the past.
OnTime == \A r \in Requests : pc[r] = "relaying" => now <= renewAt[r]

GatewayInv ==
    /\ Typed
    /\ ChargedOnce
    /\ DoneGivesSlotBack
    /\ Drawn
    /\ Sent
    /\ Lasts
    /\ Waits
    /\ Chained
    /\ OnTime

-----------------------------------------------------------------------------
(* The quota object as Gateway's actions call it: the effects proved in      *)
(* QuotaLimiterProofs, for the names Gateway instantiates it under.          *)

\* The assumptions of QuotaLimiterProofs hold of the constants given to it here.
LEMMA QuotaConstants ==
  /\ QP!IsFiniteSet(Requests)
  /\ Plans # {}
  /\ Daily \in [Plans -> Nat]
  /\ Edge \in [Plans -> Nat]
  /\ Streams \in [Plans -> Nat]
  /\ {MaxDaily, MaxStreams} \subseteq Nat
  /\ \A p \in Plans : Daily[p] <= MaxDaily /\ Streams[p] <= MaxStreams
  /\ {Minute, LeaseTtl, 1, Day} \subseteq Nat \ {0}
  /\ 0 \in Nat
  /\ MaxTime \in Nat
  BY GatewayAssumption DEF GatewayAssumption, IsFiniteSet, QP!IsFiniteSet

\* Both instances bring the record up to date alike, and count alike.
LEMMA SameRecord == Q!Active = QP!Active /\ \A S : Q!Cardinality(S) = QP!Cardinality(S)
<1>1. Q!Active = QP!Active
  BY DEF Q!Active, QP!Active, Q!Purge, QP!Purge, Q!RollWindow, QP!RollWindow,
         Q!Load, QP!Load, Q!Fresh, QP!Fresh, Q!NextReset, QP!NextReset, Q!FreshAt, QP!FreshAt
<1>2. \A S : Q!Cardinality(S) = QP!Cardinality(S)
  BY DEF Q!Cardinality, QP!Cardinality
<1>3. QED
  BY <1>1, <1>2

\* Charges, refusals and stream caps are the same operators in both.
LEMMA SameLimits ==
  ASSUME NEW q, NEW p
  PROVE  /\ Q!OverStreams(q, p) <=> QP!OverStreams(q, p)
         /\ Q!OverEdge(q, p) <=> QP!OverEdge(q, p)
         /\ Q!OverDaily(q, p) <=> QP!OverDaily(q, p)
<1>1. Q!Present(q) = QP!Present(q)
  BY DEF Q!Present, QP!Present
<1>2. QED
  BY <1>1, SameRecord, Zenon
     DEF Q!OverStreams, QP!OverStreams, Q!OverEdge, QP!OverEdge, Q!OverDaily, QP!OverDaily

\* A consume is a consume of either instance.
LEMMA SameConsume == ASSUME NEW p, Q!Consume(p) PROVE QP!Consume(p)
  BY SameRecord, SameLimits, Zenon
     DEF Q!Consume, QP!Consume, Q!Refuse, QP!Refuse, Q!Answer, QP!Answer, Q!Put, QP!Put,
         Q!Charge, QP!Charge

\* An acquire is an acquire of either instance.
LEMMA SameAcquire == ASSUME NEW p, NEW l, Q!Acquire(p, l) PROVE QP!Acquire(p, l)
  BY SameRecord, SameLimits, Zenon
     DEF Q!Acquire, QP!Acquire, Q!Refuse, QP!Refuse, Q!Answer, QP!Answer, Q!Put, QP!Put,
         Q!Charge, QP!Charge, Q!Lease, QP!Lease

\* A renewal is a renewal of either instance.
LEMMA SameRenew == ASSUME NEW l, Q!Renew(l) PROVE QP!Renew(l)
  BY SameRecord, Zenon
     DEF Q!Renew, QP!Renew, Q!Refuse, QP!Refuse, Q!Answer, QP!Answer, Q!Put, QP!Put,
         Q!Lease, QP!Lease, Q!Present, QP!Present

\* A release is a release of either instance.
LEMMA SameRelease == ASSUME NEW l, Q!Release(l) PROVE QP!Release(l)
  BY SameRecord, Zenon
     DEF Q!Release, QP!Release, Q!Answer, QP!Answer, Q!Put, QP!Put, Q!Unlease, QP!Unlease

\* The clocks, types, slots and budgets of the two instances are the same.
LEMMA SameState ==
  /\ Q!Tick => QP!Tick
  /\ QP!QuotaInv => Q!TypeOK
  /\ Q!Held = QP!Held
  /\ Q!Spent = QP!Spent
<1>1. Q!TypeOK <=> QP!TypeOK
  BY DEF Q!TypeOK, QP!TypeOK, Q!Quota, QP!Quota, Q!Codes, QP!Codes, Q!Actions, QP!Actions
<1>2. QED
  BY <1>1, Zenon DEF Q!Tick, QP!Tick, Q!Held, QP!Held, Q!Spent, QP!Spent, QP!QuotaInv

\* The same of the next state.
LEMMA SameNext == Q!Held' = QP!Held' /\ Q!Spent' = QP!Spent' /\ (QP!QuotaInv' => Q!TypeOK')
<1>1. Q!TypeOK' <=> QP!TypeOK'
  BY DEF Q!TypeOK, QP!TypeOK, Q!Quota, QP!Quota, Q!Codes, QP!Codes, Q!Actions, QP!Actions
<1>2. QED
  BY <1>1, Zenon DEF Q!Held, QP!Held, Q!Spent, QP!Spent, QP!QuotaInv

\* Charging without a lease.
LEMMA Consumed ==
  ASSUME QP!QuotaInv, NEW p \in Plans, Q!Consume(p)
  PROVE  /\ QP!QuotaInv' /\ Q!TypeOK'
         /\ Q!Held' = Q!Held
         /\ \A k \in Q!Held : Expiry(k)' = Expiry(k)
         /\ Q!Spent' = IF reply'.code = "ok" THEN Q!Spent + 1 ELSE Q!Spent
         /\ UNCHANGED <<kind, now, midnight, issued>>
  BY SameConsume, SameState, SameNext, QuotaConstants, QP!ConsumeStep, QP!ConsumeEffect DEF Expiry

\* Charging and taking a slot.
LEMMA Acquired ==
  ASSUME QP!QuotaInv, NEW p \in Plans, NEW r \in Requests, Q!Acquire(p, r)
  PROVE  /\ QP!QuotaInv' /\ Q!TypeOK'
         /\ r \notin issued
         /\ UNCHANGED <<kind, now, midnight>>
         /\ reply'.code # "ok" =>
              Q!Held' = Q!Held /\ Q!Spent' = Q!Spent /\ UNCHANGED <<stored, issued>>
         /\ reply'.code = "ok" =>
              /\ Q!Held' = Q!Held \cup {r}
              /\ Q!Spent' = Q!Spent + 1
              /\ issued' = issued \cup {r}
              /\ \A k \in Q!Held : Expiry(k)' = Expiry(k)
              /\ Expiry(r)' = now + LeaseTtl
  BY SameAcquire, SameState, SameNext, QuotaConstants, QP!AcquireStep, QP!AcquireEffect DEF Expiry

\* A renewal arrives.
LEMMA Renewed ==
  ASSUME QP!QuotaInv, NEW r \in Requests, Q!Renew(r)
  PROVE  /\ QP!QuotaInv' /\ Q!TypeOK'
         /\ Q!Held' = Q!Held /\ Q!Spent' = Q!Spent
         /\ \A k \in Q!Held : Expiry(k)' = IF k = r THEN now + LeaseTtl ELSE Expiry(k)
         /\ UNCHANGED <<kind, now, midnight, issued>>
  BY SameRenew, SameState, SameNext, QuotaConstants, QP!RenewStep, QP!RenewEffect DEF Expiry

\* A release arrives.
LEMMA Released ==
  ASSUME QP!QuotaInv, NEW r \in Requests, Q!Release(r)
  PROVE  /\ QP!QuotaInv' /\ Q!TypeOK'
         /\ Q!Held' = Q!Held \ {r} /\ Q!Spent' = Q!Spent
         /\ \A k \in Q!Held' : Expiry(k)' = Expiry(k)
         /\ UNCHANGED <<kind, now, midnight, issued>>
  BY SameRelease, SameState, SameNext, QuotaConstants, QP!ReleaseStep, QP!ReleaseEffect DEF Expiry

\* Time passes at the object.
LEMMA Ticked ==
  ASSUME QP!QuotaInv, Q!Tick
  PROVE  /\ QP!QuotaInv' /\ Q!TypeOK'
         /\ Q!Spent' = IF now + 1 = midnight THEN 0 ELSE Q!Spent
         /\ Q!Held' = {k \in Q!Held : now + 1 # midnight /\ Expiry(k) > now + 1}
         /\ now' = now + 1
         /\ midnight' = IF now + 1 = midnight THEN midnight + Day ELSE midnight
         /\ UNCHANGED <<kind, stored, issued>>
  BY SameState, SameNext, QuotaConstants, QP!TickStep, QP!TickEffect DEF Expiry

\* Nothing happens at the object.
LEMMA Untouched ==
  ASSUME QP!QuotaInv, UNCHANGED quota
  PROVE  /\ QP!QuotaInv' /\ Q!TypeOK'
         /\ Q!Held' = Q!Held /\ Q!Spent' = Q!Spent
<1>1. UNCHANGED QP!vars
  BY DEF quota, QP!vars
<1>2. QP!QuotaInv'
  BY <1>1, QuotaConstants, QP!NextStep
<1>3. QED
  BY <1>2, SameNext DEF quota, Q!Held, Q!Spent

-----------------------------------------------------------------------------
(* Types. *)

\* The bounds in time are natural numbers, and the lengths are positive.
LEMMA Times ==
  Typed => /\ now \in Nat /\ midnight \in Nat /\ now < midnight
           /\ {LeaseTtl, RenewEvery, Timeout, Transit, Day} \subseteq Nat \ {0}
           /\ \A r \in Requests : Expiry(r) \in Nat
           /\ \A r \in Q!Held : r \in Requests /\ r \in issued /\ now < Expiry(r)
<1> SUFFICES ASSUME Typed
             PROVE  /\ now \in Nat /\ midnight \in Nat /\ now < midnight
                    /\ {LeaseTtl, RenewEvery, Timeout, Transit, Day} \subseteq Nat \ {0}
                    /\ \A r \in Requests : Expiry(r) \in Nat
                    /\ \A r \in Q!Held : r \in Requests /\ r \in issued /\ now < Expiry(r)
  OBVIOUS
<1>1. now \in Nat /\ midnight \in Nat /\ now < midnight
  BY DEF Typed, TypeOK, Q!TypeOK, QP!QuotaInv
<1>2. \A r \in Requests : Expiry(r) \in Nat
  BY DEF Typed, TypeOK, Q!TypeOK, Q!Quota, Expiry
<1>3. \A r \in Q!Held : r \in Requests /\ now < Expiry(r)
  BY DEF Q!Held, Expiry
<1>4. \A r \in Q!Held : r \in issued
  BY <1>1, <1>2, <1>3 DEF Typed, QP!QuotaInv, QP!StoredIssued, Expiry
<1>5. QED
  BY <1>1, <1>2, <1>3, <1>4, GatewayAssumption DEF GatewayAssumption

\* Messages are sent with the time on them.
LEMMA SendType ==
  ASSUME Typed, NEW type \in {"renew", "release"}, NEW r \in Requests, Send(type, r)
  PROVE  wire' \subseteq Message
  BY Times DEF Typed, TypeOK, Send, Message

\* Giving back sends a release or nothing.
LEMMA GiveBackType ==
  ASSUME Typed, NEW r \in Requests, GiveBack(r)
  PROVE  wire' \subseteq Message
  BY SendType DEF GiveBack, Typed, TypeOK

\* A request that leaves keeps when it was admitted, and notes when it left.
LEMMA LeaveType ==
  ASSUME Typed, NEW r \in Requests, NEW how \in {"done", "crashed"}, Leave(r, how)
  PROVE  /\ pc' \in [Requests -> {"new", "refused", "calling", "relaying", "done", "crashed"}]
         /\ left' \in [Requests -> Nat]
         /\ due' \in [Requests -> Nat]
         /\ renewAt' \in [Requests -> Nat]
         /\ admitted' \in [Requests -> History]
         /\ \A k \in Requests : pc'[k] = IF k = r THEN how ELSE pc[k]
         /\ \A k \in Requests \ {r} : renewAt'[k] = renewAt[k] /\ admitted'[k] = admitted[k]
         /\ admitted'[r].ended = now
         /\ admitted'[r].at = admitted[r].at
         /\ admitted'[r].day = admitted[r].day
<1>1. now \in Nat
  BY Times
<1>2. admitted[r] \in History
  BY DEF Typed
<1> DEFINE noted == [admitted[r] EXCEPT !.ended = now, !.answered = 0]
<1>3. noted \in History
  BY <1>1, <1>2 DEF History
<1>4. admitted' = [admitted EXCEPT ![r] = noted]
  BY <1>2 DEF Leave, Typed
<1>5. noted.ended = now /\ noted.at = admitted[r].at /\ noted.day = admitted[r].day
  BY <1>2 DEF History
<1> HIDE DEF noted
<1>6. admitted' \in [Requests -> History] /\ admitted'[r] = noted
  BY <1>3, <1>4 DEF Typed
<1>7. QED
  BY <1>1, <1>4, <1>5, <1>6 DEF Leave, Typed, TypeOK

\* The history of a request at its admission.
Admission == [Never EXCEPT !.at = now, !.day = midnight]

\* The history of a request that starts, or is answered.
LEMMA HistoryType ==
  ASSUME Typed, NEW r \in Requests
  PROVE  /\ Never \in History /\ Never.day = 0
         /\ Admission \in History
         /\ Admission.at = now /\ Admission.day = midnight
         /\ [admitted EXCEPT ![r] = Admission] \in [Requests -> History]
         /\ [admitted EXCEPT ![r].answered = now] \in [Requests -> History]
         /\ [admitted EXCEPT ![r].answered = now]
              = [admitted EXCEPT ![r] = [admitted[r] EXCEPT !.answered = now]]
<1>1. now \in Nat /\ midnight \in Nat /\ admitted \in [Requests -> History]
  BY Times DEF Typed
<1>2. Never \in History /\ Never.day = 0
  BY DEF Never, History
<1>3. Admission \in History /\ Admission.at = now /\ Admission.day = midnight
  BY <1>1, <1>2 DEF Admission, History
<1>4. [admitted[r] EXCEPT !.answered = now] \in History
  BY <1>1 DEF History
<1>5. QED
  BY <1>1, <1>2, <1>3, <1>4

\* Every step keeps the types and the object's invariant.
LEMMA TypedStep == Typed /\ [Next]_vars => Typed'
<1> SUFFICES ASSUME Typed, [Next]_vars
             PROVE  Typed'
  OBVIOUS
<1> USE DEF Typed
<1>1. ASSUME NEW r \in Requests, NEW p \in Plans, NEW c \in 1 .. Fallback[p], Start(r, p, c)
      PROVE  Typed'
  <2>1. /\ QP!QuotaInv' /\ Q!TypeOK' /\ kind' = kind
    BY <1>1, Consumed, Acquired DEF Start
  <2>2. pc' \in [Requests -> {"new", "refused", "calling", "relaying", "done", "crashed"}]
    BY <1>1 DEF Start, TypeOK
  <2>3. left' \in [Requests -> Nat]
    <3>1. c \in Nat
      BY GatewayAssumption DEF GatewayAssumption
    <3>2. QED
      BY <1>1, <3>1 DEF Start, TypeOK
  <2>4. due' \in [Requests -> Nat]
    <3>1. now + Timeout \in Nat
      BY Times
    <3>2. QED
      BY <1>1, <3>1 DEF Start, TypeOK
  <2>5. admitted' \in [Requests -> History]
    BY <1>1, HistoryType DEF Start, Admission
  <2>6. QED
    BY <1>1, <2>1, <2>2, <2>3, <2>4, <2>5 DEF Start, TypeOK
<1>2. ASSUME NEW r \in Requests, FailOver(r)
      PROVE  Typed'
  <2>1. now + Timeout \in Nat /\ left[r] - 1 \in Nat
    BY <1>2, Times DEF FailOver, TypeOK
  <2>2. QED
    BY <1>2, <2>1, Untouched DEF FailOver, TypeOK, quota
<1>3. ASSUME NEW r \in Requests, AllFailed(r) \/ Unconvertible(r)
      PROVE  Typed'
  BY <1>3, Untouched, LeaveType, GiveBackType DEF AllFailed, Unconvertible, TypeOK, quota
<1>4. ASSUME NEW r \in Requests, Reply(r) \/ Crash(r)
      PROVE  Typed'
  BY <1>4, Untouched, LeaveType DEF Reply, Crash, TypeOK, quota
<1>5. ASSUME NEW r \in Requests, Answer(r)
      PROVE  Typed'
  <2>1. now + RenewEvery \in Nat
    BY Times
  <2>2. QED
    BY <1>5, <2>1, Untouched, HistoryType DEF Answer, TypeOK, quota
<1>6. ASSUME NEW r \in Requests, RenewFires(r)
      PROVE  Typed'
  <2>1. now + RenewEvery \in Nat
    BY Times
  <2>2. QED
    BY <1>6, <2>1, Untouched, SendType DEF RenewFires, TypeOK, quota
<1>7. ASSUME NEW r \in Requests, Finish(r)
      PROVE  Typed'
  BY <1>7, Untouched, LeaveType, SendType DEF Finish, TypeOK, quota
<1>8. ASSUME NEW m \in wire, Deliver(m)
      PROVE  Typed'
  <2>1. m.lease \in Requests
    BY DEF TypeOK, Message
  <2>2. QP!QuotaInv' /\ Q!TypeOK' /\ kind' = kind
    BY <1>8, <2>1, Renewed, Released DEF Deliver
  <2>3. QED
    BY <1>8, <2>2 DEF Deliver, TypeOK, calls
<1>9. ASSUME NEW m \in wire, Lose(m)
      PROVE  Typed'
  <2>1. <<m.type, m.lease>> \in {"renew", "release"} \X Requests
    BY DEF TypeOK, Message
  <2>2. QED
    BY <1>9, <2>1, Untouched DEF Lose, TypeOK, calls, quota
<1>10. CASE Tick
  BY <1>10, Ticked DEF Tick, TypeOK, calls
<1>11. CASE UNCHANGED vars
  BY <1>11, Untouched DEF vars, calls, TypeOK, quota
<1>12. QED
  BY <1>1, <1>2, <1>3, <1>4, <1>5, <1>6, <1>7, <1>8, <1>9, <1>10, <1>11 DEF Next

-----------------------------------------------------------------------------
(* What a step leaves alone. *)

\* The steps of a request that has been admitted: none of them calls the object.
Serve(r) ==
    \/ FailOver(r) \/ AllFailed(r) \/ Unconvertible(r) \/ Reply(r)
    \/ Answer(r) \/ RenewFires(r) \/ Finish(r) \/ Crash(r)

\* A step of one request leaves the object and the other requests alone, and the time
\* of its own admission; it adds messages of its own at most.
LEMMA ServeFrame ==
  ASSUME Typed, NEW r \in Requests, Serve(r)
  PROVE  /\ UNCHANGED <<now, midnight, stored, issued, lost>>
         /\ Q!Held' = Q!Held /\ Q!Spent' = Q!Spent
         /\ \A k \in Requests : Expiry(k)' = Expiry(k)
         /\ \A k \in Requests \ {r} :
              pc'[k] = pc[k] /\ renewAt'[k] = renewAt[k] /\ admitted'[k] = admitted[k]
         /\ \A k \in Requests : admitted'[k].day = admitted[k].day /\ admitted'[k].at = admitted[k].at
         /\ wire \subseteq wire'
         /\ \A m \in wire' \ wire : m.lease = r /\ m.sent = now
         /\ pc[r] \in {"calling", "relaying"} /\ pc'[r] # "new"
<1>1. UNCHANGED quota /\ UNCHANGED lost
  BY DEF Serve, FailOver, AllFailed, Unconvertible, Reply, Answer, RenewFires, Finish, Crash
<1>2. /\ UNCHANGED <<now, midnight, stored, issued>>
      /\ Q!Held' = Q!Held /\ Q!Spent' = Q!Spent
      /\ \A k \in Requests : Expiry(k)' = Expiry(k)
  BY <1>1, Untouched DEF Typed, quota, Expiry
<1>3. /\ wire \subseteq wire'
      /\ \A m \in wire' \ wire : m.lease = r /\ m.sent = now
  BY DEF Serve, FailOver, AllFailed, Unconvertible, Reply, Answer, RenewFires, Finish, Crash,
         Send, GiveBack
<1>4. pc[r] \in {"calling", "relaying"}
  BY DEF Serve, FailOver, AllFailed, Unconvertible, Reply, Answer, RenewFires, Finish, Crash
<1> DEFINE Kept ==
      /\ \A k \in Requests \ {r} :
           pc'[k] = pc[k] /\ renewAt'[k] = renewAt[k] /\ admitted'[k] = admitted[k]
      /\ \A k \in Requests : admitted'[k].day = admitted[k].day /\ admitted'[k].at = admitted[k].at
      /\ pc'[r] # "new"
<1>5. CASE FailOver(r)
  BY <1>1, <1>2, <1>3, <1>4, <1>5 DEF FailOver, Typed, TypeOK
<1>6. CASE AllFailed(r) \/ Unconvertible(r) \/ Reply(r) \/ Finish(r) \/ Crash(r)
  <2>1. PICK how \in {"done", "crashed"} : Leave(r, how)
    BY <1>6 DEF AllFailed, Unconvertible, Reply, Finish, Crash
  <2>2. Kept
    BY <2>1, LeaveType DEF Typed, TypeOK
  <2>3. QED
    BY <1>1, <1>2, <1>3, <1>4, <2>2
<1>7. CASE Answer(r)
  <2>1. admitted' = [admitted EXCEPT ![r] = [admitted[r] EXCEPT !.answered = now]]
    BY <1>7, HistoryType DEF Answer
  <2>2. \A k \in Requests : admitted'[k].day = admitted[k].day /\ admitted'[k].at = admitted[k].at
    BY <2>1 DEF Typed, History
  <2>3. Kept
    BY <1>7, <2>1, <2>2 DEF Answer, Typed, TypeOK
  <2>4. QED
    BY <1>1, <1>2, <1>3, <1>4, <2>3
<1>8. CASE RenewFires(r)
  BY <1>1, <1>2, <1>3, <1>4, <1>8 DEF RenewFires, Typed, TypeOK
<1>9. QED
  BY <1>5, <1>6, <1>7, <1>8 DEF Serve

\* Starting a request leaves the others and the messages alone; a refusal leaves
\* the object's slots alone, an admission adds one unit, and for a stream one slot.
LEMMA StartFrame ==
  ASSUME Typed, Drawn, NEW r \in Requests, NEW p \in Plans, NEW c, Start(r, p, c)
  PROVE  /\ UNCHANGED <<now, midnight, renewAt, wire, lost>>
         /\ \A k \in Requests \ {r} : pc'[k] = pc[k] /\ admitted'[k] = admitted[k]
         /\ pc[r] = "new" /\ admitted[r] = Never /\ r \notin Q!Held
         /\ \A k \in Q!Held : k # r /\ k \in Q!Held' /\ Expiry(k)' = Expiry(k)
         /\ \/ /\ pc'[r] = "refused" /\ admitted' = admitted
               /\ Q!Held' = Q!Held /\ Q!Spent' = Q!Spent /\ issued' = issued
            \/ /\ pc'[r] = "calling" /\ admitted'[r] = Admission
               /\ Q!Spent' = Q!Spent + 1
               /\ IF r \in Plain
                  THEN Q!Held' = Q!Held /\ issued' = issued
                  ELSE /\ Q!Held' = Q!Held \cup {r} /\ issued' = issued \cup {r}
                       /\ Expiry(r)' = now + LeaseTtl
<1>1. pc[r] = "new" /\ admitted[r] = Never /\ r \notin issued /\ r \notin Q!Held
  BY Times DEF Start, Drawn
<1>2. /\ UNCHANGED <<renewAt, wire, lost>>
      /\ \A k \in Requests \ {r} : pc'[k] = pc[k] /\ admitted'[k] = admitted[k]
      /\ \/ reply'.code # "ok" /\ pc'[r] = "refused" /\ admitted' = admitted
         \/ reply'.code = "ok" /\ pc'[r] = "calling" /\ admitted'[r] = Admission
  BY DEF Start, Admission, Typed, TypeOK
<1>3. CASE r \in Plain
  BY <1>1, <1>2, <1>3, Consumed DEF Start, Typed
<1>4. CASE r \notin Plain
  <2>1. Q!Acquire(p, r) /\ QP!QuotaInv
    BY <1>4 DEF Start, Typed
  <2>2. CASE reply'.code # "ok"
    <3>1. UNCHANGED <<now, midnight, stored, issued>> /\ Q!Held' = Q!Held /\ Q!Spent' = Q!Spent
      BY <2>1, <2>2, Acquired
    <3>2. \A k \in Q!Held : Expiry(k)' = Expiry(k)
      BY <3>1 DEF Expiry
    <3>3. QED
      BY <1>1, <1>2, <2>2, <3>1, <3>2
  <2>3. CASE reply'.code = "ok"
    BY <1>1, <1>2, <1>4, <2>1, <2>3, Acquired
  <2>4. QED
    BY <2>2, <2>3
<1>5. QED
  BY <1>3, <1>4

\* A message that arrives or is lost leaves `run` alone.
LEMMA WireFrame ==
  ASSUME Typed, NEW m \in wire, Deliver(m) \/ Lose(m)
  PROVE  /\ UNCHANGED <<now, midnight, issued, pc, left, due, renewAt, admitted>>
         /\ wire' = wire \ {m}
         /\ m.lease \in Requests /\ m.sent \in Nat /\ m.type \in {"renew", "release"}
         /\ Q!Spent' = Q!Spent
         /\ Q!Held' \subseteq Q!Held
         /\ \A k \in Q!Held : k \in Q!Held' \/ (Deliver(m) /\ m.type = "release" /\ k = m.lease)
         /\ \A k \in Q!Held' : \/ Expiry(k)' = Expiry(k)
                               \/ /\ Expiry(k)' = now + LeaseTtl
                                  /\ Deliver(m) /\ m.type = "renew" /\ m.lease = k
         /\ Deliver(m) => lost' = lost
         /\ Deliver(m) /\ m.type = "release" => m.lease \notin Q!Held'
         /\ Deliver(m) /\ m.type = "renew" /\ m.lease \in Q!Held => Expiry(m.lease)' = now + LeaseTtl
         /\ ~ Deliver(m) => lost' = lost \cup {<<m.type, m.lease>>}
<1>1. m.lease \in Requests /\ m.sent \in Nat /\ m.type \in {"renew", "release"}
  BY DEF Typed, TypeOK, Message
<1>2. CASE Deliver(m) /\ m.type = "renew"
  <2>1. Q!Renew(m.lease)
    BY <1>2 DEF Deliver
  <2>2. QED
    BY <1>1, <1>2, <2>1, Renewed DEF Deliver, Typed, calls
<1>3. CASE Deliver(m) /\ m.type # "renew"
  <2>1. Q!Release(m.lease) /\ m.type = "release"
    BY <1>3 DEF Deliver
  <2>2. QED
    BY <1>1, <1>3, <2>1, Released DEF Deliver, Typed, calls
<1>4. CASE ~ Deliver(m)
  <2>1. Lose(m)
    BY <1>4
  <2>2. QED
    BY <1>1, <1>4, <2>1, Untouched DEF Lose, Typed, calls, quota, Expiry
<1>5. QED
  BY <1>2, <1>3, <1>4

\* The clock leaves `run` and the messages alone, and drops slots only.
LEMMA TickFrame ==
  ASSUME Typed, Tick
  PROVE  /\ UNCHANGED <<issued, pc, left, due, renewAt, admitted, wire, lost>>
         /\ now' = now + 1
         /\ midnight' = IF now + 1 = midnight THEN midnight + Day ELSE midnight
         /\ Q!Spent' = IF now + 1 = midnight THEN 0 ELSE Q!Spent
         /\ Q!Held' = {k \in Q!Held : now + 1 # midnight /\ Expiry(k) > now + 1}
         /\ \A k \in Requests : Expiry(k)' = Expiry(k)
         /\ Timely
  BY Ticked DEF Tick, Typed, calls, Expiry

\* A step that changes nothing.
LEMMA StutterFrame ==
  ASSUME Typed, UNCHANGED vars
  PROVE  /\ UNCHANGED <<quota, now, midnight, stored, issued, pc, renewAt, admitted, wire, lost>>
         /\ Q!Held' = Q!Held /\ Q!Spent' = Q!Spent
         /\ \A k \in Requests : Expiry(k)' = Expiry(k)
  BY Untouched DEF vars, quota, calls, Typed, Expiry

\* The steps there are.
LEMMA Steps ==
  ASSUME [Next]_vars
  PROVE  \/ \E r \in Requests, p \in Plans : \E c \in 1 .. Fallback[p] : Start(r, p, c)
         \/ \E r \in Requests : Serve(r)
         \/ \E m \in wire : Deliver(m) \/ Lose(m)
         \/ Tick
         \/ UNCHANGED vars
  BY Zenon DEF Next, Serve

-----------------------------------------------------------------------------
(* The conjuncts of the invariant, one by one. *)

\* Who has drawn a lease.
LEMMA DrawnStep == Typed /\ Drawn /\ [Next]_vars => Drawn'
<1> SUFFICES ASSUME Typed, Drawn, [Next]_vars
             PROVE  Drawn'
  OBVIOUS
<1>1. ASSUME NEW r \in Requests, NEW p \in Plans, NEW c \in 1 .. Fallback[p], Start(r, p, c)
      PROVE  Drawn'
  <2>1. Admission.day = midnight /\ Never.day = 0 /\ midnight \in Nat
    BY HistoryType, Times
  <2>2. \A k \in Requests : admitted'[k].day <= midnight'
    BY <1>1, <2>1, StartFrame DEF Drawn
  <2>3. \A k \in Requests : pc'[k] = "new" => admitted'[k] = Never
    BY <1>1, StartFrame DEF Drawn
  <2>4. \A k \in Requests : k \in issued' => pc'[k] \notin {"new", "refused"} /\ k \notin Plain
    BY <1>1, StartFrame DEF Drawn
  <2>5. \A k \in Requests : k \in Plain => pc'[k] # "relaying"
    BY <1>1, StartFrame DEF Drawn
  <2>6. QED
    BY <2>2, <2>3, <2>4, <2>5 DEF Drawn
<1>2. ASSUME NEW r \in Requests, Serve(r)
      PROVE  Drawn'
  <2>1. pc'[r] # "refused" /\ (r \in Plain => pc'[r] # "relaying")
    BY <1>2 DEF Serve, FailOver, AllFailed, Unconvertible, Reply, Answer, RenewFires, Finish,
                Crash, Leave, Drawn, Typed, TypeOK
  <2>2. QED
    BY <1>2, <2>1, ServeFrame DEF Drawn
<1>3. ASSUME NEW m \in wire, Deliver(m) \/ Lose(m)
      PROVE  Drawn'
  BY <1>3, WireFrame DEF Drawn
<1>4. CASE Tick
  <2>1. midnight \in Nat /\ Day \in Nat /\ midnight <= midnight' /\ midnight' \in Nat
    BY <1>4, TickFrame, Times
  <2>2. \A k \in Requests : admitted[k].day \in Nat
    BY DEF Typed, History
  <2>3. QED
    BY <1>4, <2>1, <2>2, TickFrame DEF Drawn
<1>5. CASE UNCHANGED vars
  BY <1>5, StutterFrame DEF Drawn
<1>6. QED
  BY <1>1, <1>2, <1>3, <1>4, <1>5, Steps

\* Each admission since midnight has cost one unit, and nothing else has.
LEMMA ChargedStep == Typed /\ Drawn /\ ChargedOnce /\ [Next]_vars => ChargedOnce'
<1> SUFFICES ASSUME Typed, Drawn, ChargedOnce, [Next]_vars
             PROVE  ChargedOnce'
  OBVIOUS
<1>1. /\ IsFiniteSet(AdmittedToday) /\ Cardinality(AdmittedToday) \in Nat
  BY FS_Subset, FS_CardinalityType, GatewayAssumption DEF AdmittedToday, GatewayAssumption
<1>2. ASSUME AdmittedToday' = AdmittedToday, Q!Spent' = Q!Spent
      PROVE  ChargedOnce'
  BY <1>2 DEF ChargedOnce
<1>3. ASSUME NEW r \in Requests, NEW p \in Plans, NEW c \in 1 .. Fallback[p], Start(r, p, c)
      PROVE  ChargedOnce'
  <2>1. /\ \A k \in Requests \ {r} : admitted'[k] = admitted[k]
        /\ midnight' = midnight /\ admitted[r] = Never
    BY <1>3, StartFrame
  <2>2. Never.day # midnight /\ Admission.day = midnight
    <3>1. now \in Nat /\ midnight \in Nat /\ now < midnight
      BY Times
    <3>2. Never.day = 0 /\ Admission.day = midnight
      BY HistoryType
    <3>3. QED
      BY <3>1, <3>2
  <2>3. CASE admitted' = admitted /\ Q!Spent' = Q!Spent
    BY <1>2, <2>1, <2>3 DEF AdmittedToday
  <2>4. CASE admitted'[r] = Admission /\ Q!Spent' = Q!Spent + 1
    <3>1. AdmittedToday' = AdmittedToday \cup {r}
      BY <2>1, <2>2, <2>4 DEF AdmittedToday
    <3>2. r \notin AdmittedToday
      BY <2>1, <2>2 DEF AdmittedToday
    <3>3. Cardinality(AdmittedToday \cup {r}) = Cardinality(AdmittedToday) + 1
      BY <1>1, <3>2, FS_AddElement
    <3>4. QED
      BY <2>4, <3>1, <3>3 DEF ChargedOnce
  <2>5. QED
    BY <1>3, <2>3, <2>4, StartFrame
<1>4. ASSUME NEW r \in Requests, Serve(r)
      PROVE  ChargedOnce'
  BY <1>2, <1>4, ServeFrame DEF AdmittedToday
<1>5. ASSUME NEW m \in wire, Deliver(m) \/ Lose(m)
      PROVE  ChargedOnce'
  BY <1>2, <1>5, WireFrame DEF AdmittedToday
<1>6. CASE Tick
  <2>1. CASE now + 1 # midnight
    BY <1>2, <1>6, <2>1, TickFrame DEF AdmittedToday
  <2>2. CASE now + 1 = midnight
    <3>1. Q!Spent' = 0 /\ midnight' = midnight + Day /\ admitted' = admitted
      BY <1>6, <2>2, TickFrame
    <3>2. \A r \in Requests : admitted[r].day # midnight + Day
      <4> TAKE r \in Requests
      <4>1. admitted[r].day \in Nat /\ admitted[r].day <= midnight
        BY DEF Typed, History, Drawn
      <4>2. QED
        BY <4>1, Times
    <3>3. AdmittedToday' = {}
      BY <3>1, <3>2 DEF AdmittedToday
    <3>4. QED
      BY <3>1, <3>3, FS_EmptySet DEF ChargedOnce
  <2>3. QED
    BY <2>1, <2>2
<1>7. CASE UNCHANGED vars
  BY <1>2, <1>7, StutterFrame DEF AdmittedToday
<1>8. QED
  BY <1>3, <1>4, <1>5, <1>6, <1>7, Steps

\* A done request whose release has arrived holds no slot, and gets none back.
LEMMA DoneStep == Typed /\ Drawn /\ DoneGivesSlotBack /\ [Next]_vars => DoneGivesSlotBack'
<1> SUFFICES ASSUME Typed, Drawn, DoneGivesSlotBack, [Next]_vars,
                    NEW k \in Requests, pc'[k] = "done", <<"release", k>> \notin lost',
                    \A m \in wire' : ~(m.lease = k /\ m.type = "release")
             PROVE  k \notin Q!Held'
  BY DEF DoneGivesSlotBack
<1>1. ASSUME pc[k] = "done", <<"release", k>> \notin lost,
             \A m \in wire : ~(m.lease = k /\ m.type = "release")
      PROVE  k \notin Q!Held
  BY <1>1 DEF DoneGivesSlotBack
<1>2. ASSUME NEW r \in Requests, NEW p \in Plans, NEW c \in 1 .. Fallback[p], Start(r, p, c)
      PROVE  k \notin Q!Held'
  BY <1>1, <1>2, StartFrame
<1>3. ASSUME NEW r \in Requests, Serve(r)
      PROVE  k \notin Q!Held'
  <2>1. CASE k # r
    BY <1>1, <1>3, <2>1, ServeFrame
  <2>2. CASE k = r /\ r \in Plain
    BY <1>3, <2>2, ServeFrame, Times DEF Drawn
  <2>3. CASE k = r /\ r \notin Plain
    <3>1. AllFailed(r) \/ Unconvertible(r) \/ Finish(r)
      BY <1>3, <2>3 DEF Serve, FailOver, Reply, Answer, RenewFires, Crash, Leave, Typed, TypeOK
    <3>2. Send("release", r)
      BY <2>3, <3>1 DEF AllFailed, Unconvertible, Finish, GiveBack
    <3> DEFINE m == [type |-> "release", lease |-> r, sent |-> now]
    <3>3. m \in wire' /\ m.lease = k /\ m.type = "release"
      BY <2>3, <3>2 DEF Send
    <3>4. QED
      BY <3>3
  <2>4. QED
    BY <2>1, <2>2, <2>3
<1>4. ASSUME NEW m \in wire, Deliver(m) \/ Lose(m)
      PROVE  k \notin Q!Held'
  <2>1. CASE m.lease = k /\ m.type = "release"
    BY <1>4, <2>1, WireFrame
  <2>2. CASE ~(m.lease = k /\ m.type = "release")
    BY <1>1, <1>4, <2>2, WireFrame
  <2>3. QED
    BY <2>1, <2>2
<1>5. CASE Tick
  BY <1>1, <1>5, TickFrame
<1>6. CASE UNCHANGED vars
  BY <1>1, <1>6, StutterFrame
<1>7. QED
  BY <1>2, <1>3, <1>4, <1>5, <1>6, Steps

\* The phases a request's step leads through, what it sends and what it notes.
LEMMA ServePhases ==
  ASSUME Typed, NEW r \in Requests, Serve(r)
  PROVE  /\ pc'[r] \in {"calling", "relaying", "done", "crashed"}
         /\ pc'[r] = "calling" => pc[r] = "calling" /\ admitted'[r] = admitted[r] /\ wire' = wire
         /\ pc'[r] \in {"done", "crashed"} => admitted'[r].ended = now
         /\ \A m \in wire' \ wire :
              /\ pc'[r] \in {"relaying", "done"}
              /\ m.type = "release" => pc'[r] = "done"
<1>1. CASE FailOver(r)
  BY <1>1 DEF FailOver, Typed, TypeOK
<1>2. CASE AllFailed(r) \/ Unconvertible(r) \/ Finish(r)
  <2>1. Leave(r, "done")
    BY <1>2 DEF AllFailed, Unconvertible, Finish
  <2>2. QED
    BY <2>1, LeaveType
<1>3. CASE Reply(r) \/ Crash(r)
  <2>1. PICK how \in {"done", "crashed"} : Leave(r, how) /\ wire' = wire
    BY <1>3 DEF Reply, Crash
  <2>2. QED
    BY <2>1, LeaveType
<1>4. CASE Answer(r) \/ RenewFires(r)
  BY <1>4 DEF Answer, RenewFires, Send, Typed, TypeOK
<1>5. QED
  BY <1>1, <1>2, <1>3, <1>4 DEF Serve

\* Messages age within their transit time, and their senders are where they should be.
LEMMA SentStep == Typed /\ Drawn /\ Sent /\ [Next]_vars => Sent'
<1> SUFFICES ASSUME Typed, Drawn, Sent, [Next]_vars
             PROVE  Sent'
  OBVIOUS
<1>1. /\ now \in Nat /\ Transit \in Nat
      /\ \A m \in wire : m.lease \in Requests /\ m.sent \in Nat /\ m.type \in {"renew", "release"}
  BY Times DEF Typed, TypeOK, Message
<1>2. ASSUME NEW r \in Requests, NEW p \in Plans, NEW c \in 1 .. Fallback[p], Start(r, p, c)
      PROVE  Sent'
  <2>1. \A m \in wire : m.lease # r
    BY <1>2, StartFrame DEF Sent
  <2>2. \A m \in wire : pc'[m.lease] = pc[m.lease] /\ admitted'[m.lease] = admitted[m.lease]
    BY <1>1, <1>2, <2>1, StartFrame
  <2>3. UNCHANGED <<now, wire>>
    BY <1>2, StartFrame
  <2>4. QED
    BY <2>2, <2>3 DEF Sent, Running
<1>3. ASSUME NEW r \in Requests, Serve(r)
      PROVE  Sent'
  <2> SUFFICES ASSUME NEW m \in wire'
               PROVE  /\ m.sent <= now' /\ now' <= m.sent + Transit
                      /\ pc'[m.lease] \in {"relaying", "done", "crashed"}
                      /\ ~Running(m.lease)' => m.sent <= admitted'[m.lease].ended
                      /\ m.type = "release" => pc'[m.lease] = "done"
    BY DEF Sent
  <2>1. now' = now
    BY <1>3, ServeFrame
  <2>2. CASE m \in wire /\ m.lease # r
    <3>1. pc'[m.lease] = pc[m.lease] /\ admitted'[m.lease] = admitted[m.lease]
      BY <1>1, <1>3, <2>2, ServeFrame
    <3>2. QED
      BY <2>1, <2>2, <3>1 DEF Sent, Running
  <2>3. CASE m \in wire /\ m.lease = r
    <3>1. pc[r] = "relaying" /\ m.type # "release"
      BY <1>3, <2>3, ServeFrame DEF Sent
    <3>2. pc'[r] \in {"relaying", "done", "crashed"}
      BY <1>3, <3>1, ServePhases
    <3>3. m.sent <= now /\ now <= m.sent + Transit
      BY <2>3 DEF Sent
    <3>4. ~Running(r)' => admitted'[r].ended = now
      BY <1>3, <3>2, ServePhases DEF Running
    <3>5. QED
      BY <2>1, <2>3, <3>1, <3>2, <3>3, <3>4
  <2>4. CASE m \notin wire
    <3>1. m.lease = r /\ m.sent = now
      BY <1>3, <2>4, ServeFrame
    <3>2. pc'[r] \in {"relaying", "done"} /\ (m.type = "release" => pc'[r] = "done")
      BY <1>3, <2>4, ServePhases
    <3>3. ~Running(r)' => admitted'[r].ended = now
      BY <1>3, <3>2, ServePhases DEF Running
    <3>4. QED
      BY <1>1, <2>1, <3>1, <3>2, <3>3
  <2>5. QED
    BY <2>2, <2>3, <2>4
<1>4. ASSUME NEW m \in wire, Deliver(m) \/ Lose(m)
      PROVE  Sent'
  BY <1>4, WireFrame DEF Sent, Running
<1>5. CASE Tick
  <2>1. \A m \in wire : now < m.sent + Transit
    BY <1>5, TickFrame DEF Timely
  <2>2. UNCHANGED <<pc, admitted, wire>> /\ now' = now + 1
    BY <1>5, TickFrame
  <2>3. \A m \in wire : m.sent <= now + 1 /\ now + 1 <= m.sent + Transit
    BY <1>1, <2>1 DEF Sent
  <2>4. QED
    BY <2>2, <2>3 DEF Sent, Running
<1>6. CASE UNCHANGED vars
  BY <1>6, StutterFrame DEF Sent, Running
<1>7. QED
  BY <1>2, <1>3, <1>4, <1>5, <1>6, Steps

\* How long the leases last.
LEMMA LastsStep == Typed /\ Drawn /\ Sent /\ Lasts /\ [Next]_vars => Lasts'
<1> SUFFICES ASSUME Typed, Drawn, Sent, Lasts, [Next]_vars, NEW k \in Q!Held'
             PROVE  /\ Expiry(k)' <= now' + LeaseTtl
                    /\ ~Running(k)' => Expiry(k)' <= admitted'[k].ended + Transit + LeaseTtl
  BY DEF Lasts
<1>1. k \in Requests
  BY DEF Q!Held
<1>2. /\ now \in Nat /\ Transit \in Nat /\ LeaseTtl \in Nat /\ Expiry(k) \in Nat
      /\ admitted[k].ended \in Nat
  BY <1>1, Times DEF Typed, History
<1>3. ASSUME k \in Q!Held
      PROVE  /\ Expiry(k) <= now + LeaseTtl
             /\ ~Running(k) => Expiry(k) <= admitted[k].ended + Transit + LeaseTtl
  BY <1>3 DEF Lasts
<1>4. ASSUME NEW r \in Requests, NEW p \in Plans, NEW c \in 1 .. Fallback[p], Start(r, p, c)
      PROVE  /\ Expiry(k)' <= now' + LeaseTtl
             /\ ~Running(k)' => Expiry(k)' <= admitted'[k].ended + Transit + LeaseTtl
  <2>1. CASE k # r
    <3>1. k \in Q!Held /\ Expiry(k)' = Expiry(k) /\ now' = now
      BY <1>4, <2>1, StartFrame
    <3>2. pc'[k] = pc[k] /\ admitted'[k] = admitted[k]
      BY <1>1, <1>4, <2>1, StartFrame
    <3>3. QED
      BY <1>3, <3>1, <3>2 DEF Running
  <2>2. CASE k = r
    <3>1. /\ pc'[r] = "calling" /\ Expiry(r)' = now + LeaseTtl /\ now' = now
      BY <1>4, <2>2, StartFrame
    <3>2. QED
      BY <1>2, <2>2, <3>1 DEF Running
  <2>3. QED
    BY <2>1, <2>2
<1>5. ASSUME NEW r \in Requests, Serve(r)
      PROVE  /\ Expiry(k)' <= now' + LeaseTtl
             /\ ~Running(k)' => Expiry(k)' <= admitted'[k].ended + Transit + LeaseTtl
  <2>1. k \in Q!Held /\ Expiry(k)' = Expiry(k) /\ now' = now
    BY <1>1, <1>5, ServeFrame
  <2>2. CASE k # r
    BY <1>1, <1>3, <1>5, <2>1, <2>2, ServeFrame DEF Running
  <2>3. CASE k = r
    <3>1. ~Running(k)' => admitted'[k].ended = now
      BY <1>5, <2>3, ServePhases DEF Running
    <3>2. QED
      BY <1>2, <1>3, <2>1, <3>1
  <2>4. QED
    BY <2>2, <2>3
<1>6. ASSUME NEW m \in wire, Deliver(m) \/ Lose(m)
      PROVE  /\ Expiry(k)' <= now' + LeaseTtl
             /\ ~Running(k)' => Expiry(k)' <= admitted'[k].ended + Transit + LeaseTtl
  <2>1. /\ k \in Q!Held /\ now' = now /\ pc' = pc /\ admitted' = admitted
        /\ m.sent \in Nat /\ m.lease \in Requests
    BY <1>6, WireFrame
  <2>2. CASE Expiry(k)' = Expiry(k)
    BY <1>3, <2>1, <2>2 DEF Running
  <2>3. CASE Expiry(k)' = now + LeaseTtl /\ m.lease = k
    <3>1. ~Running(k) => m.sent <= admitted[k].ended
      BY <2>3 DEF Sent
    <3>2. now <= m.sent + Transit
      BY DEF Sent
    <3>3. QED
      BY <1>2, <2>1, <2>3, <3>1, <3>2 DEF Running
  <2>4. QED
    BY <1>6, <2>2, <2>3, WireFrame
<1>7. CASE Tick
  BY <1>1, <1>2, <1>3, <1>7, TickFrame DEF Running
<1>8. CASE UNCHANGED vars
  BY <1>1, <1>3, <1>8, StutterFrame DEF Running
<1>9. QED
  BY <1>4, <1>5, <1>6, <1>7, <1>8, Steps

\* The expiry a waiting request was admitted with.
LEMMA WaitsStep == Typed /\ Drawn /\ Sent /\ Waits /\ [Next]_vars => Waits'
<1> SUFFICES ASSUME Typed, Drawn, Sent, Waits, [Next]_vars,
                    NEW k \in Requests \ Plain, pc'[k] = "calling",
                    admitted'[k].day = midnight', now' < admitted'[k].at + LeaseTtl
             PROVE  k \in Q!Held' /\ Expiry(k)' = admitted'[k].at + LeaseTtl
  BY DEF Waits
<1>1. /\ now \in Nat /\ midnight \in Nat /\ LeaseTtl \in Nat /\ Day \in Nat \ {0}
      /\ admitted[k].at \in Nat /\ admitted[k].day \in Nat
  BY Times DEF Typed, History
<1>2. ASSUME pc[k] = "calling", admitted[k].day = midnight, now < admitted[k].at + LeaseTtl
      PROVE  k \in Q!Held /\ Expiry(k) = admitted[k].at + LeaseTtl
  BY <1>2 DEF Waits
<1>3. ASSUME NEW r \in Requests, NEW p \in Plans, NEW c \in 1 .. Fallback[p], Start(r, p, c)
      PROVE  k \in Q!Held' /\ Expiry(k)' = admitted'[k].at + LeaseTtl
  <2>1. CASE k # r
    BY <1>2, <1>3, <2>1, StartFrame
  <2>2. CASE k = r
    BY <1>3, <2>2, StartFrame, HistoryType
  <2>3. QED
    BY <2>1, <2>2
<1>4. ASSUME NEW r \in Requests, Serve(r)
      PROVE  k \in Q!Held' /\ Expiry(k)' = admitted'[k].at + LeaseTtl
  <2>1. pc[k] = "calling" /\ admitted'[k] = admitted[k]
    BY <1>4, ServeFrame, ServePhases
  <2>2. QED
    BY <1>2, <1>4, <2>1, ServeFrame
<1>5. ASSUME NEW m \in wire, Deliver(m) \/ Lose(m)
      PROVE  k \in Q!Held' /\ Expiry(k)' = admitted'[k].at + LeaseTtl
  <2>1. pc[k] = "calling" /\ m.lease # k
    BY <1>5, WireFrame DEF Sent
  <2>2. QED
    BY <1>2, <1>5, <2>1, WireFrame
<1>6. CASE Tick
  <2>1. now' = now + 1 /\ pc' = pc /\ admitted' = admitted
    BY <1>6, TickFrame
  <2>2. now + 1 # midnight /\ midnight' = midnight
    <3>1. admitted[k].day <= midnight
      BY DEF Drawn
    <3>2. midnight' = midnight + Day => FALSE
      BY <1>1, <2>1, <3>1
    <3>3. QED
      BY <1>6, <3>2, TickFrame
  <2>3. k \in Q!Held /\ Expiry(k) = admitted[k].at + LeaseTtl
    BY <1>1, <1>2, <2>1, <2>2
  <2>4. QED
    BY <1>6, <2>1, <2>2, <2>3, TickFrame
<1>7. CASE UNCHANGED vars
  BY <1>2, <1>7, StutterFrame
<1>8. QED
  BY <1>3, <1>4, <1>5, <1>6, <1>7, Steps

\* Timers are set for the future and waited for.
LEMMA OnTimeStep == Typed /\ Drawn /\ OnTime /\ [Next]_vars => OnTime'
<1> SUFFICES ASSUME Typed, Drawn, OnTime, [Next]_vars, NEW k \in Requests, pc'[k] = "relaying"
             PROVE  now' <= renewAt'[k]
  BY DEF OnTime
<1>1. now \in Nat /\ RenewEvery \in Nat /\ renewAt[k] \in Nat
  BY Times DEF Typed, TypeOK
<1>2. pc[k] = "relaying" => now <= renewAt[k]
  BY DEF OnTime
<1>3. ASSUME NEW r \in Requests, NEW p \in Plans, NEW c \in 1 .. Fallback[p], Start(r, p, c)
      PROVE  now' <= renewAt'[k]
  BY <1>2, <1>3, StartFrame
<1>4. ASSUME NEW r \in Requests, Serve(r)
      PROVE  now' <= renewAt'[k]
  <2>1. CASE k # r
    BY <1>2, <1>4, <2>1, ServeFrame
  <2>2. CASE k = r
    <3>1. Answer(r) \/ RenewFires(r)
      BY <1>4, <2>2 DEF Serve, FailOver, AllFailed, Unconvertible, Reply, Finish, Crash, Leave,
                        Typed, TypeOK
    <3>2. renewAt'[r] = now + RenewEvery
      BY <3>1 DEF Answer, RenewFires, Typed, TypeOK
    <3>3. QED
      BY <1>1, <1>4, <2>2, <3>2, ServeFrame
  <2>3. QED
    BY <2>1, <2>2
<1>5. ASSUME NEW m \in wire, Deliver(m) \/ Lose(m)
      PROVE  now' <= renewAt'[k]
  BY <1>2, <1>5, WireFrame
<1>6. CASE Tick
  BY <1>1, <1>6, TickFrame DEF Timely
<1>7. CASE UNCHANGED vars
  BY <1>2, <1>7, StutterFrame
<1>8. QED
  BY <1>3, <1>4, <1>5, <1>6, <1>7, Steps

-----------------------------------------------------------------------------
(* The chain of renewals. *)

\* The streams the chain is claimed of.
Relayed(r) ==
    /\ pc[r] = "relaying"
    /\ admitted[r].day = midnight
    /\ AnsweredInTime(r)
    /\ <<"renew", r>> \notin lost

\* A step that keeps a request's renewals under way, its answer and its lease at
\* least keeps what precedes any time.
LEMMA PrecededKept ==
  ASSUME Typed, NEW r \in Requests, NEW t \in Nat, Preceded(r, t),
         admitted'[r].answered = admitted[r].answered,
         Renewals(r) \subseteq Renewals(r)',
         Expiry(r)' \in Nat, Expiry(r) <= Expiry(r)'
  PROVE  Preceded(r, t)'
<1>1. RenewEvery \in Nat /\ LeaseTtl \in Nat /\ Expiry(r) \in Nat
  BY Times
<1>2. CASE t - RenewEvery + LeaseTtl <= Expiry(r)
  BY <1>1, <1>2 DEF Preceded
<1>3. CASE ~(t - RenewEvery + LeaseTtl <= Expiry(r))
  BY <1>3 DEF Preceded
<1>4. QED
  BY <1>2, <1>3

\* Among times there is an earliest one.
LEMMA Least ==
  ASSUME NEW T, T \subseteq Nat, T # {}
  PROVE  \E g \in T : \A t \in T : g <= t
<1> DEFINE R == {ss \in Nat \X Nat : ss[1] < ss[2]}
<1>1. IsWellFoundedOn(R, Nat)
  BY NatLessThanWellFounded, Zenon DEF OpToRel
<1>2. PICK g \in T : \A t \in T : ~(<<t, g>> \in R)
  <2> HIDE DEF R
  <2>1. QED
    BY <1>1, WFMin, Zenon
<1>3. ASSUME NEW t \in T
      PROVE  g <= t
  <2>1. t \in Nat /\ g \in Nat /\ <<t, g>> \notin R
    BY <1>2
  <2>2. ~(t < g)
    BY <2>1
  <2>3. QED
    BY <2>1, <2>2
<1>4. QED
  BY <1>3

\* The first gap in the chain is the next renewal to arrive, and the lease outlives
\* the time it takes to arrive: so the slot is not lost while the clock ticks.
LEMMA ChainHolds ==
  ASSUME Typed, Chained, Timely, NEW r \in Requests, Relayed(r)
  PROVE  now + 1 < Expiry(r)
<1> DEFINE T == {m.sent : m \in Renewals(r)} \cup {renewAt[r]}
<1>1. /\ now \in Nat /\ renewAt[r] \in Nat /\ Expiry(r) \in Nat
      /\ {LeaseTtl, RenewEvery, Transit} \subseteq Nat \ {0}
      /\ RenewEvery + Transit < LeaseTtl
      /\ \A m \in wire : m.sent \in Nat
      /\ admitted[r].answered \in Nat /\ admitted[r].at \in Nat
  BY Times, GatewayAssumption DEF Typed, TypeOK, Message, History, GatewayAssumption
<1>2. T \subseteq Nat /\ T # {}
  BY <1>1 DEF Renewals
<1>3. PICK g \in T : \A t \in T : g <= t
  <2> HIDE DEF T
  <2>1. QED
    BY <1>2, Least
<1>4. /\ admitted[r].at + LeaseTtl <= Expiry(r)
      /\ Preceded(r, renewAt[r])
      /\ \A m \in Renewals(r) : Preceded(r, m.sent)
  BY DEF Chained, Relayed
<1>5. Preceded(r, g)
  BY <1>3, <1>4
<1>6. g \in Nat /\ g + Transit < Expiry(r)
  <2>1. g \in Nat
    BY <1>2, <1>3
  <2>2. CASE g = admitted[r].answered + RenewEvery
    BY <1>1, <1>4, <2>1, <2>2 DEF Relayed, AnsweredInTime
  <2>3. CASE \E m \in Renewals(r) : g = m.sent + RenewEvery
    <3>1. PICK m \in Renewals(r) : g = m.sent + RenewEvery
      BY <2>3
    <3>2. m.sent \in T /\ m.sent \in Nat
      BY <1>1, <3>1 DEF Renewals
    <3> HIDE DEF T
    <3>3. QED
      BY <1>1, <1>3, <2>1, <3>1, <3>2
  <2>4. CASE g - RenewEvery + LeaseTtl <= Expiry(r)
    BY <1>1, <2>1, <2>4
  <2>5. QED
    BY <1>5, <2>1, <2>2, <2>3, <2>4 DEF Preceded
<1>7. now < g + Transit
  <2>1. CASE g = renewAt[r]
    BY <1>1, <2>1 DEF Timely, Relayed
  <2>2. CASE g # renewAt[r]
    <3>1. PICK m \in Renewals(r) : g = m.sent
      BY <1>3, <2>2
    <3>2. QED
      BY <3>1 DEF Timely, Renewals
  <2>3. QED
    BY <2>1, <2>2
<1>8. QED
  BY <1>1, <1>6, <1>7

\* Renewals that arrive, are sent or are lost keep the chain; so does the clock.
LEMMA ChainedStep ==
  Typed /\ Drawn /\ Sent /\ Lasts /\ Waits /\ OnTime /\ Chained /\ [Next]_vars => Chained'
<1> SUFFICES ASSUME Typed, Drawn, Sent, Lasts, Waits, OnTime, Chained, [Next]_vars,
                    NEW k \in Requests, Relayed(k)'
             PROVE  /\ k \in Q!Held'
                    /\ admitted'[k].at + LeaseTtl <= Expiry(k)'
                    /\ Preceded(k, renewAt[k])'
                    /\ \A m \in Renewals(k)' : Preceded(k, m.sent)'
  BY DEF Chained, Relayed
<1> DEFINE Goal == /\ k \in Q!Held'
                   /\ admitted'[k].at + LeaseTtl <= Expiry(k)'
                   /\ Preceded(k, renewAt[k])'
                   /\ \A m \in Renewals(k)' : Preceded(k, m.sent)'
<1>1. /\ now \in Nat /\ midnight \in Nat /\ LeaseTtl \in Nat /\ RenewEvery \in Nat \ {0}
      /\ Transit \in Nat /\ Day \in Nat \ {0}
      /\ renewAt[k] \in Nat /\ Expiry(k) \in Nat
      /\ admitted[k].at \in Nat /\ admitted[k].day \in Nat
      /\ \A m \in wire : m.sent \in Nat
  BY Times DEF Typed, TypeOK, History, Message
<1>2. ASSUME Relayed(k)
      PROVE  /\ k \in Q!Held
             /\ admitted[k].at + LeaseTtl <= Expiry(k)
             /\ Preceded(k, renewAt[k])
             /\ \A m \in Renewals(k) : Preceded(k, m.sent)
  BY <1>2 DEF Chained, Relayed
<1>3. ASSUME Relayed(k), k \in Q!Held', Expiry(k)' \in Nat, Expiry(k) <= Expiry(k)',
             admitted'[k] = admitted[k], renewAt'[k] = renewAt[k],
             Renewals(k)' = Renewals(k)
      PROVE  Goal
  <2>1. \A t \in Nat : Preceded(k, t) => Preceded(k, t)'
    BY <1>3, PrecededKept
  <2>2. Preceded(k, renewAt[k])'
    BY <1>1, <1>2, <1>3, <2>1 DEF Preceded
  <2>3. \A m \in Renewals(k) : m.sent \in Nat
    BY <1>1 DEF Renewals
  <2>4. \A m \in Renewals(k)' : Preceded(k, m.sent)'
    BY <1>2, <1>3, <2>1, <2>3
  <2>5. QED
    BY <1>1, <1>2, <1>3, <2>2, <2>4
<1>4. ASSUME NEW r \in Requests, NEW p \in Plans, NEW c \in 1 .. Fallback[p], Start(r, p, c)
      PROVE  Goal
  <2>1. k # r /\ admitted'[k] = admitted[k] /\ renewAt' = renewAt /\ wire' = wire /\ lost' = lost
        /\ pc'[k] = pc[k] /\ midnight' = midnight
    BY <1>4, StartFrame DEF Relayed
  <2>2. Relayed(k)
    BY <2>1 DEF Relayed, AnsweredInTime
  <2>3. k \in Q!Held' /\ Expiry(k)' = Expiry(k)
    BY <1>2, <1>4, <2>2, StartFrame
  <2>4. QED
    BY <1>1, <1>3, <2>1, <2>2, <2>3 DEF Renewals
<1>5. ASSUME NEW r \in Requests, Serve(r)
      PROVE  Goal
  <2>1. /\ UNCHANGED <<now, midnight, lost>> /\ Q!Held' = Q!Held /\ Expiry(k)' = Expiry(k)
        /\ admitted'[k].day = admitted[k].day /\ admitted'[k].at = admitted[k].at
        /\ wire \subseteq wire' /\ \A m \in wire' \ wire : m.lease = r
    BY <1>5, ServeFrame
  <2>2. CASE k # r
    <3>1. pc'[k] = pc[k] /\ admitted'[k] = admitted[k] /\ renewAt'[k] = renewAt[k]
      BY <1>5, <2>2, ServeFrame
    <3>2. Renewals(k)' = Renewals(k)
      BY <2>1, <2>2 DEF Renewals
    <3>3. Relayed(k)
      BY <2>1, <3>1 DEF Relayed, AnsweredInTime
    <3>4. QED
      BY <1>1, <1>2, <1>3, <2>1, <3>1, <3>2, <3>3
  <2>3. CASE k = r /\ Answer(r)
    <3>1. /\ pc[k] = "calling" /\ k \notin Plain /\ wire' = wire
          /\ renewAt'[k] = now + RenewEvery
      BY <2>3 DEF Answer, Typed, TypeOK
    <3>2. admitted'[k].answered = now
      BY <2>3, HistoryType DEF Answer, Typed, History
    <3>3. /\ now + RenewEvery + Transit < admitted[k].at + LeaseTtl
          /\ admitted[k].day = midnight
      BY <2>1, <3>2 DEF Relayed, AnsweredInTime
    <3>4. k \in Q!Held /\ Expiry(k) = admitted[k].at + LeaseTtl
      BY <1>1, <3>1, <3>3 DEF Waits
    <3>5. Renewals(k)' = {}
      BY <3>1 DEF Renewals, Sent
    <3>6. Preceded(k, renewAt[k])'
      BY <3>1, <3>2 DEF Preceded
    <3>7. QED
      BY <1>1, <2>1, <3>4, <3>5, <3>6
  <2>4. CASE k = r /\ RenewFires(r)
    <3>0. PICK sent : sent = [type |-> "renew", lease |-> k, sent |-> now]
      OBVIOUS
    <3>1. /\ pc[k] = "relaying" /\ pc' = pc /\ admitted' = admitted
          /\ wire' = wire \cup {sent} /\ renewAt'[k] = now + RenewEvery
          /\ now >= renewAt[k]
      BY <2>4, <3>0 DEF RenewFires, Send, Typed, TypeOK
    <3>2. sent.sent = now /\ sent.lease = k /\ sent.type = "renew"
      BY <3>0
    <3>3. Renewals(k)' = Renewals(k) \cup {sent}
      BY <3>1, <3>2 DEF Renewals
    <3>4. now = renewAt[k]
      BY <1>1, <3>1 DEF OnTime
    <3>5. Relayed(k)
      BY <2>1, <3>1 DEF Relayed, AnsweredInTime
    <3>6. \A t \in Nat : Preceded(k, t) => Preceded(k, t)'
      BY <1>1, <2>1, <3>1, <3>3, PrecededKept
    <3>7. \A m \in Renewals(k) : m.sent \in Nat /\ Preceded(k, m.sent)'
      BY <1>1, <1>2, <3>5, <3>6 DEF Renewals
    <3>8. Preceded(k, sent.sent)'
      BY <1>1, <1>2, <3>2, <3>4, <3>5, <3>6
    <3>9. Preceded(k, renewAt[k])'
      BY <3>1, <3>2, <3>3 DEF Preceded
    <3>10. QED
      BY <1>1, <1>2, <2>1, <3>1, <3>3, <3>5, <3>7, <3>8, <3>9
  <2>5. QED
    <3>1. k = r => Answer(r) \/ RenewFires(r)
      BY <1>5 DEF Relayed, Serve, FailOver, AllFailed, Unconvertible, Reply, Finish, Crash, Leave,
                  Typed, TypeOK
    <3>2. QED
      BY <2>2, <2>3, <2>4, <3>1
<1>6. ASSUME NEW m \in wire, Deliver(m) \/ Lose(m)
      PROVE  Goal
  <2>1. /\ UNCHANGED <<now, midnight, pc, renewAt, admitted>> /\ wire' = wire \ {m}
        /\ m.lease \in Requests /\ m.sent \in Nat /\ m.type \in {"renew", "release"}
        /\ lost \subseteq lost'
    BY <1>6, WireFrame
  <2>2. Relayed(k)
    BY <2>1 DEF Relayed, AnsweredInTime
  <2>3. ~(m.lease = k /\ m.type = "release")
    BY <2>2 DEF Relayed, Sent
  <2>4. k \in Q!Held'
    BY <1>2, <1>6, <2>2, <2>3, WireFrame
  <2>5. CASE Deliver(m) /\ m.lease = k /\ m.type = "renew"
    <3>1. Expiry(k)' = now + LeaseTtl
      BY <1>2, <1>6, <2>2, <2>5, WireFrame
    <3>2. Expiry(k) <= now + LeaseTtl
      BY <1>2, <2>2 DEF Lasts
    <3>3. m.sent <= now
      BY DEF Sent
    <3>4. \A t \in Nat : Preceded(k, t) => Preceded(k, t)'
      <4> SUFFICES ASSUME NEW t \in Nat, Preceded(k, t)
                   PROVE  Preceded(k, t)'
        OBVIOUS
      <4>1. CASE t = admitted[k].answered + RenewEvery
        BY <2>1, <4>1 DEF Preceded
      <4>2. CASE \E n \in Renewals(k) : t = n.sent + RenewEvery
        <5>1. PICK n \in Renewals(k) : t = n.sent + RenewEvery
          BY <4>2
        <5>2. CASE n = m
          BY <1>1, <2>1, <3>1, <3>3, <5>1, <5>2 DEF Preceded
        <5>3. CASE n # m
          BY <2>1, <5>1, <5>3 DEF Preceded, Renewals
        <5>4. QED
          BY <5>2, <5>3
      <4>3. CASE t - RenewEvery + LeaseTtl <= Expiry(k)
        BY <1>1, <3>1, <3>2, <4>3 DEF Preceded
      <4>4. QED
        BY <4>1, <4>2, <4>3 DEF Preceded
    <3>5. Preceded(k, renewAt[k])'
      BY <1>1, <1>2, <2>1, <2>2, <3>4 DEF Preceded
    <3>6. \A n \in Renewals(k)' : n \in Renewals(k) /\ n.sent \in Nat
      BY <1>1, <2>1 DEF Renewals
    <3>7. QED
      BY <1>1, <1>2, <2>1, <2>2, <2>4, <3>1, <3>2, <3>4, <3>5, <3>6
  <2>6. CASE ~(Deliver(m) /\ m.lease = k /\ m.type = "renew")
    <3>1. ~(m.lease = k /\ m.type = "renew")
      BY <1>6, <2>6, WireFrame DEF Relayed
    <3>2. Renewals(k)' = Renewals(k)
      BY <2>1, <3>1 DEF Renewals
    <3>3. Expiry(k)' = Expiry(k)
      BY <1>6, <2>4, <3>1, WireFrame
    <3>4. QED
      BY <1>1, <1>3, <2>1, <2>2, <2>4, <3>2, <3>3
  <2>7. QED
    BY <2>5, <2>6
<1>7. CASE Tick
  <2>1. /\ UNCHANGED <<pc, renewAt, admitted, wire, lost>> /\ now' = now + 1
        /\ Expiry(k)' = Expiry(k) /\ Timely
        /\ midnight' = IF now + 1 = midnight THEN midnight + Day ELSE midnight
    BY <1>7, TickFrame
  <2>2. midnight' = midnight /\ now + 1 # midnight
    BY <1>1, <2>1 DEF Drawn, Relayed
  <2>3. Relayed(k)
    BY <2>1, <2>2 DEF Relayed, AnsweredInTime
  <2>4. now + 1 < Expiry(k)
    BY <2>1, <2>3, ChainHolds
  <2>5. k \in Q!Held'
    BY <1>1, <1>2, <1>7, <2>2, <2>3, <2>4, TickFrame
  <2>6. QED
    BY <1>1, <1>3, <2>1, <2>3, <2>5 DEF Renewals
<1>8. CASE UNCHANGED vars
  <2>1. UNCHANGED <<now, midnight, pc, renewAt, admitted, wire, lost>>
        /\ Q!Held' = Q!Held /\ Expiry(k)' = Expiry(k)
    BY <1>8, StutterFrame
  <2>2. Relayed(k)
    BY <2>1 DEF Relayed, AnsweredInTime
  <2>3. QED
    BY <1>1, <1>2, <1>3, <2>1, <2>2 DEF Renewals
<1>9. QED
  BY <1>4, <1>5, <1>6, <1>7, <1>8, Steps

-----------------------------------------------------------------------------
(* The theorems. *)

\* A run begins with no request under way, nothing stored and nothing on the wire.
LEMMA GatewayInit == Init => GatewayInv
<1> SUFFICES ASSUME Init
             PROVE  GatewayInv
  OBVIOUS
<1>1. QP!Init
  BY DEF Init, Q!Init, QP!Init, Q!Absent, QP!Absent, Q!FreshAt, QP!FreshAt
<1>2. QP!QuotaInv
  BY <1>1, QuotaConstants, QP!InitInv
<1>3. Never \in History /\ Never.day = 0
  BY DEF Never, History
<1>4. Typed
  BY <1>2, <1>3, SameState DEF Init, Typed, TypeOK
<1>5. /\ now \in Nat /\ midnight \in Nat /\ now < midnight /\ issued = {}
      /\ \A r \in Requests : pc[r] = "new" /\ admitted[r] = Never
      /\ wire = {}
  BY <1>4, Times DEF Init, Q!Init
<1>6. Q!Held = {} /\ AdmittedToday = {}
  BY <1>3, <1>4, <1>5, Times DEF AdmittedToday
<1>7. Q!Spent = 0
  BY DEF Q!Spent, Init, Q!Init, Q!Absent, Q!FreshAt
<1>8. ChargedOnce
  BY <1>6, <1>7, FS_EmptySet DEF ChargedOnce
<1>9. QED
  BY <1>3, <1>4, <1>5, <1>6, <1>8
     DEF GatewayInv, DoneGivesSlotBack, Drawn, Sent, Lasts, Waits, Chained, OnTime

\* The invariant holds throughout.
THEOREM GatewayInvariant == Spec => []GatewayInv
<1>1. GatewayInv /\ [Next]_vars => GatewayInv'
  BY TypedStep, ChargedStep, DoneStep, DrawnStep, SentStep, LastsStep, WaitsStep, ChainedStep,
     OnTimeStep DEF GatewayInv
<1>2. QED
  BY GatewayInit, <1>1, PTL DEF Spec

\* The variables of `run`, the messages and the object keep their types.
THEOREM GatewayTypes == Spec => []TypeOK
  BY GatewayInvariant, PTL DEF GatewayInv, Typed

\* A request costs one unit of its day, whatever fails, is lost or crashes.
THEOREM ChargedOnceOnly == Spec => []ChargedOnce
  BY GatewayInvariant, PTL DEF GatewayInv

\* The slot of a request that is done is free once its release has arrived.
THEOREM SlotGivenBack == Spec => []DoneGivesSlotBack
  BY GatewayInvariant, PTL DEF GatewayInv

\* No slot outlives its request by more than one transit and one lease.
THEOREM SlotBounded == Spec => []SlotComesFree
<1>1. GatewayInv => SlotComesFree
  <2> SUFFICES ASSUME GatewayInv, NEW r \in Q!Held, ~Running(r)
               PROVE  now < admitted[r].ended + Transit + LeaseTtl
    BY DEF SlotComesFree
  <2>1. /\ now \in Nat /\ Expiry(r) \in Nat /\ now < Expiry(r)
        /\ Transit \in Nat /\ LeaseTtl \in Nat /\ admitted[r].ended \in Nat
    BY Times DEF GatewayInv, Typed, History
  <2>2. Expiry(r) <= admitted[r].ended + Transit + LeaseTtl
    BY DEF GatewayInv, Lasts
  <2>3. QED
    BY <2>1, <2>2
<1>2. QED
  BY GatewayInvariant, <1>1, PTL

\* A stream answered in time keeps its slot for as long as it is relayed.
THEOREM RelayHolds == Spec => []RelayKeepsSlot
<1>1. GatewayInv => RelayKeepsSlot
  BY DEF GatewayInv, Chained, RelayKeepsSlot
<1>2. QED
  BY GatewayInvariant, <1>1, PTL

=============================================================================
