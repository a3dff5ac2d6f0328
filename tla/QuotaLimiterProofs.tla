------------------------- MODULE QuotaLimiterProofs -------------------------
(***************************************************************************)
(* What QuotaLimiter does for every set of plans, every limit and every    *)
(* length of minute, lease and day.                                        *)
(*                                                                         *)
(* WithinBudget is not inductive: it says nothing of a stored record whose *)
(* day is over, nor of the plans' limits.  QuotaInv adds that the record   *)
(* is either outdated or of the current day, and that its counters         *)
(* themselves are bounded.  SlidingBound needs SlidingInv on top of it,    *)
(* which bounds the admissions of every stretch of time, not only those of *)
(* the stretch as long as a window.                                        *)
(***************************************************************************)
EXTENDS AdmissionHistory, TLAPS, FiniteSetTheorems

\* A stored record is outdated, or it is reset at the coming midnight.
OfToday == stored.resetAt <= now \/ stored.resetAt = midnight

\* Only admitted leases are stored.
StoredIssued == \A l \in Leases : stored.streams[l] # 0 => l \in issued

QuotaInv ==
    /\ TypeOK
    /\ now < midnight
    /\ OfToday
    /\ StoredIssued
    /\ WindowWithinDay
    /\ stored.count <= MaxDaily
    /\ Cardinality(Held) <= MaxStreams

-----------------------------------------------------------------------------
(* The record a call works on. *)

\* The clock-independent part of QuotaInv that bringing a record up to date needs.
Dated == TypeOK /\ now < midnight /\ OfToday

\* The loaded record is of the current day, and its count is what is spent now.
LEMMA LoadType == Dated => /\ Load \in Quota
                           /\ Load.resetAt = midnight
                           /\ Load.count = Spent
<1> SUFFICES ASSUME Dated
             PROVE  Load \in Quota /\ Load.resetAt = midnight /\ Load.count = Spent
  OBVIOUS
<1>1. FreshAt(now, midnight) \in Quota
  BY DEF Dated, TypeOK, FreshAt, Quota
<1>2. QED
  BY <1>1 DEF Dated, TypeOK, OfToday, Load, Fresh, NextReset, FreshAt, Spent, Quota

\* Rolling the minute window and purging leases keeps the day and its count.
LEMMA ActiveType == Dated => /\ Active \in Quota
                             /\ Active.resetAt = midnight
                             /\ Active.count = Spent
<1> SUFFICES ASSUME Dated
             PROVE  Active \in Quota /\ Active.resetAt = midnight /\ Active.count = Spent
  OBVIOUS
<1> DEFINE q == RollWindow(Load)
<1>1. /\ q \in Quota
      /\ q.resetAt = midnight
      /\ q.count = Spent
  BY LoadType DEF RollWindow, Quota, Dated, TypeOK
<1>2. Purge(q) = [q EXCEPT !.streams =
                    [l \in Leases |-> IF q.streams[l] <= now THEN 0 ELSE q.streams[l]]]
  BY DEF Purge
<1>3. [l \in Leases |-> IF q.streams[l] <= now THEN 0 ELSE q.streams[l]] \in [Leases -> Nat]
  BY <1>1 DEF Quota
<1> HIDE DEF q
<1>4. /\ Purge(q) \in Quota
      /\ Purge(q).resetAt = q.resetAt
      /\ Purge(q).count = q.count
  BY <1>1, <1>2, <1>3 DEF Quota
<1>5. QED
  BY <1>1, <1>4 DEF Active, q

\* A lease is present in the updated record exactly when it is held now, and then
\* with the expiry it was stored with.
LEMMA ActiveStreams ==
  Dated => /\ \A l \in Leases : Active.streams[l] = IF l \in Held THEN stored.streams[l] ELSE 0
           /\ Present(Active) = Held
<1> SUFFICES ASSUME Dated
             PROVE  /\ \A l \in Leases : Active.streams[l] = IF l \in Held THEN stored.streams[l] ELSE 0
                    /\ Present(Active) = Held
  OBVIOUS
<1> DEFINE q == RollWindow(Load)
<1>1. q.streams = Load.streams /\ q \in Quota
  BY LoadType DEF RollWindow, Quota, Dated, TypeOK
<1>2. Active.streams = [l \in Leases |-> IF q.streams[l] <= now THEN 0 ELSE q.streams[l]]
  BY <1>1 DEF Active, Purge, Quota
<1>3. \A l \in Leases : Load.streams[l] = IF stored.resetAt <= now THEN 0 ELSE stored.streams[l]
  BY DEF Load, Fresh, FreshAt, Dated, TypeOK, Quota
<1>4. \A l \in Leases : Active.streams[l] = IF l \in Held THEN stored.streams[l] ELSE 0
  BY <1>1, <1>2, <1>3 DEF Held, Dated, TypeOK, Quota
<1>5. \A l \in Held : l \in Leases /\ stored.streams[l] # 0
  BY DEF Held, Dated, TypeOK, Quota
<1>6. QED
  BY <1>4, <1>5 DEF Present

\* Bringing the record up to date keeps the minute's count within the day's.
LEMMA ActiveWindow == Dated /\ WindowWithinDay => Active.windowCount <= Active.count
<1> SUFFICES ASSUME Dated, WindowWithinDay
             PROVE  Active.windowCount <= Active.count
  OBVIOUS
<1> DEFINE q == RollWindow(Load)
<1>1. Load.windowCount <= Load.count
  BY DEF Load, Fresh, FreshAt, WindowWithinDay
<1>2. Load \in Quota /\ now \in Nat
  BY LoadType DEF Dated, TypeOK
<1>3. q \in Quota /\ q.windowCount <= q.count
  <2>1. CASE Load.windowStart + Minute <= now
    <3>1. q = [Load EXCEPT !.windowStart = now, !.windowCount = 0]
      BY <2>1 DEF RollWindow
    <3> HIDE DEF q
    <3>2. q \in Quota /\ q.windowCount = 0
      BY <1>2, <3>1 DEF Quota
    <3>3. QED
      BY <3>2 DEF Quota
  <2>2. CASE ~(Load.windowStart + Minute <= now)
    BY <1>1, <1>2, <2>2 DEF RollWindow
  <2>3. QED
    BY <2>1, <2>2
<1>4. QED
  BY <1>3 DEF Active, Purge, Quota

-----------------------------------------------------------------------------
(* The updates of a record. *)

\* A charge adds one to the count and leaves the day and the leases alone.
LEMMA ChargeType ==
  ASSUME NEW r \in Quota
  PROVE  /\ Charge(r) \in Quota
         /\ Charge(r).resetAt = r.resetAt
         /\ Charge(r).streams = r.streams
         /\ Charge(r).count = r.count + 1
         /\ Charge(r).windowCount = r.windowCount + 1
<1>1. r.count + 1 \in Nat /\ r.windowCount + 1 \in Nat
  BY DEF Quota
<1>2. Charge(r) \in Quota
  BY <1>1 DEF Charge, Quota
<1>3. QED
  BY <1>2 DEF Charge, Quota

\* Writing a lease, at an acquire or a renewal, changes one expiry only.
LEMMA LeaseType ==
  ASSUME NEW r \in Quota, NEW l \in Leases, now \in Nat
  PROVE  /\ Lease(r, l) \in Quota
         /\ Lease(r, l).resetAt = r.resetAt
         /\ Lease(r, l).count = r.count
         /\ Lease(r, l).windowCount = r.windowCount
         /\ \A k \in Leases : Lease(r, l).streams[k] = IF k = l THEN now + LeaseTtl ELSE r.streams[k]
<1>1. LeaseTtl \in Nat
  BY QuotaAssumption DEF QuotaAssumption
<1>2. [r.streams EXCEPT ![l] = now + LeaseTtl] \in [Leases -> Nat]
  BY <1>1 DEF Quota
<1>3. Lease(r, l) = [r EXCEPT !.streams = [r.streams EXCEPT ![l] = now + LeaseTtl]]
  BY DEF Lease
<1>4. QED
  BY <1>2, <1>3 DEF Quota

\* A release changes one expiry only.
LEMMA UnleaseType ==
  ASSUME NEW r \in Quota, NEW l \in Leases
  PROVE  /\ Unlease(r, l) \in Quota
         /\ Unlease(r, l).resetAt = r.resetAt
         /\ Unlease(r, l).count = r.count
         /\ Unlease(r, l).windowCount = r.windowCount
         /\ \A k \in Leases : Unlease(r, l).streams[k] = IF k = l THEN 0 ELSE r.streams[k]
<1>1. [r.streams EXCEPT ![l] = 0] \in [Leases -> Nat]
  BY DEF Quota
<1>2. Unlease(r, l) = [r EXCEPT !.streams = [r.streams EXCEPT ![l] = 0]]
  BY DEF Unlease
<1>3. QED
  BY <1>1, <1>2 DEF Quota

\* Rolling the waitlist window touches the waitlist's fields only.
LEMMA WaitlistType ==
  ASSUME NEW r \in Quota, now \in Nat
  PROVE  LET q == [RollWaitlist(r) EXCEPT !.waitlistCount = @ + 1]
         IN  /\ q \in Quota
             /\ q.resetAt = r.resetAt
             /\ q.count = r.count
             /\ q.windowCount = r.windowCount
             /\ q.streams = r.streams
<1> DEFINE w == RollWaitlist(r)
<1>1. /\ w \in Quota
      /\ w.resetAt = r.resetAt
      /\ w.count = r.count
      /\ w.windowCount = r.windowCount
      /\ w.streams = r.streams
  BY DEF RollWaitlist, Quota
<1> HIDE DEF w
<1>2. w.waitlistCount + 1 \in Nat
  BY <1>1 DEF Quota
<1>3. [w EXCEPT !.waitlistCount = @ + 1] \in Quota
  BY <1>1, <1>2 DEF Quota
<1>4. QED
  BY <1>1, <1>3 DEF w, Quota

-----------------------------------------------------------------------------
(* What putting a record back does to the slots that are held. *)

\* Only finitely many slots are held, because there are finitely many leases.
LEMMA HeldFinite == IsFiniteSet(Held) /\ Cardinality(Held) \in Nat
  BY QuotaAssumption, FS_Subset, FS_CardinalityType DEF Held, QuotaAssumption

\* Giving slots up cannot take their number over the cap.
LEMMA ShrinkHeld ==
  ASSUME NEW S, S \subseteq Held
  PROVE  Cardinality(S) \in Nat /\ Cardinality(S) <= Cardinality(Held)
  BY HeldFinite, FS_Subset, FS_CardinalityType

\* One more lease adds one held slot at most.
LEMMA GrowHeld ==
  ASSUME NEW l
  PROVE  /\ Cardinality(Held \cup {l}) \in Nat
         /\ Cardinality(Held \cup {l}) <= Cardinality(Held) + 1
  BY HeldFinite, FS_AddElement, FS_CardinalityType

\* A record put back at its own time: what is held afterwards is what it says.
LEMMA PutHeld ==
  ASSUME Dated, stored' \in Quota, stored'.resetAt = midnight,
         UNCHANGED <<now, midnight>>
  PROVE  /\ Held' = {k \in Leases : stored'.streams[k] > now}
         /\ Spent' = stored'.count
         /\ OfToday'
  BY DEF Dated, TypeOK, Held, Spent, OfToday

\* An updated record in which leases were only dropped, or renewed while held.
LEMMA KeepHeld ==
  ASSUME Dated, stored' \in Quota, stored'.resetAt = midnight,
         UNCHANGED <<now, midnight>>,
         \A k \in Leases : \/ stored'.streams[k] = Active.streams[k]
                           \/ stored'.streams[k] = 0
                           \/ k \in Held
  PROVE  Held' \subseteq Held
<1>1. SUFFICES ASSUME NEW k \in Leases, stored'.streams[k] > now
               PROVE  k \in Held
  BY PutHeld
<1>2. now \in Nat /\ stored'.streams[k] # 0
  BY <1>1 DEF Dated, TypeOK
<1>3. QED
  BY <1>1, <1>2, ActiveStreams

\* A record whose leases are those of the updated record holds the same slots.
LEMMA SameHeld ==
  ASSUME Dated, stored' \in Quota, stored'.resetAt = midnight,
         UNCHANGED <<now, midnight>>,
         \A k \in Leases : \/ stored'.streams[k] = Active.streams[k]
                           \/ k \in Held /\ stored'.streams[k] > now
  PROVE  Held' = Held
<1>1. \A k \in Leases : stored'.streams[k] > now <=> k \in Held
  <2> SUFFICES ASSUME NEW k \in Leases
               PROVE  stored'.streams[k] > now <=> k \in Held
    OBVIOUS
  <2>1. now \in Nat /\ (k \in Held => stored.streams[k] > now)
    BY DEF Dated, TypeOK, Held
  <2>2. QED
    BY <2>1, ActiveStreams
<1>2. QED
  BY <1>1, PutHeld DEF Held

\* An admitted acquire holds one slot more.
LEMMA AcquireHeld ==
  ASSUME Dated, NEW l \in Leases, stored' = Charge(Lease(Active, l)),
         UNCHANGED <<now, midnight>>
  PROVE  /\ stored' \in Quota
         /\ stored'.resetAt = midnight
         /\ stored'.count = Active.count + 1
         /\ stored'.windowCount = Active.windowCount + 1
         /\ \A k \in Leases : stored'.streams[k] = IF k = l THEN now + LeaseTtl ELSE Active.streams[k]
         /\ Held' = Held \cup {l}
<1>1. now \in Nat /\ LeaseTtl \in Nat \ {0}
  BY QuotaAssumption DEF Dated, TypeOK, QuotaAssumption
<1>2. /\ stored' \in Quota
      /\ stored'.resetAt = midnight
      /\ stored'.count = Active.count + 1
      /\ stored'.windowCount = Active.windowCount + 1
      /\ \A k \in Leases : stored'.streams[k] = IF k = l THEN now + LeaseTtl ELSE Active.streams[k]
  BY <1>1, ActiveType, LeaseType, ChargeType
<1>3. \A k \in Leases : stored'.streams[k] > now <=> k \in Held \cup {l}
  <2> SUFFICES ASSUME NEW k \in Leases
               PROVE  stored'.streams[k] > now <=> k \in Held \cup {l}
    OBVIOUS
  <2>1. k \in Held => stored.streams[k] > now
    BY DEF Held
  <2>2. QED
    BY <1>1, <1>2, <2>1, ActiveStreams
<1>4. Held' = Held \cup {l}
  BY <1>2, <1>3, PutHeld DEF Held
<1>5. QED
  BY <1>2, <1>4

-----------------------------------------------------------------------------
(* Every step preserves QuotaInv and is a step of DailyBudget, or none. *)

BudgetStep == [Budget!Next]_(Budget!vars)

\* The invariant says enough of the stored record to bring it up to date.
LEMMA InvDated == QuotaInv => Dated
  BY DEF QuotaInv, Dated

\* Every answer the calls give is a decision of the right type.
LEMMA AnswerType ==
  ASSUME NEW a \in Actions, NEW c \in Codes, Answer(a, c)
  PROVE  reply' \in [action: Actions, code: Codes]
  BY DEF Answer

\* Refusals, and the answers that read and write nothing.
LEMMA StutterStep ==
  ASSUME QuotaInv, UNCHANGED <<kind, now, midnight, stored, issued>>,
         reply' \in [action: Actions, code: Codes]
  PROVE  QuotaInv' /\ BudgetStep
<1>1. Held' = Held /\ Spent' = Spent
  BY DEF Held, Spent
<1>2. QuotaInv'
  BY <1>1 DEF QuotaInv, TypeOK, OfToday, StoredIssued, WindowWithinDay
<1>3. QED
  BY <1>1, <1>2 DEF BudgetStep, Budget!vars

\* A put that drops or renews slots and leaves the counters alone.
LEMMA QuietPut ==
  ASSUME QuotaInv, stored' \in Quota, stored'.resetAt = midnight,
         stored'.count = Active.count, stored'.windowCount = Active.windowCount,
         \A k \in Leases : \/ stored'.streams[k] = Active.streams[k]
                           \/ stored'.streams[k] = 0
                           \/ k \in Held,
         UNCHANGED <<kind, now, midnight, issued>>,
         reply' \in [action: Actions, code: Codes]
  PROVE  QuotaInv' /\ BudgetStep
<1>1. Dated
  BY InvDated
<1>2. Held' \subseteq Held
  BY <1>1, KeepHeld
<1>3. Spent' = Spent /\ OfToday'
  BY <1>1, PutHeld, ActiveType
<1>4. stored'.windowCount <= stored'.count
  BY <1>1, ActiveWindow DEF QuotaInv
<1>5. stored'.count <= MaxDaily
  BY <1>1, ActiveType, QuotaAssumption DEF QuotaInv, Spent, QuotaAssumption
<1>6. StoredIssued'
  <2> SUFFICES ASSUME NEW k \in Leases, stored'.streams[k] # 0
               PROVE  k \in issued
    BY DEF StoredIssued
  <2>1. k \in Held
    BY <1>1, ActiveStreams
  <2>2. stored.streams[k] # 0
    BY <2>1 DEF Held, QuotaInv, TypeOK, Quota
  <2>3. QED
    BY <2>2 DEF QuotaInv, StoredIssued
<1>7. Cardinality(Held') <= MaxStreams
  BY <1>2, ShrinkHeld, HeldFinite, QuotaAssumption DEF QuotaInv, QuotaAssumption
<1>8. QuotaInv'
  BY <1>3, <1>4, <1>5, <1>6, <1>7 DEF QuotaInv, TypeOK, WindowWithinDay
<1>9. Held \subseteq issued
  BY DEF Held, QuotaInv, StoredIssued, TypeOK, Quota
<1>10. BudgetStep
  <2> DEFINE gone == Held \ Held'
  <2>1. Held' = Held \ gone /\ issued \ Held' = (issued \ Held) \cup gone
    BY <1>2, <1>9
  <2>2. Budget!Close(gone)
    BY <1>3, <2>1 DEF Budget!Close
  <2>3. QED
    BY <2>2 DEF BudgetStep, Budget!Next
<1>11. QED
  BY <1>8, <1>10

\* consume: charges one unit only below the plan's daily limit.
LEMMA ConsumeStep ==
  ASSUME QuotaInv, NEW p \in Plans, Consume(p)
  PROVE  QuotaInv' /\ BudgetStep
<1>1. CASE stored' = stored
  <2>1. reply' \in [action: Actions, code: Codes]
    BY AnswerType DEF Consume, Refuse, Actions, Codes
  <2>2. UNCHANGED <<kind, now, midnight, stored, issued>>
    BY <1>1 DEF Consume, Refuse
  <2>3. QED
    BY <2>1, <2>2, StutterStep
<1>2. CASE stored' # stored
  <2>1. /\ ~OverDaily(Active, p)
        /\ stored' = Charge(Active)
        /\ Answer("consume", "ok")
        /\ UNCHANGED <<kind, now, midnight, issued>>
    BY <1>2 DEF Consume, Refuse, Put
  <2>2. reply' \in [action: Actions, code: Codes]
    BY <2>1, AnswerType DEF Actions, Codes
  <2>3. Dated
    BY InvDated
  <2>4. /\ stored' \in Quota
        /\ stored'.resetAt = midnight
        /\ stored'.streams = Active.streams
        /\ stored'.count = Active.count + 1
        /\ stored'.windowCount = Active.windowCount + 1
    BY <2>1, <2>3, ActiveType, ChargeType
  <2>5. Held' = Held /\ Spent' = Spent + 1 /\ OfToday'
    BY <2>1, <2>3, <2>4, SameHeld, PutHeld, ActiveType
  <2>6. Daily[p] \in Nat /\ Daily[p] <= MaxDaily /\ MaxDaily \in Nat
    BY QuotaAssumption DEF QuotaAssumption
  <2>7. Spent \in Nat /\ Spent < MaxDaily
    BY <2>1, <2>3, <2>6, ActiveType DEF OverDaily, Quota
  <2>8. stored'.windowCount <= stored'.count
    BY <2>3, <2>4, ActiveWindow, ActiveType DEF QuotaInv, Quota
  <2>9. stored'.count <= MaxDaily
    BY <2>3, <2>4, <2>6, <2>7, ActiveType
  <2>10. StoredIssued'
    <3> SUFFICES ASSUME NEW k \in Leases, stored'.streams[k] # 0
                 PROVE  k \in issued
      BY <2>1 DEF StoredIssued
    <3>1. k \in Held
      BY <2>3, <2>4, ActiveStreams
    <3>2. stored.streams[k] # 0
      BY <3>1 DEF Held, QuotaInv, TypeOK, Quota
    <3>3. QED
      BY <3>2 DEF QuotaInv, StoredIssued
  <2>11. QuotaInv'
    BY <2>1, <2>2, <2>4, <2>5, <2>8, <2>9, <2>10 DEF QuotaInv, TypeOK, WindowWithinDay
  <2>12. Budget!Spend
    BY <2>1, <2>5, <2>7 DEF Budget!Spend
  <2>13. QED
    BY <2>11, <2>12 DEF BudgetStep, Budget!Next
<1>3. QED
  BY <1>1, <1>2

\* acquire: charges one unit and takes one slot, below both limits of the plan.
LEMMA AcquireStep ==
  ASSUME QuotaInv, NEW p \in Plans, NEW l \in Leases, Acquire(p, l)
  PROVE  QuotaInv' /\ BudgetStep
<1>1. CASE issued' = issued
  <2>1. reply' \in [action: Actions, code: Codes]
    BY AnswerType DEF Acquire, Refuse, Actions, Codes
  <2>2. UNCHANGED <<kind, now, midnight, stored, issued>>
    BY <1>1 DEF Acquire, Refuse
  <2>3. QED
    BY <2>1, <2>2, StutterStep
<1>2. CASE issued' # issued
  <2>1. /\ l \notin issued
        /\ ~OverDaily(Active, p)
        /\ ~OverStreams(Active, p)
        /\ stored' = Charge(Lease(Active, l))
        /\ issued' = issued \cup {l}
        /\ Answer("acquire", "ok")
        /\ UNCHANGED <<kind, now, midnight>>
    BY <1>2 DEF Acquire, Refuse, Put
  <2>2. reply' \in [action: Actions, code: Codes]
    BY <2>1, AnswerType DEF Actions, Codes
  <2>3. Dated
    BY InvDated
  <2>4. /\ stored' \in Quota
        /\ stored'.resetAt = midnight
        /\ stored'.count = Active.count + 1
        /\ stored'.windowCount = Active.windowCount + 1
        /\ \A k \in Leases : stored'.streams[k] = IF k = l THEN now + LeaseTtl ELSE Active.streams[k]
        /\ Held' = Held \cup {l}
    BY <2>1, <2>3, AcquireHeld
  <2>5. Spent' = Spent + 1 /\ OfToday'
    BY <2>1, <2>3, <2>4, PutHeld, ActiveType
  <2>6. /\ Daily[p] \in Nat /\ Daily[p] <= MaxDaily /\ MaxDaily \in Nat
        /\ Streams[p] \in Nat /\ Streams[p] <= MaxStreams /\ MaxStreams \in Nat
    BY QuotaAssumption DEF QuotaAssumption
  <2>7. Spent \in Nat /\ Spent < MaxDaily
    BY <2>1, <2>3, <2>6, ActiveType DEF OverDaily, Quota
  <2>8. Cardinality(Held) \in Nat /\ Cardinality(Held) < MaxStreams
    BY <2>1, <2>3, <2>6, ActiveStreams, HeldFinite DEF OverStreams
  <2>9. Cardinality(Held') <= MaxStreams
    <3>1. /\ Cardinality(Held \cup {l}) \in Nat
          /\ Cardinality(Held \cup {l}) <= Cardinality(Held) + 1
      BY GrowHeld
    <3>2. Cardinality(Held \cup {l}) <= MaxStreams
      BY <2>6, <2>8, <3>1
    <3>3. QED
      BY <2>4, <3>2
  <2>10. stored'.windowCount <= stored'.count
    BY <2>3, <2>4, ActiveWindow, ActiveType DEF QuotaInv, Quota
  <2>11. stored'.count <= MaxDaily
    BY <2>3, <2>4, <2>6, <2>7, ActiveType
  <2>12. StoredIssued'
    <3> SUFFICES ASSUME NEW k \in Leases, stored'.streams[k] # 0, k # l
                 PROVE  k \in issued
      BY <2>1 DEF StoredIssued
    <3>1. k \in Held
      BY <2>3, <2>4, ActiveStreams
    <3>2. stored.streams[k] # 0
      BY <3>1 DEF Held, QuotaInv, TypeOK, Quota
    <3>3. QED
      BY <3>2 DEF QuotaInv, StoredIssued
  <2>13. QuotaInv'
    BY <2>1, <2>2, <2>4, <2>5, <2>9, <2>10, <2>11, <2>12 DEF QuotaInv, TypeOK, WindowWithinDay
  <2>14. Held \subseteq issued
    BY DEF Held, QuotaInv, StoredIssued, TypeOK, Quota
  <2>15. Budget!Open(l)
    <3>1. issued' \ Held' = issued \ Held
      BY <2>1, <2>4, <2>14
    <3>2. l \notin Held \cup (issued \ Held)
      BY <2>1, <2>14
    <3>3. Budget!Cardinality(Held) = Cardinality(Held)
      BY DEF Budget!Cardinality, Cardinality
    <3>4. QED
      BY <2>1, <2>4, <2>5, <2>7, <2>8, <3>1, <3>2, <3>3 DEF Budget!Open
  <2>16. QED
    BY <2>13, <2>15 DEF BudgetStep, Budget!Next
<1>3. QED
  BY <1>1, <1>2

\* renew: keeps a held slot held, and refuses one that is not.
LEMMA RenewStep ==
  ASSUME QuotaInv, NEW l \in Leases, Renew(l)
  PROVE  QuotaInv' /\ BudgetStep
<1>1. CASE l \notin Present(Active)
  BY <1>1, StutterStep, AnswerType DEF Renew, Refuse, Actions, Codes
<1>2. CASE l \in Present(Active)
  <2>1. stored' = Lease(Active, l) /\ UNCHANGED <<kind, now, midnight, issued>>
    BY <1>2 DEF Renew, Put
  <2>2. reply' \in [action: Actions, code: Codes]
    BY <1>2, AnswerType DEF Renew, Actions, Codes
  <2>3. Dated /\ now \in Nat
    BY InvDated DEF QuotaInv, TypeOK
  <2>4. l \in Held
    BY <1>2, <2>3, ActiveStreams
  <2>5. QED
    BY <2>1, <2>2, <2>3, <2>4, LeaseType, ActiveType, QuietPut
<1>3. QED
  BY <1>1, <1>2

\* release: gives the slot up and nothing of the budget back.
LEMMA ReleaseStep ==
  ASSUME QuotaInv, NEW l \in Leases, Release(l)
  PROVE  QuotaInv' /\ BudgetStep
<1>1. stored' = Unlease(Active, l) /\ UNCHANGED <<kind, now, midnight, issued>>
  BY DEF Release, Put
<1>2. reply' \in [action: Actions, code: Codes]
  BY AnswerType DEF Release, Actions, Codes
<1>3. Dated
  BY InvDated
<1>4. QED
  BY <1>1, <1>2, <1>3, UnleaseType, ActiveType, QuietPut

\* waitlist: moves neither budget nor slots.
LEMMA WaitlistStep ==
  ASSUME QuotaInv, Waitlist
  PROVE  QuotaInv' /\ BudgetStep
<1> DEFINE q == RollWaitlist(Active)
<1>1. reply' \in [action: Actions, code: Codes]
  BY AnswerType DEF Waitlist, Refuse, Actions, Codes
<1>2. CASE UNCHANGED stored
  BY <1>1, <1>2, StutterStep DEF Waitlist, Refuse
<1>3. CASE ~ UNCHANGED stored
  <2>1. /\ stored' = [q EXCEPT !.waitlistCount = @ + 1]
        /\ UNCHANGED <<kind, now, midnight, issued>>
    BY <1>3 DEF Waitlist, Refuse, Put
  <2>2. Dated /\ now \in Nat
    BY InvDated DEF QuotaInv, TypeOK
  <2>3. /\ stored' \in Quota
        /\ stored'.resetAt = midnight
        /\ stored'.count = Active.count
        /\ stored'.windowCount = Active.windowCount
        /\ stored'.streams = Active.streams
    BY <2>1, <2>2, ActiveType, WaitlistType
  <2>4. QED
    BY <1>1, <2>1, <2>3, QuietPut
<1>4. QED
  BY <1>2, <1>3

\* reset: drops budget and slots together, which DailyBudget allows as Forget.
LEMMA ResetStep ==
  ASSUME QuotaInv, Reset
  PROVE  QuotaInv' /\ BudgetStep
<1>1. /\ stored' = Absent
      /\ UNCHANGED <<kind, now, midnight, issued>>
      /\ reply' \in [action: Actions, code: Codes]
  BY AnswerType DEF Reset, Put, Actions, Codes
<1>2. /\ Absent \in Quota
      /\ Absent.resetAt = 0 /\ Absent.count = 0 /\ Absent.windowCount = 0
      /\ \A k \in Leases : Absent.streams[k] = 0
  BY DEF Absent, FreshAt, Quota
<1>3. now \in Nat /\ MaxDaily \in Nat /\ MaxStreams \in Nat
  BY QuotaAssumption DEF QuotaInv, TypeOK, QuotaAssumption
<1>4. Held' = {} /\ Spent' = 0
  BY <1>1, <1>2, <1>3 DEF Held, Spent
<1>5. QuotaInv'
  BY <1>1, <1>2, <1>3, <1>4, FS_EmptySet
     DEF QuotaInv, TypeOK, OfToday, StoredIssued, WindowWithinDay
<1>6. Held \subseteq issued
  BY DEF Held, QuotaInv, StoredIssued, TypeOK, Quota
<1>7. Budget!Forget
  BY <1>1, <1>4, <1>6 DEF Budget!Forget
<1>8. QED
  BY <1>5, <1>7 DEF BudgetStep, Budget!Next

\* The clock: leases lapse, and at midnight the day is over.
LEMMA TickStep ==
  ASSUME QuotaInv, Tick
  PROVE  QuotaInv' /\ BudgetStep
<1>1. /\ now' = now + 1
      /\ midnight' = IF now + 1 = midnight THEN midnight + Day ELSE midnight
      /\ UNCHANGED <<kind, stored, issued, reply>>
      /\ now \in Nat /\ midnight \in Nat /\ stored \in Quota /\ now < midnight
      /\ Day \in Nat \ {0}
  BY QuotaAssumption DEF Tick, QuotaInv, TypeOK, QuotaAssumption
<1>2. Held' \subseteq Held
  BY <1>1 DEF Held, Quota
<1>3. Cardinality(Held') <= MaxStreams
  BY <1>2, ShrinkHeld, HeldFinite, QuotaAssumption DEF QuotaInv, QuotaAssumption
<1>4. QuotaInv'
  BY <1>1, <1>3 DEF QuotaInv, TypeOK, Quota, OfToday, StoredIssued, WindowWithinDay
<1>5. Held \subseteq issued
  BY DEF Held, QuotaInv, StoredIssued, TypeOK, Quota
<1>6. CASE now + 1 = midnight
  <2>1. Spent' = 0 /\ Held' = {}
    BY <1>1, <1>6 DEF Spent, Held, QuotaInv, OfToday, Quota
  <2>2. midnight' \in Nat \ {midnight}
    BY <1>1, <1>6
  <2>3. Budget!NewDay
    BY <1>1, <1>5, <2>1, <2>2 DEF Budget!NewDay
  <2>4. QED
    BY <1>4, <2>3 DEF BudgetStep, Budget!Next
<1>7. CASE now + 1 # midnight
  <2>1. Spent' = Spent
    BY <1>1, <1>7 DEF Spent, QuotaInv, OfToday, Quota
  <2> DEFINE gone == Held \ Held'
  <2>2. Held' = Held \ gone /\ issued \ Held' = (issued \ Held) \cup gone
    BY <1>2, <1>5
  <2>3. Budget!Close(gone)
    BY <1>1, <1>7, <2>1, <2>2 DEF Budget!Close
  <2>4. QED
    BY <1>4, <2>3 DEF BudgetStep, Budget!Next
<1>8. QED
  BY <1>6, <1>7

\* Every step keeps the invariant and is a step of DailyBudget or a stutter.
LEMMA NextStep ==
  ASSUME QuotaInv, [Next]_vars
  PROVE  QuotaInv' /\ BudgetStep
<1>1. CASE Usage
  BY <1>1, StutterStep, AnswerType DEF Usage, Actions, Codes
<1>2. CASE UNCHANGED vars
  BY <1>2, StutterStep DEF vars, QuotaInv, TypeOK
<1>3. QED
  BY <1>1, <1>2, ConsumeStep, AcquireStep, RenewStep, ReleaseStep,
     ResetStep, WaitlistStep, TickStep DEF Next

\* The initial states satisfy the invariant and map to DailyBudget's.
LEMMA InitInv == Init => QuotaInv /\ Budget!Init
<1> SUFFICES ASSUME Init
             PROVE  QuotaInv /\ Budget!Init
  OBVIOUS
<1>1. /\ Absent \in Quota
      /\ Absent.resetAt = 0 /\ Absent.count = 0 /\ Absent.windowCount = 0
      /\ \A k \in Leases : Absent.streams[k] = 0
  BY DEF Absent, FreshAt, Quota
<1>2. /\ now \in Nat /\ midnight \in Nat /\ now < midnight
      /\ MaxDaily \in Nat /\ MaxStreams \in Nat
  BY QuotaAssumption DEF Init, QuotaAssumption
<1>3. Held = {} /\ Spent = 0
  BY <1>1, <1>2 DEF Init, Held, Spent
<1>4. QuotaInv
  BY <1>1, <1>2, <1>3, FS_EmptySet
     DEF Init, QuotaInv, TypeOK, OfToday, StoredIssued, WindowWithinDay, Actions, Codes
<1>5. Budget!Init
  BY <1>2, <1>3 DEF Init, Budget!Init
<1>6. QED
  BY <1>4, <1>5

-----------------------------------------------------------------------------
(* What each call does to the budget, the slots and their expiries, for the *)
(* proofs about the callers.                                                *)

\* A refused call, or one that reads only.
LEMMA NothingChanged ==
  ASSUME UNCHANGED <<now, midnight, stored>>
  PROVE  Held' = Held /\ Spent' = Spent
  BY DEF Held, Spent

\* consume: one unit when it is admitted, no slot either way.
LEMMA ConsumeEffect ==
  ASSUME QuotaInv, NEW p \in Plans, Consume(p)
  PROVE  /\ Held' = Held
         /\ \A k \in Held : stored'.streams[k] = stored.streams[k]
         /\ Spent' = IF reply'.code = "ok" THEN Spent + 1 ELSE Spent
         /\ UNCHANGED <<kind, now, midnight, issued>>
<1>1. UNCHANGED <<kind, now, midnight, issued>>
  BY DEF Consume, Refuse
<1>2. CASE reply'.code # "ok"
  BY <1>1, <1>2, NothingChanged DEF Consume, Refuse, Answer
<1>3. CASE reply'.code = "ok"
  <2>1. stored' = Charge(Active)
    BY <1>3 DEF Consume, Refuse, Answer, Put
  <2>2. Dated
    BY InvDated
  <2>3. /\ stored' \in Quota
        /\ stored'.resetAt = midnight
        /\ stored'.streams = Active.streams
        /\ stored'.count = Active.count + 1
    BY <2>1, <2>2, ActiveType, ChargeType
  <2>4. Held' = Held /\ Spent' = Spent + 1
    BY <1>1, <2>2, <2>3, SameHeld, PutHeld, ActiveType
  <2>5. \A k \in Held : stored'.streams[k] = stored.streams[k]
    BY <2>2, <2>3, ActiveStreams DEF Held
  <2>6. QED
    BY <1>1, <1>3, <2>4, <2>5
<1>4. QED
  BY <1>2, <1>3

\* acquire: one unit and a slot of one lease's length when it is admitted.
LEMMA AcquireEffect ==
  ASSUME QuotaInv, NEW p \in Plans, NEW l \in Leases, Acquire(p, l)
  PROVE  /\ l \notin issued
         /\ UNCHANGED <<kind, now, midnight>>
         /\ reply'.code # "ok" => Held' = Held /\ Spent' = Spent /\ UNCHANGED <<stored, issued>>
         /\ reply'.code = "ok" =>
              /\ Held' = Held \cup {l} /\ Spent' = Spent + 1 /\ issued' = issued \cup {l}
              /\ \A k \in Held : stored'.streams[k] = stored.streams[k]
              /\ stored'.streams[l] = now + LeaseTtl
<1>1. l \notin issued /\ UNCHANGED <<kind, now, midnight>>
  BY DEF Acquire
<1>2. CASE reply'.code # "ok"
  BY <1>1, <1>2, NothingChanged DEF Acquire, Refuse, Answer
<1>3. CASE reply'.code = "ok"
  <2>1. stored' = Charge(Lease(Active, l)) /\ issued' = issued \cup {l}
    BY <1>3 DEF Acquire, Refuse, Answer, Put
  <2>2. Dated
    BY InvDated
  <2>3. /\ stored' \in Quota
        /\ stored'.resetAt = midnight
        /\ stored'.count = Active.count + 1
        /\ \A k \in Leases : stored'.streams[k] = IF k = l THEN now + LeaseTtl ELSE Active.streams[k]
        /\ Held' = Held \cup {l}
    BY <1>1, <2>1, <2>2, AcquireHeld
  <2>4. Spent' = Spent + 1
    BY <1>1, <2>2, <2>3, PutHeld, ActiveType
  <2>5. \A k \in Held : k \in Leases /\ k \in issued
    BY DEF Held, QuotaInv, StoredIssued, TypeOK, Quota
  <2>6. \A k \in Held : stored'.streams[k] = stored.streams[k]
    BY <1>1, <2>2, <2>3, <2>5, ActiveStreams
  <2>7. QED
    BY <1>1, <1>3, <2>1, <2>3, <2>4, <2>6
<1>4. QED
  BY <1>2, <1>3

\* renew: a held slot lasts one lease from now; one that is not held stays so.
LEMMA RenewEffect ==
  ASSUME QuotaInv, NEW l \in Leases, Renew(l)
  PROVE  /\ Held' = Held /\ Spent' = Spent
         /\ \A k \in Held :
              stored'.streams[k] = IF k = l THEN now + LeaseTtl ELSE stored.streams[k]
         /\ UNCHANGED <<kind, now, midnight, issued>>
<1>1. UNCHANGED <<kind, now, midnight, issued>> /\ Dated
  BY InvDated DEF Renew, Refuse
<1>2. CASE l \notin Present(Active)
  <2>1. UNCHANGED stored
    BY <1>2 DEF Renew, Refuse
  <2>2. l \notin Held
    BY <1>1, <1>2, ActiveStreams
  <2>3. QED
    BY <1>1, <2>1, <2>2, NothingChanged
<1>3. CASE l \in Present(Active)
  <2>1. stored' = Lease(Active, l)
    BY <1>3 DEF Renew, Put
  <2>2. now \in Nat /\ LeaseTtl \in Nat \ {0} /\ l \in Held
    BY <1>1, <1>3, ActiveStreams, QuotaAssumption DEF QuotaInv, TypeOK, QuotaAssumption
  <2>3. /\ stored' \in Quota
        /\ stored'.resetAt = midnight
        /\ stored'.count = Active.count
        /\ \A k \in Leases : stored'.streams[k] = IF k = l THEN now + LeaseTtl ELSE Active.streams[k]
    BY <1>1, <2>1, <2>2, LeaseType, ActiveType
  <2>4. Held' = Held /\ Spent' = Spent
    BY <1>1, <2>2, <2>3, SameHeld, PutHeld, ActiveType
  <2>5. \A k \in Held :
          stored'.streams[k] = IF k = l THEN now + LeaseTtl ELSE stored.streams[k]
    BY <1>1, <2>3, ActiveStreams DEF Held
  <2>6. QED
    BY <1>1, <2>4, <2>5
<1>4. QED
  BY <1>2, <1>3

\* release: the slot is given up, the others stay as they are.
LEMMA ReleaseEffect ==
  ASSUME QuotaInv, NEW l \in Leases, Release(l)
  PROVE  /\ Held' = Held \ {l} /\ Spent' = Spent
         /\ \A k \in Held \ {l} : stored'.streams[k] = stored.streams[k]
         /\ UNCHANGED <<kind, now, midnight, issued>>
<1>1. /\ stored' = Unlease(Active, l)
      /\ UNCHANGED <<kind, now, midnight, issued>>
      /\ Dated
      /\ now \in Nat
  BY InvDated DEF Release, Put, QuotaInv, TypeOK
<1>2. /\ stored' \in Quota
      /\ stored'.resetAt = midnight
      /\ stored'.count = Active.count
      /\ \A k \in Leases : stored'.streams[k] = IF k = l THEN 0 ELSE Active.streams[k]
  BY <1>1, UnleaseType, ActiveType
<1>3. Spent' = Spent /\ Held' = {k \in Leases : stored'.streams[k] > now}
  BY <1>1, <1>2, PutHeld, ActiveType
<1>4. \A k \in Leases : stored'.streams[k] > now <=> k \in Held \ {l}
  <2> SUFFICES ASSUME NEW k \in Leases
               PROVE  stored'.streams[k] > now <=> k \in Held \ {l}
    OBVIOUS
  <2>1. k \in Held => stored.streams[k] > now
    BY DEF Held
  <2>2. QED
    BY <1>1, <1>2, <2>1, ActiveStreams
<1>5. Held \subseteq Leases
  BY DEF Held
<1>6. QED
  BY <1>1, <1>2, <1>3, <1>4, <1>5, ActiveStreams

\* The clock: a slot lapses with its lease or with the day, the budget with the day.
LEMMA TickEffect ==
  ASSUME QuotaInv, Tick
  PROVE  /\ Spent' = IF now + 1 = midnight THEN 0 ELSE Spent
         /\ Held' = {k \in Held : now + 1 # midnight /\ stored.streams[k] > now + 1}
         /\ now' = now + 1
         /\ midnight' = IF now + 1 = midnight THEN midnight + Day ELSE midnight
         /\ UNCHANGED <<kind, stored, issued>>
<1>1. /\ now' = now + 1
      /\ midnight' = IF now + 1 = midnight THEN midnight + Day ELSE midnight
      /\ UNCHANGED <<kind, stored, issued>>
      /\ now \in Nat /\ midnight \in Nat /\ stored \in Quota /\ now < midnight
      /\ OfToday
  BY DEF Tick, QuotaInv, TypeOK
<1>2. Spent' = IF now + 1 = midnight THEN 0 ELSE Spent
  BY <1>1 DEF Spent, OfToday, Quota
<1>3. Held' = {k \in Leases : stored.resetAt > now + 1 /\ stored.streams[k] > now + 1}
  BY <1>1 DEF Held
<1>4. \A k \in Leases : stored.streams[k] \in Nat
  BY <1>1 DEF Quota
<1>5. stored.resetAt \in Nat
  BY <1>1 DEF Quota
<1>6. Held' = {k \in Held : now + 1 # midnight /\ stored.streams[k] > now + 1}
  BY <1>1, <1>3, <1>4, <1>5 DEF Held, OfToday
<1>7. QED
  BY <1>1, <1>2, <1>6

-----------------------------------------------------------------------------
(* What fixed windows let through.                                          *)
(*                                                                          *)
(* SlidingBound is about stretches as long as a window, but to see that it  *)
(* survives a tick one must bound every stretch: Stretch says, of the n     *)
(* admissions of the last k ticks, how many they may be, from the window's  *)
(* start and count and from the record's reset time alone.                  *)

\* The stretch does not reach back beyond the midnight the record's day began at;
\* there is none before the first day.
SameDay(k, t, reset) == k <= t - reset + Day + 1 \/ reset <= Day

Stretch(k, n, start, count, len, cap, t, reset) ==
    /\ k <= t - start + 1 => n <= count
    /\ k <= t - start + 1 + len /\ SameDay(k, t, reset) => n <= count + cap
    /\ k <= t - start + 1 + len => n <= count + 2 * cap
    /\ k <= t - start - len + 1 => n = 0
    /\ k <= t - reset + 1 => n = 0
    /\ reset = 0 => n = 0

\* The window the object of this kind counts in.
WindowStart == IF kind = "access" THEN stored.windowStart ELSE stored.waitlistStart
WindowCount == IF kind = "access" THEN stored.windowCount ELSE stored.waitlistCount

SlidingInv ==
    /\ recent \in [0..Span -> Nat]
    /\ Day <= midnight
    /\ stored.resetAt = midnight \/ stored.resetAt <= midnight - Day
    /\ WindowStart <= now
    /\ WindowCount <= CapOfWindow
    /\ \A k \in 0..Span : Stretch(k, recent[k], WindowStart, WindowCount,
                                  Horizon, CapOfWindow, now, stored.resetAt)

\* Starting the window over, because its length has passed, keeps every bound.
LEMMA StretchRolled ==
  ASSUME NEW k \in Nat, NEW n \in Nat, NEW start \in Nat, NEW count \in Nat,
         NEW len \in Nat, NEW cap \in Nat, NEW t \in Nat, NEW reset \in Nat,
         start + len <= t, count <= cap,
         Stretch(k, n, start, count, len, cap, t, reset)
  PROVE  Stretch(k, n, t, 0, len, cap, t, reset)
  BY QuotaAssumption DEF Stretch, SameDay, QuotaAssumption

\* So does starting the record over, because its day has passed.
LEMMA StretchFresh ==
  ASSUME NEW k \in Nat, NEW n \in Nat, NEW start \in Nat, NEW count \in Nat,
         NEW len \in Nat, NEW cap \in Nat, NEW t \in Nat, NEW reset \in Nat,
         NEW mid \in Nat,
         start <= t, count <= cap, 1 <= len, len <= Day,
         reset <= t, t < mid, Day <= mid, reset <= mid - Day,
         Stretch(k, n, start, count, len, cap, t, reset)
  PROVE  Stretch(k, n, t, 0, len, cap, t, mid)
  BY QuotaAssumption DEF Stretch, SameDay, QuotaAssumption

\* An admission counts in the window and in every stretch but the empty one.
LEMMA StretchAdmitted ==
  ASSUME NEW k \in Nat, NEW n \in Nat, NEW start \in Nat, NEW count \in Nat,
         NEW len \in Nat, NEW cap \in Nat, NEW t \in Nat, NEW reset \in Nat,
         k # 0, t < start + len, t < reset,
         Stretch(k, n, start, count, len, cap, t, reset)
  PROVE  Stretch(k, n + 1, start, count + 1, len, cap, t, reset)
  BY QuotaAssumption DEF Stretch, SameDay, QuotaAssumption

\* The clock makes the stretch of k ticks one of k + 1.
LEMMA StretchShifted ==
  ASSUME NEW k \in Nat, NEW n \in Nat, NEW start \in Nat, NEW count \in Nat,
         NEW len \in Nat, NEW cap \in Nat, NEW t \in Nat, NEW reset \in Nat,
         k # 0, Stretch(k - 1, n, start, count, len, cap, t, reset)
  PROVE  Stretch(k, n, start, count, len, cap, t + 1, reset)
  BY QuotaAssumption DEF Stretch, SameDay, QuotaAssumption

\* Where nothing was admitted nothing is exceeded.
LEMMA StretchEmpty ==
  ASSUME NEW k \in Nat, NEW start \in Nat, NEW count \in Nat,
         NEW len \in Nat, NEW cap \in Nat, NEW t \in Nat, NEW reset \in Nat
  PROVE  Stretch(k, 0, start, count, len, cap, t, reset)
  BY DEF Stretch

-----------------------------------------------------------------------------
(* Each call keeps SlidingInv. *)

\* The windows and their caps have the types and the order config.ts gives them.
LEMMA HistoryTypes ==
  ASSUME HistoryAssumption
  PROVE  /\ Horizon \in Nat /\ 1 <= Horizon /\ Horizon <= Day /\ Horizon \in 0..Span
         /\ Span \in Nat /\ Day \in Nat /\ 1 <= Day
         /\ CapOfWindow \in Nat
         /\ \A p \in Plans : Edge[p] \in Nat /\ Edge[p] # 0 /\ Edge[p] <= LargestEdge
<1>1. /\ Minute \in Nat \ {0} /\ Hour \in Nat \ {0} /\ Day \in Nat \ {0}
      /\ WaitlistCap \in Nat /\ Edge \in [Plans -> Nat]
  BY QuotaAssumption DEF QuotaAssumption
<1>2. LargestEdge \in {Edge[p] : p \in Plans} /\ \A p \in Plans : Edge[p] <= LargestEdge
  <2>1. PICK m \in {Edge[p] : p \in Plans} : \A p \in Plans : Edge[p] <= m
    BY DEF HistoryAssumption
  <2>2. QED
    BY <2>1 DEF LargestEdge
<1>3. LargestEdge \in Nat
  BY <1>1, <1>2
<1>4. CapOfWindow \in Nat
  BY <1>1, <1>3 DEF CapOfWindow
<1>5. /\ Horizon \in Nat /\ 1 <= Horizon /\ Horizon <= Day /\ Horizon \in 0..Span
      /\ Span \in Nat
  BY <1>1 DEF Horizon, Span, HistoryAssumption
<1>6. \A p \in Plans : Edge[p] \in Nat /\ Edge[p] # 0 /\ Edge[p] <= LargestEdge
  BY <1>1, <1>2 DEF HistoryAssumption
<1>7. QED
  BY <1>1, <1>4, <1>5, <1>6

\* A window (of start s and count c) that bringing the record up to date leaves:
\* the stored one while it lasts, or an empty one that starts now.
UpToDate(s, c) ==
    \/ /\ stored.resetAt > now /\ WindowStart + Horizon > now
       /\ s = WindowStart /\ c = WindowCount
    \/ /\ stored.resetAt <= now \/ WindowStart + Horizon <= now
       /\ s = now /\ c = 0

\* The minute's window of the record a call works on.
LEMMA ActiveMinute ==
  ASSUME Dated, kind = "access"
  PROVE  UpToDate(Active.windowStart, Active.windowCount)
<1>1. /\ now \in Nat /\ stored \in Quota /\ Minute \in Nat \ {0}
      /\ Load \in Quota
  BY LoadType, QuotaAssumption DEF Dated, TypeOK, QuotaAssumption
<1>2. /\ Active.windowStart = RollWindow(Load).windowStart
      /\ Active.windowCount = RollWindow(Load).windowCount
  BY <1>1 DEF Active, Purge, RollWindow, Quota
<1>3. /\ stored.windowStart \in Nat /\ stored.windowCount \in Nat /\ stored.resetAt \in Nat
  BY <1>1 DEF Quota
<1>4. CASE stored.resetAt <= now
  <2>1. Load.windowStart = now /\ Load.windowCount = 0
    BY <1>4 DEF Load, Fresh, FreshAt
  <2>2. RollWindow(Load) = Load
    BY <1>1, <2>1 DEF RollWindow
  <2>3. QED
    BY <1>2, <1>4, <2>1, <2>2 DEF UpToDate
<1>5. CASE ~(stored.resetAt <= now)
  <2>1. Load = stored
    BY <1>5 DEF Load
  <2>2. CASE stored.windowStart + Minute <= now
    <3>1. RollWindow(Load).windowStart = now /\ RollWindow(Load).windowCount = 0
      BY <1>1, <2>1, <2>2 DEF RollWindow, Quota
    <3>2. QED
      BY <1>2, <2>2, <3>1 DEF UpToDate, WindowStart, Horizon
  <2>3. CASE ~(stored.windowStart + Minute <= now)
    <3>1. RollWindow(Load) = stored
      BY <2>1, <2>3 DEF RollWindow
    <3>2. stored.resetAt > now /\ stored.windowStart + Minute > now
      BY <1>1, <1>3, <1>5, <2>3
    <3>3. QED
      BY <1>2, <3>1, <3>2 DEF UpToDate, WindowStart, WindowCount, Horizon
  <2>4. QED
    BY <2>2, <2>3
<1>6. QED
  BY <1>4, <1>5

\* The hour's window of the record a submission works on.
LEMMA ActiveHour ==
  ASSUME Dated, kind = "waitlist"
  PROVE  LET q == RollWaitlist(Active)
         IN  /\ q \in Quota /\ q.resetAt = midnight
             /\ UpToDate(q.waitlistStart, q.waitlistCount)
<1> DEFINE q == RollWaitlist(Active)
<1>1. /\ now \in Nat /\ stored \in Quota /\ Hour \in Nat \ {0} /\ Load \in Quota
      /\ Active \in Quota /\ Active.resetAt = midnight
  BY LoadType, ActiveType, QuotaAssumption DEF Dated, TypeOK, QuotaAssumption
<1>2. /\ Active.waitlistStart = Load.waitlistStart
      /\ Active.waitlistCount = Load.waitlistCount
  BY <1>1 DEF Active, Purge, RollWindow, Quota
<1>3. /\ stored.waitlistStart \in Nat /\ stored.waitlistCount \in Nat /\ stored.resetAt \in Nat
  BY <1>1 DEF Quota
<1>4. q \in Quota /\ q.resetAt = midnight
  BY <1>1 DEF RollWaitlist, Quota
<1>5. CASE stored.resetAt <= now
  <2>1. Active.waitlistStart = now /\ Active.waitlistCount = 0
    BY <1>2, <1>5 DEF Load, Fresh, FreshAt
  <2>2. q = Active
    BY <1>1, <2>1 DEF RollWaitlist
  <2>3. QED
    BY <1>4, <1>5, <2>1, <2>2 DEF UpToDate
<1>6. CASE ~(stored.resetAt <= now)
  <2>1. Load = stored
    BY <1>6 DEF Load
  <2>2. CASE stored.waitlistStart + Hour <= now
    <3>1. q.waitlistStart = now /\ q.waitlistCount = 0
      BY <1>1, <1>2, <2>1, <2>2 DEF RollWaitlist, Quota
    <3>2. QED
      BY <1>4, <2>2, <3>1 DEF UpToDate, WindowStart, Horizon
  <2>3. CASE ~(stored.waitlistStart + Hour <= now)
    <3>1. q = Active
      BY <1>2, <2>1, <2>3 DEF RollWaitlist
    <3>2. stored.resetAt > now /\ stored.waitlistStart + Hour > now
      BY <1>1, <1>3, <1>6, <2>3
    <3>3. QED
      BY <1>2, <1>4, <2>1, <3>1, <3>2 DEF UpToDate, WindowStart, WindowCount, Horizon
  <2>4. QED
    BY <2>2, <2>3
<1>7. QED
  BY <1>5, <1>6

\* What the invariant says once the record is brought up to date, at this moment.
LEMMA UpToDateBounds ==
  ASSUME HistoryAssumption, QuotaInv, SlidingInv, NEW s, NEW c, UpToDate(s, c)
  PROVE  /\ s \in Nat /\ c \in Nat /\ s <= now /\ now < s + Horizon
         /\ c <= CapOfWindow
         /\ \A k \in 0..Span : Stretch(k, recent[k], s, c, Horizon, CapOfWindow, now, midnight)
<1>1. /\ Horizon \in Nat /\ 1 <= Horizon /\ Horizon <= Day
      /\ CapOfWindow \in Nat /\ now \in Nat /\ midnight \in Nat /\ now < midnight
      /\ WindowStart \in Nat /\ WindowCount \in Nat /\ stored.resetAt \in Nat
      /\ stored.resetAt <= now \/ stored.resetAt = midnight
  BY HistoryTypes DEF QuotaInv, TypeOK, Quota, WindowStart, WindowCount, OfToday
<1>2. /\ WindowStart <= now /\ WindowCount <= CapOfWindow /\ Day <= midnight
      /\ stored.resetAt = midnight \/ stored.resetAt <= midnight - Day
  BY DEF SlidingInv
<1>3. \A k \in 0..Span : /\ k \in Nat /\ recent[k] \in Nat
                         /\ Stretch(k, recent[k], WindowStart, WindowCount,
                                    Horizon, CapOfWindow, now, stored.resetAt)
  BY DEF SlidingInv
<1>4. CASE /\ stored.resetAt > now /\ WindowStart + Horizon > now
           /\ s = WindowStart /\ c = WindowCount
  <2>1. stored.resetAt = midnight
    BY <1>1, <1>4
  <2>2. s \in Nat /\ c \in Nat /\ s <= now /\ now < s + Horizon /\ c <= CapOfWindow
    BY <1>1, <1>2, <1>4
  <2>3. QED
    BY <1>3, <1>4, <2>1, <2>2
<1>5. CASE /\ stored.resetAt <= now \/ WindowStart + Horizon <= now
           /\ s = now /\ c = 0
  <2>1. s \in Nat /\ c \in Nat /\ s <= now /\ now < s + Horizon /\ c <= CapOfWindow
    BY <1>1, <1>5
  <2>2. \A k \in 0..Span : Stretch(k, recent[k], now, 0, Horizon, CapOfWindow, now, midnight)
    <3> SUFFICES ASSUME NEW k \in 0..Span
                 PROVE  Stretch(k, recent[k], now, 0, Horizon, CapOfWindow, now, midnight)
      OBVIOUS
    <3>1. CASE stored.resetAt <= now
      <4>1. stored.resetAt <= midnight - Day
        BY <1>1, <1>2, <3>1
      <4>2. QED
        BY <1>1, <1>2, <1>3, <3>1, <4>1, StretchFresh
    <3>2. CASE ~(stored.resetAt <= now)
      <4>1. stored.resetAt = midnight /\ WindowStart + Horizon <= now
        BY <1>1, <1>5, <3>2
      <4>2. Stretch(k, recent[k], now, 0, Horizon, CapOfWindow, now, stored.resetAt)
        BY <1>1, <1>2, <1>3, <4>1, StretchRolled
      <4>3. QED
        BY <4>1, <4>2
    <3>3. QED
      BY <3>1, <3>2
  <2>3. QED
    BY <1>5, <2>1, <2>2
<1>6. QED
  BY <1>4, <1>5 DEF UpToDate

\* A refusal, or a call that only reads.
LEMMA SlidingStutter ==
  ASSUME SlidingInv, UNCHANGED <<kind, now, midnight, stored, recent>>
  PROVE  SlidingInv'
  BY DEF SlidingInv, WindowStart, WindowCount, Horizon, CapOfWindow

\* A record put back without an admission.
LEMMA SlidingPut ==
  ASSUME HistoryAssumption, QuotaInv, SlidingInv,
         UNCHANGED <<kind, now, midnight, recent>>,
         stored'.resetAt = midnight, UpToDate(WindowStart', WindowCount')
  PROVE  SlidingInv'
<1> DEFINE s == WindowStart'
           c == WindowCount'
<1>1. /\ s <= now /\ c <= CapOfWindow
      /\ \A k \in 0..Span : Stretch(k, recent[k], s, c, Horizon, CapOfWindow, now, midnight)
  BY UpToDateBounds
<1>2. Horizon' = Horizon /\ CapOfWindow' = CapOfWindow
  BY DEF Horizon, CapOfWindow
<1>3. recent \in [0..Span -> Nat] /\ Day <= midnight
  BY DEF SlidingInv
<1>4. QED
  BY <1>1, <1>2, <1>3 DEF SlidingInv

\* A record put back with one admission more, below the limit.
LEMMA SlidingAdmit ==
  ASSUME HistoryAssumption, QuotaInv, SlidingInv, NEW c \in Nat,
         UNCHANGED <<kind, now, midnight>>,
         stored'.resetAt = midnight, UpToDate(WindowStart', c),
         WindowCount' = c + 1, c < CapOfWindow,
         recent' = [k \in 0..Span |-> IF k = 0 THEN 0 ELSE recent[k] + 1]
  PROVE  SlidingInv'
<1> DEFINE s == WindowStart'
<1>1. /\ s \in Nat /\ s <= now /\ now < s + Horizon
      /\ \A k \in 0..Span : Stretch(k, recent[k], s, c, Horizon, CapOfWindow, now, midnight)
  BY UpToDateBounds
<1>2. Horizon' = Horizon /\ CapOfWindow' = CapOfWindow
  BY DEF Horizon, CapOfWindow
<1>3. /\ recent \in [0..Span -> Nat] /\ Day <= midnight
      /\ Horizon \in Nat /\ CapOfWindow \in Nat /\ Span \in Nat
      /\ now \in Nat /\ midnight \in Nat /\ now < midnight
  BY HistoryTypes DEF SlidingInv, QuotaInv, TypeOK
<1>4. recent' \in [0..Span -> Nat]
  BY <1>3
<1>5. c + 1 \in Nat /\ c + 1 <= CapOfWindow
  BY <1>3
<1>6. ASSUME NEW k \in 0..Span
      PROVE  Stretch(k, recent'[k], s, c + 1, Horizon, CapOfWindow, now, midnight)
  <2>1. k \in Nat /\ recent[k] \in Nat /\ recent'[k] = IF k = 0 THEN 0 ELSE recent[k] + 1
    BY <1>3
  <2>2. CASE k = 0
    BY <1>1, <1>3, <1>5, <2>1, <2>2, StretchEmpty
  <2>3. CASE k # 0
    <3>1. Stretch(k, recent[k] + 1, s, c + 1, Horizon, CapOfWindow, now, midnight)
      BY <1>1, <1>3, <2>1, <2>3, StretchAdmitted
    <3>2. QED
      BY <2>1, <2>3, <3>1
  <2>4. QED
    BY <2>2, <2>3
<1>7. QED
  BY <1>1, <1>2, <1>3, <1>4, <1>5, <1>6 DEF SlidingInv

\* Only an admission, a reset or the clock touches the history.
LEMMA RecordNothing ==
  ASSUME Record, UNCHANGED now, now \in Nat, reply'.action # "reset", ~Admission'
  PROVE  UNCHANGED recent
  BY DEF Record

LEMMA RecordAdmission ==
  ASSUME Record, UNCHANGED now, reply'.action # "reset", Admission'
  PROVE  recent' = [k \in 0..Span |-> IF k = 0 THEN 0 ELSE recent[k] + 1]
  BY DEF Record

\* A refused call keeps SlidingInv.
LEMMA SlidingRefuse ==
  ASSUME SlidingInv, QuotaInv, Record, NEW a, NEW e,
         a # "reset", e # "ok", Refuse(a, e), UNCHANGED <<kind, now, midnight>>
  PROVE  SlidingInv'
<1>1. reply'.action = a /\ reply'.code = e /\ UNCHANGED stored
  BY DEF Refuse, Answer
<1>2. UNCHANGED recent
  BY <1>1, RecordNothing DEF Admission, QuotaInv, TypeOK
<1>3. QED
  BY <1>1, <1>2, SlidingStutter

\* consume: an admission is below the plan's limit, and so below the largest.
LEMMA SlidingConsume ==
  ASSUME HistoryAssumption, QuotaInv, SlidingInv, Record, NEW p \in Plans, Consume(p)
  PROVE  SlidingInv'
<1>1. UNCHANGED <<kind, now, midnight>> /\ kind = "access"
  BY DEF Consume
<1>2. CASE Refuse("consume", "daily_limit_exceeded") \/ Refuse("consume", "rate_limit_exceeded")
  BY <1>1, <1>2, SlidingRefuse
<1>3. CASE /\ ~OverEdge(Active, p) /\ Put(Charge(Active)) /\ Answer("consume", "ok")
  <2>1. Dated /\ Active \in Quota /\ Active.resetAt = midnight
    BY InvDated, ActiveType
  <2>2. /\ stored' = Charge(Active)
        /\ stored'.resetAt = midnight
        /\ stored'.windowCount = Active.windowCount + 1
        /\ stored'.windowStart = Active.windowStart
    BY <1>3, <2>1, ChargeType DEF Put, Charge, Quota
  <2>3. WindowStart' = Active.windowStart /\ WindowCount' = Active.windowCount + 1
    BY <1>1, <2>2 DEF WindowStart, WindowCount
  <2>4. Active.windowCount \in Nat /\ Active.windowCount < CapOfWindow
    <3>1. Active.windowCount \in Nat /\ Edge[p] \in Nat /\ Edge[p] <= LargestEdge
          /\ CapOfWindow \in Nat /\ CapOfWindow = LargestEdge
      BY <1>1, <2>1, HistoryTypes DEF Quota, CapOfWindow
    <3>2. ~(Active.windowCount >= Edge[p])
      BY <1>3, HistoryTypes DEF OverEdge
    <3>3. QED
      BY <3>1, <3>2
  <2>5. recent' = [k \in 0..Span |-> IF k = 0 THEN 0 ELSE recent[k] + 1]
    <3>1. reply'.action = "consume" /\ reply'.code = "ok"
      BY <1>3 DEF Answer
    <3>2. QED
      BY <1>1, <3>1, RecordAdmission DEF Admission
  <2>6. UpToDate(WindowStart', Active.windowCount)
    BY <1>1, <2>1, <2>3, ActiveMinute
  <2>7. QED
    BY <1>1, <2>2, <2>3, <2>4, <2>5, <2>6, SlidingAdmit
<1>4. QED
  BY <1>2, <1>3 DEF Consume

\* acquire: the same limit, after the check of the slots.
LEMMA SlidingAcquire ==
  ASSUME HistoryAssumption, QuotaInv, SlidingInv, Record,
         NEW p \in Plans, NEW l \in Leases, Acquire(p, l)
  PROVE  SlidingInv'
<1>1. UNCHANGED <<kind, now, midnight>> /\ kind = "access"
  BY DEF Acquire
<1>2. CASE \/ Refuse("acquire", "concurrency_limit_exceeded")
           \/ Refuse("acquire", "rate_limit_exceeded")
           \/ Refuse("acquire", "daily_limit_exceeded")
  BY <1>1, <1>2, SlidingRefuse
<1>3. CASE /\ ~OverEdge(Active, p) /\ Put(Charge(Lease(Active, l))) /\ Answer("acquire", "ok")
  <2>1. Dated /\ Active \in Quota /\ Active.resetAt = midnight /\ now \in Nat
    BY InvDated, ActiveType DEF Dated, TypeOK
  <2> DEFINE held == Lease(Active, l)
  <2>2. /\ held \in Quota /\ held.resetAt = midnight
        /\ held.windowCount = Active.windowCount
        /\ held.windowStart = Active.windowStart
    BY <2>1, LeaseType DEF Lease, Quota
  <2> HIDE DEF held
  <2>3. /\ stored' = Charge(held)
        /\ stored'.resetAt = midnight
        /\ stored'.windowCount = Active.windowCount + 1
        /\ stored'.windowStart = Active.windowStart
    <3>1. stored' = Charge(held)
      BY <1>3 DEF Put, held
    <3>2. QED
      BY <2>2, <3>1, ChargeType DEF Charge, Quota
  <2>4. WindowStart' = Active.windowStart /\ WindowCount' = Active.windowCount + 1
    BY <1>1, <2>3 DEF WindowStart, WindowCount
  <2>5. Active.windowCount \in Nat /\ Active.windowCount < CapOfWindow
    <3>1. Active.windowCount \in Nat /\ Edge[p] \in Nat /\ Edge[p] <= LargestEdge
          /\ CapOfWindow \in Nat /\ CapOfWindow = LargestEdge
      BY <1>1, <2>1, HistoryTypes DEF Quota, CapOfWindow
    <3>2. ~(Active.windowCount >= Edge[p])
      BY <1>3, HistoryTypes DEF OverEdge
    <3>3. QED
      BY <3>1, <3>2
  <2>6. recent' = [k \in 0..Span |-> IF k = 0 THEN 0 ELSE recent[k] + 1]
    <3>1. reply'.action = "acquire" /\ reply'.code = "ok"
      BY <1>3 DEF Answer
    <3>2. QED
      BY <1>1, <3>1, RecordAdmission DEF Admission
  <2>7. UpToDate(WindowStart', Active.windowCount)
    BY <1>1, <2>1, <2>4, ActiveMinute
  <2>8. QED
    BY <1>1, <2>3, <2>4, <2>5, <2>6, <2>7, SlidingAdmit
<1>4. QED
  BY <1>2, <1>3 DEF Acquire

\* A record put back with other leases: its window is the updated one's.
LEMMA SlidingLeases ==
  ASSUME HistoryAssumption, QuotaInv, SlidingInv, Record, kind = "access",
         UNCHANGED <<kind, now, midnight>>,
         reply'.action \in {"renew", "release"},
         stored'.resetAt = midnight,
         stored'.windowStart = Active.windowStart, stored'.windowCount = Active.windowCount
  PROVE  SlidingInv'
<1>1. UNCHANGED recent
  BY RecordNothing DEF Admission, QuotaInv, TypeOK
<1>2. WindowStart' = Active.windowStart /\ WindowCount' = Active.windowCount
  BY DEF WindowStart, WindowCount
<1>3. UpToDate(WindowStart', WindowCount')
  BY <1>2, InvDated, ActiveMinute
<1>4. QED
  BY <1>1, <1>3, SlidingPut

\* renew: the window is brought up to date when the lease is still held.
LEMMA SlidingRenew ==
  ASSUME HistoryAssumption, QuotaInv, SlidingInv, Record, NEW l \in Leases, Renew(l)
  PROVE  SlidingInv'
<1>1. UNCHANGED <<kind, now, midnight>> /\ kind = "access"
  BY DEF Renew
<1>2. CASE Refuse("renew", "lease_not_found")
  BY <1>1, <1>2, SlidingRefuse
<1>3. CASE Put(Lease(Active, l)) /\ Answer("renew", "ok")
  <2>1. Active \in Quota /\ Active.resetAt = midnight /\ now \in Nat
    BY InvDated, ActiveType DEF Dated, TypeOK
  <2>2. /\ stored'.resetAt = midnight
        /\ stored'.windowCount = Active.windowCount
        /\ stored'.windowStart = Active.windowStart
    BY <1>3, <2>1, LeaseType DEF Put, Lease, Quota
  <2>3. reply'.action = "renew"
    BY <1>3 DEF Answer
  <2>4. QED
    BY <1>1, <2>2, <2>3, SlidingLeases
<1>4. QED
  BY <1>2, <1>3 DEF Renew

\* release: the window is brought up to date in every case.
LEMMA SlidingRelease ==
  ASSUME HistoryAssumption, QuotaInv, SlidingInv, Record, NEW l \in Leases, Release(l)
  PROVE  SlidingInv'
<1>1. /\ UNCHANGED <<kind, now, midnight>> /\ kind = "access"
      /\ stored' = Unlease(Active, l) /\ reply'.action = "release"
  BY DEF Release, Put, Answer
<1>2. Active \in Quota /\ Active.resetAt = midnight
  BY InvDated, ActiveType
<1>3. /\ stored'.resetAt = midnight
      /\ stored'.windowCount = Active.windowCount
      /\ stored'.windowStart = Active.windowStart
  BY <1>1, <1>2, UnleaseType DEF Unlease, Quota
<1>4. QED
  BY <1>1, <1>3, SlidingLeases

\* waitlist: a submission is admitted below the cap of the hour.
LEMMA SlidingWaitlist ==
  ASSUME HistoryAssumption, QuotaInv, SlidingInv, Record, Waitlist
  PROVE  SlidingInv'
<1> DEFINE q == RollWaitlist(Active)
<1>1. UNCHANGED <<kind, now, midnight>> /\ kind = "waitlist"
  BY DEF Waitlist
<1>2. CASE Refuse("waitlist", "waitlist_rate_limit_exceeded")
  BY <1>1, <1>2, SlidingRefuse
<1>3. CASE /\ q.waitlistCount < WaitlistCap
           /\ Put([q EXCEPT !.waitlistCount = @ + 1]) /\ Answer("waitlist", "ok")
  <2>1. /\ q \in Quota /\ q.resetAt = midnight
        /\ UpToDate(q.waitlistStart, q.waitlistCount)
    BY <1>1, InvDated, ActiveHour
  <2>2. stored' = [q EXCEPT !.waitlistCount = @ + 1]
    BY <1>3 DEF Put
  <2>3. q.waitlistCount < WaitlistCap
    BY <1>3
  <2> HIDE DEF q
  <2>4. /\ stored'.resetAt = midnight
        /\ stored'.waitlistStart = q.waitlistStart
        /\ stored'.waitlistCount = q.waitlistCount + 1
        /\ q.waitlistCount \in Nat
    BY <2>1, <2>2 DEF Quota
  <2>5. WindowStart' = q.waitlistStart /\ WindowCount' = q.waitlistCount + 1
    BY <1>1, <2>4 DEF WindowStart, WindowCount
  <2>6. q.waitlistCount < CapOfWindow
    BY <1>1, <2>3 DEF CapOfWindow
  <2>7. recent' = [k \in 0..Span |-> IF k = 0 THEN 0 ELSE recent[k] + 1]
    <3>1. reply'.action = "waitlist" /\ reply'.code = "ok"
      BY <1>3 DEF Answer
    <3>2. QED
      BY <1>1, <3>1, RecordAdmission DEF Admission
  <2>8. QED
    BY <1>1, <2>1, <2>4, <2>5, <2>6, <2>7, SlidingAdmit
<1>4. QED
  BY <1>2, <1>3 DEF Waitlist

\* reset: the record and the history start over together.
LEMMA SlidingReset ==
  ASSUME HistoryAssumption, QuotaInv, SlidingInv, Record, Reset
  PROVE  SlidingInv'
<1>1. /\ UNCHANGED <<kind, now, midnight>>
      /\ stored' = Absent /\ reply'.action = "reset"
  BY DEF Reset, Put, Answer
<1>2. /\ now \in Nat /\ midnight \in Nat /\ Day <= midnight /\ Day \in Nat
      /\ Horizon \in Nat /\ CapOfWindow \in Nat /\ Span \in Nat
  BY HistoryTypes DEF SlidingInv, QuotaInv, TypeOK
<1>3. recent' = NoneRecent
  BY <1>1 DEF Record
<1>4. recent' \in [0..Span -> Nat] /\ \A k \in 0..Span : k \in Nat /\ recent'[k] = 0
  BY <1>2, <1>3 DEF NoneRecent
<1>5. stored'.resetAt = 0 /\ WindowStart' = 0 /\ WindowCount' = 0
  BY <1>1 DEF Absent, FreshAt, WindowStart, WindowCount
<1>6. Horizon' = Horizon /\ CapOfWindow' = CapOfWindow
  BY <1>1 DEF Horizon, CapOfWindow
<1>7. \A k \in 0..Span : Stretch(k, recent'[k], 0, 0, Horizon, CapOfWindow, now, 0)
  BY <1>2, <1>4, StretchEmpty
<1>8. 0 <= midnight - Day /\ 0 <= now /\ 0 <= CapOfWindow
  BY <1>2
<1>9. QED
  BY <1>1, <1>2, <1>4, <1>5, <1>6, <1>7, <1>8 DEF SlidingInv

\* The clock: every stretch is one tick longer, and midnight one day away.
LEMMA SlidingTick ==
  ASSUME HistoryAssumption, QuotaInv, SlidingInv, Record, Tick
  PROVE  SlidingInv'
<1>1. /\ now \in Nat /\ midnight \in Nat /\ now < midnight /\ Day <= midnight
      /\ Day \in Nat /\ 1 <= Day /\ stored.resetAt \in Nat
      /\ Horizon \in Nat /\ CapOfWindow \in Nat /\ Span \in Nat
      /\ WindowStart \in Nat /\ WindowCount \in Nat
      /\ WindowStart <= now /\ WindowCount <= CapOfWindow
      /\ stored.resetAt = midnight \/ stored.resetAt <= midnight - Day
  BY HistoryTypes DEF SlidingInv, QuotaInv, TypeOK, Quota, WindowStart, WindowCount
<1>2. /\ now' = now + 1 /\ UNCHANGED <<kind, stored>>
      /\ midnight' = IF now + 1 = midnight THEN midnight + Day ELSE midnight
  BY DEF Tick
<1>3. recent' = [k \in 0..Span |-> IF k = 0 THEN 0 ELSE recent[k - 1]]
  BY <1>1, <1>2 DEF Record
<1>4. \A k \in 0..Span : /\ recent[k] \in Nat
                         /\ Stretch(k, recent[k], WindowStart, WindowCount,
                                    Horizon, CapOfWindow, now, stored.resetAt)
  BY DEF SlidingInv
<1>5. /\ Horizon' = Horizon /\ CapOfWindow' = CapOfWindow
      /\ WindowStart' = WindowStart /\ WindowCount' = WindowCount
  BY <1>2 DEF Horizon, CapOfWindow, WindowStart, WindowCount
<1>6. ASSUME NEW k \in 0..Span
      PROVE  /\ recent'[k] \in Nat
             /\ Stretch(k, recent'[k], WindowStart, WindowCount,
                        Horizon, CapOfWindow, now + 1, stored.resetAt)
  <2>1. k \in Nat /\ recent'[k] = IF k = 0 THEN 0 ELSE recent[k - 1]
    BY <1>1, <1>3
  <2>2. CASE k = 0
    <3>1. now + 1 \in Nat /\ recent'[k] = 0
      BY <1>1, <2>1, <2>2
    <3>2. Stretch(k, 0, WindowStart, WindowCount, Horizon, CapOfWindow, now + 1, stored.resetAt)
      BY <1>1, <2>1, <3>1, StretchEmpty
    <3>3. QED
      BY <3>1, <3>2
  <2>3. CASE k # 0
    <3>1. k - 1 \in 0..Span
      BY <1>1, <2>3
    <3>2. /\ recent[k - 1] \in Nat
          /\ Stretch(k - 1, recent[k - 1], WindowStart, WindowCount,
                     Horizon, CapOfWindow, now, stored.resetAt)
      BY <1>4, <3>1
    <3>3. Stretch(k, recent[k - 1], WindowStart, WindowCount,
                  Horizon, CapOfWindow, now + 1, stored.resetAt)
      BY <1>1, <2>1, <2>3, <3>2, StretchShifted
    <3>4. QED
      BY <2>1, <2>3, <3>2, <3>3
  <2>4. QED
    BY <2>2, <2>3
<1>7. recent' \in [0..Span -> Nat]
  BY <1>3, <1>6
<1>8. /\ Day <= midnight' /\ WindowStart <= now + 1
      /\ stored.resetAt = midnight' \/ stored.resetAt <= midnight' - Day
  BY <1>1, <1>2
<1>9. QED
  BY <1>1, <1>2, <1>5, <1>6, <1>7, <1>8 DEF SlidingInv

\* Every step of the object with its history keeps SlidingInv.
LEMMA SlidingStep ==
  ASSUME HistoryAssumption, QuotaInv, SlidingInv, [CountedNext]_countedVars
  PROVE  SlidingInv'
<1>1. CASE UNCHANGED countedVars
  BY <1>1, SlidingStutter DEF countedVars, vars
<1>2. CASE Usage /\ Record
  <2>1. UNCHANGED <<kind, now, midnight, stored>> /\ reply'.action = "usage"
    BY <1>2 DEF Usage, Answer
  <2>2. UNCHANGED recent
    BY <1>2, <2>1, RecordNothing DEF Admission, QuotaInv, TypeOK
  <2>3. QED
    BY <2>1, <2>2, SlidingStutter
<1>3. QED
  BY <1>1, <1>2, SlidingConsume, SlidingAcquire, SlidingRenew, SlidingRelease,
     SlidingReset, SlidingWaitlist, SlidingTick DEF CountedNext, Next

\* Nothing was admitted before the first step.
LEMMA SlidingStart == HistoryAssumption /\ CountedInit => SlidingInv
<1> SUFFICES ASSUME HistoryAssumption, CountedInit
             PROVE  SlidingInv
  OBVIOUS
<1>1. /\ kind \in {"access", "waitlist"} /\ now \in Nat /\ midnight = Day
      /\ stored = Absent /\ recent = NoneRecent /\ Day \in Nat
      /\ Horizon \in Nat /\ CapOfWindow \in Nat /\ Span \in Nat
  BY HistoryTypes DEF CountedInit, Init
<1>2. recent \in [0..Span -> Nat] /\ \A k \in 0..Span : k \in Nat /\ recent[k] = 0
  BY <1>1 DEF NoneRecent
<1>3. stored.resetAt = 0 /\ WindowStart = 0 /\ WindowCount = 0
  BY <1>1 DEF Absent, FreshAt, WindowStart, WindowCount
<1>4. \A k \in 0..Span : Stretch(k, recent[k], 0, 0, Horizon, CapOfWindow, now, 0)
  BY <1>1, <1>2, StretchEmpty
<1>5. 0 <= midnight - Day /\ 0 <= now /\ 0 <= CapOfWindow /\ Day <= midnight
  BY <1>1
<1>6. QED
  BY <1>2, <1>3, <1>4, <1>5 DEF SlidingInv

\* The bound on every stretch bounds the one as long as a window.
LEMMA SlidingImplies == HistoryAssumption /\ QuotaInv /\ SlidingInv => SlidingBound
<1> SUFFICES ASSUME HistoryAssumption, QuotaInv, SlidingInv
             PROVE  SlidingBound
  OBVIOUS
<1>1. /\ now \in Nat /\ midnight \in Nat /\ Day \in Nat /\ stored.resetAt \in Nat
      /\ Horizon \in Nat /\ Horizon <= Day /\ Horizon \in 0..Span /\ CapOfWindow \in Nat
      /\ WindowStart \in Nat /\ WindowCount \in Nat /\ Day <= midnight /\ now < midnight
      /\ WindowStart <= now /\ WindowCount <= CapOfWindow
      /\ stored.resetAt = midnight \/ stored.resetAt <= midnight - Day
      /\ stored.resetAt <= now \/ stored.resetAt = midnight
  BY HistoryTypes DEF SlidingInv, QuotaInv, TypeOK, Quota, WindowStart, WindowCount, OfToday
<1>2. /\ recent[Horizon] \in Nat
      /\ Stretch(Horizon, recent[Horizon], WindowStart, WindowCount,
                 Horizon, CapOfWindow, now, stored.resetAt)
  BY <1>1 DEF SlidingInv
<1> DEFINE n == recent[Horizon]
<1>3. n \in Nat /\ n <= WindowCount + 2 * CapOfWindow
  BY <1>1, <1>2 DEF Stretch
<1>4. CASE MidnightLately
  BY <1>1, <1>3, <1>4 DEF SlidingBound
<1>5. CASE ~MidnightLately
  <2>1. SameDay(Horizon, now, stored.resetAt)
    BY <1>1, <1>5 DEF SameDay, MidnightLately
  <2>2. n <= WindowCount + CapOfWindow
    BY <1>1, <1>2, <2>1 DEF Stretch
  <2>3. QED
    BY <1>1, <1>3, <1>5, <2>2 DEF SlidingBound
<1>6. QED
  BY <1>4, <1>5

-----------------------------------------------------------------------------
(* The theorems. *)

\* QuotaInv holds throughout, hence so do the type invariant and the relation
\* between the two counters.
THEOREM QuotaInvariant == Spec => []QuotaInv
<1>1. QuotaInv /\ [Next]_vars => QuotaInv'
  BY NextStep
<1>2. QED
  BY InitInv, <1>1, PTL DEF Spec

\* The variables of the quota object keep their types.
THEOREM TypeCorrect == Spec => []TypeOK
  BY QuotaInvariant, PTL DEF QuotaInv

\* The minute window never counts an admission the day does not.
THEOREM WindowTheorem == Spec => []WindowWithinDay
  BY QuotaInvariant, PTL DEF QuotaInv

\* However plans change in the course of a day, no more than the largest daily
\* budget is spent and no more than the largest number of slots is held.
THEOREM BudgetTheorem == Spec => []WithinBudget
<1>1. QuotaInv => WithinBudget
  BY QuotaAssumption DEF QuotaInv, WithinBudget, Spent, TypeOK, QuotaAssumption
<1>2. QED
  BY QuotaInvariant, <1>1, PTL

\* The object implements DailyBudget: an admission costs one unit, a slot given
\* up never returns, and units return only at midnight or by a reset.
THEOREM Refinement == Spec => ImplementsDailyBudget
<1>1. QuotaInv /\ [Next]_vars => [Budget!Next]_(Budget!vars)
  BY NextStep DEF BudgetStep
<1>2. QED
  BY InitInv, QuotaInvariant, <1>1, PTL DEF Spec, ImplementsDailyBudget, Budget!Spec

\* Fixed windows: over any minute (any hour of the waitlist) at most twice the
\* limit is admitted, and three times when a midnight falls in it.
THEOREM SlidingTheorem == HistoryAssumption => (CountedSpec => []SlidingBound)
<1> SUFFICES ASSUME HistoryAssumption
             PROVE  CountedSpec => []SlidingBound
  OBVIOUS
<1>1. CountedInit => QuotaInv /\ SlidingInv
  BY InitInv, SlidingStart DEF CountedInit
<1>2. QuotaInv /\ SlidingInv /\ [CountedNext]_countedVars => QuotaInv' /\ SlidingInv'
  <2> SUFFICES ASSUME QuotaInv, SlidingInv, [CountedNext]_countedVars
               PROVE  QuotaInv' /\ SlidingInv'
    OBVIOUS
  <2>1. [Next]_vars
    BY DEF CountedNext, countedVars
  <2>2. QED
    BY <2>1, NextStep, SlidingStep
<1>3. QuotaInv /\ SlidingInv => SlidingBound
  BY SlidingImplies
<1>4. QED
  BY <1>1, <1>2, <1>3, PTL DEF CountedSpec

=============================================================================
