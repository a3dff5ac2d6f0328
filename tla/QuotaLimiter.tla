---------------------------- MODULE QuotaLimiter ----------------------------
(***************************************************************************)
(* One instance of the QuotaLimiter Durable Object                         *)
(* (apps/worker/src/durable/quota-limiter.ts).  Every call runs under      *)
(* blockConcurrencyWhile, so a call is one atomic step: it loads the       *)
(* stored record, brings it up to date with the clock, decides, and either *)
(* puts the record back or leaves storage as it was.                       *)
(*                                                                         *)
(* Time is counted in ticks.  The calls of one subject may carry different *)
(* plans, because a plan changes while the object lives on.                *)
(***************************************************************************)
EXTENDS Integers, FiniteSets

CONSTANTS
    Leases,        \* lease ids: the UUIDs the gateway draws
    Plans,         \* the plans of config.ts
    Daily,         \* Daily[p]: the `limit` a call made under plan p carries
    Edge,          \* Edge[p]: its `edgeLimit`; 0 when the call carries none
    Streams,       \* Streams[p]: its `streams`
    MaxDaily,      \* no plan's daily limit is larger
    MaxStreams,    \* no plan's stream cap is larger
    Minute,        \* 60000 ms
    LeaseTtl,      \* 120000 ms
    Hour,          \* 3600000 ms
    Day,           \* from one UTC midnight to the next
    WaitlistCap,   \* 3 submissions
    MaxTime        \* bound: the clock stops here

ASSUME QuotaAssumption ==
    /\ IsFiniteSet(Leases)
    /\ Plans # {}
    /\ Daily \in [Plans -> Nat]
    /\ Edge \in [Plans -> Nat]
    /\ Streams \in [Plans -> Nat]
    /\ {MaxDaily, MaxStreams} \subseteq Nat
    /\ \A p \in Plans : Daily[p] <= MaxDaily /\ Streams[p] <= MaxStreams
    /\ {Minute, LeaseTtl, Hour, Day} \subseteq Nat \ {0}
    /\ WaitlistCap \in Nat
    /\ MaxTime \in Nat

VARIABLES
    kind,       \* "access" for user: and anonymous: objects, "waitlist" for waitlist: ones
    now,        \* Date.now()
    midnight,   \* the next UTC midnight
    stored,     \* the StoredQuota under the key 'quota'
    issued,     \* the lease ids some acquire was admitted with
    reply       \* the last QuotaDecision: which action it answers, and its code

vars == <<kind, now, midnight, stored, issued, reply>>

Quota == [count: Nat, resetAt: Nat, streams: [Leases -> Nat],
          windowCount: Nat, windowStart: Nat,
          waitlistCount: Nat, waitlistStart: Nat]

Codes == {"ok", "daily_limit_exceeded", "rate_limit_exceeded",
          "concurrency_limit_exceeded", "lease_not_found",
          "waitlist_rate_limit_exceeded"}

Actions == {"none", "consume", "acquire", "renew", "release", "usage",
            "reset", "waitlist"}

\* A record that starts over.  An expiry of 0 stands for no lease.
FreshAt(t, reset) ==
    [count |-> 0, resetAt |-> reset, streams |-> [l \in Leases |-> 0],
     windowCount |-> 0, windowStart |-> t,
     waitlistCount |-> 0, waitlistStart |-> t]

\* Nothing stored: like a stored record whose reset time is past, it makes the
\* next call start over.
Absent == FreshAt(0, 0)

-----------------------------------------------------------------------------
(* Bringing the record up to date, at the start of every call. *)

NextReset == midnight

\* Fault: midnight starts the day over but not the minute.
FreshKeepsWindow ==
    [FreshAt(now, NextReset) EXCEPT !.windowStart = stored.windowStart,
                                    !.windowCount = stored.windowCount]

Fresh == FreshAt(now, NextReset)

\* Fault: the window is emptied but not moved, so it is emptied at every call.
RollWindowInPlace(q) ==
    IF q.windowStart + Minute <= now THEN [q EXCEPT !.windowCount = 0] ELSE q

RollWindow(q) ==
    IF q.windowStart + Minute <= now
    THEN [q EXCEPT !.windowStart = now, !.windowCount = 0]
    ELSE q

Purge(q) ==
    [q EXCEPT !.streams =
        [l \in Leases |-> IF q.streams[l] <= now THEN 0 ELSE q.streams[l]]]

Load == IF stored.resetAt <= now THEN Fresh ELSE stored

Active == Purge(RollWindow(Load))

Present(q) == {l \in Leases : q.streams[l] # 0}

\* Fault: one request too many.
OverDailyByOne(q, p) == q.count > Daily[p]

OverDaily(q, p) == q.count >= Daily[p]

OverEdge(q, p) == Edge[p] # 0 /\ q.windowCount >= Edge[p]

OverStreams(q, p) == Cardinality(Present(q)) >= Streams[p]

Charge(q) == [q EXCEPT !.count = @ + 1, !.windowCount = @ + 1]

Lease(q, l) == [q EXCEPT !.streams[l] = now + LeaseTtl]

Unlease(q, l) == [q EXCEPT !.streams[l] = 0]

-----------------------------------------------------------------------------
(* The operations. *)

Answer(action, code) == reply' = [action |-> action, code |-> code]

Put(q) == stored' = q

Refuse(action, code) == Answer(action, code) /\ UNCHANGED <<stored, issued>>

Init ==
    /\ kind \in {"access", "waitlist"}
    /\ now \in 0 .. Day - 1
    /\ midnight = Day
    /\ stored = Absent
    /\ issued = {}
    /\ reply = [action |-> "none", code |-> "ok"]

Consume(p) ==
    /\ kind = "access"
    /\ \/ OverDaily(Active, p) /\ Refuse("consume", "daily_limit_exceeded")
       \/ /\ ~OverDaily(Active, p) /\ OverEdge(Active, p)
          /\ Refuse("consume", "rate_limit_exceeded")
       \/ /\ ~OverDaily(Active, p) /\ ~OverEdge(Active, p)
          /\ Put(Charge(Active))
          /\ Answer("consume", "ok")
          /\ UNCHANGED issued
    /\ UNCHANGED <<kind, now, midnight>>

\* The gateway draws a new UUID for every acquire.
Acquire(p, l) ==
    /\ kind = "access" /\ l \notin issued
    /\ \/ OverStreams(Active, p) /\ Refuse("acquire", "concurrency_limit_exceeded")
       \/ /\ ~OverStreams(Active, p) /\ OverEdge(Active, p)
          /\ Refuse("acquire", "rate_limit_exceeded")
       \/ /\ ~OverStreams(Active, p) /\ ~OverEdge(Active, p) /\ OverDaily(Active, p)
          /\ Refuse("acquire", "daily_limit_exceeded")
       \/ /\ ~OverStreams(Active, p) /\ ~OverEdge(Active, p) /\ ~OverDaily(Active, p)
          /\ Put(Charge(Lease(Active, l)))
          /\ issued' = issued \cup {l}
          /\ Answer("acquire", "ok")
    /\ UNCHANGED <<kind, now, midnight>>

\* Fault: a late renew brings a lease back.
RenewAnyway(l) ==
    /\ kind = "access" /\ l \in issued
    /\ Put(Lease(Active, l))
    /\ Answer("renew", "ok")
    /\ UNCHANGED <<kind, now, midnight, issued>>

\* Renewing a lease the record does not hold is refused: it does not come back.
Renew(l) ==
    /\ kind = "access" /\ l \in issued
    /\ \/ l \notin Present(Active) /\ Refuse("renew", "lease_not_found")
       \/ /\ l \in Present(Active)
          /\ Put(Lease(Active, l))
          /\ Answer("renew", "ok")
          /\ UNCHANGED issued
    /\ UNCHANGED <<kind, now, midnight>>

\* Fault: a release gives the unit back.
ReleaseRefunds(l) ==
    /\ kind = "access" /\ l \in issued
    /\ Put([Unlease(Active, l) EXCEPT !.count = @ - 1])
    /\ Answer("release", "ok")
    /\ UNCHANGED <<kind, now, midnight, issued>>

\* Releasing is always allowed, and writes the record even when it held nothing.
Release(l) ==
    /\ kind = "access" /\ l \in issued
    /\ Put(Unlease(Active, l))
    /\ Answer("release", "ok")
    /\ UNCHANGED <<kind, now, midnight, issued>>

Usage ==
    /\ kind = "access"
    /\ Answer("usage", "ok")
    /\ UNCHANGED <<kind, now, midnight, stored, issued>>

\* Account deletion.
Reset ==
    /\ kind = "access"
    /\ Put(Absent)
    /\ Answer("reset", "ok")
    /\ UNCHANGED <<kind, now, midnight, issued>>

RollWaitlist(q) ==
    IF q.waitlistStart + Hour <= now
    THEN [q EXCEPT !.waitlistStart = now, !.waitlistCount = 0]
    ELSE q

Waitlist ==
    /\ kind = "waitlist"
    /\ LET q == RollWaitlist(Active) IN
       \/ /\ q.waitlistCount >= WaitlistCap
          /\ Refuse("waitlist", "waitlist_rate_limit_exceeded")
       \/ /\ q.waitlistCount < WaitlistCap
          /\ Put([q EXCEPT !.waitlistCount = @ + 1])
          /\ Answer("waitlist", "ok")
          /\ UNCHANGED issued
    /\ UNCHANGED <<kind, now, midnight>>

Tick ==
    /\ now < MaxTime
    /\ now' = now + 1
    /\ midnight' = IF now + 1 = midnight THEN midnight + Day ELSE midnight
    /\ UNCHANGED <<kind, stored, issued, reply>>

Next ==
    \/ \E p \in Plans : Consume(p) \/ \E l \in Leases : Acquire(p, l)
    \/ \E l \in Leases : Renew(l) \/ Release(l)
    \/ Usage
    \/ Reset
    \/ Waitlist
    \/ Tick

Spec == Init /\ [][Next]_vars

-----------------------------------------------------------------------------
(* Properties. *)

\* The variables keep their types.
TypeOK ==
    /\ kind \in {"access", "waitlist"}
    /\ now \in Nat
    /\ midnight \in Nat
    /\ stored \in Quota
    /\ issued \in SUBSET Leases
    /\ reply \in [action: Actions, code: Codes]

\* What the record says of this very moment: a record whose reset time has come
\* is about to be started over, and a lease whose expiry has come is gone.
Spent == IF stored.resetAt <= now THEN 0 ELSE stored.count

Held == {l \in Leases : stored.resetAt > now /\ stored.streams[l] > now}

Budget == INSTANCE DailyBudget WITH
    spent <- Spent, held <- Held, closed <- issued \ Held, day <- midnight

\* The object keeps the promise of DailyBudget: every admission costs one unit of
\* the day, no plan change lets a day or the slots grow past the largest plan, a
\* slot given up (released, lapsed, dropped at midnight) never comes back by a
\* late renew, and the budget returns only at UTC midnight or by a reset.
ImplementsDailyBudget == Budget!Spec

\* At any time at most the largest plan's daily budget is spent and at most its
\* number of slots is held, whatever plans the calls of the day were made under.
WithinBudget == Spent <= MaxDaily /\ Cardinality(Held) <= MaxStreams

\* The minute window never claims more admissions than the day does: the two
\* counters move together, and the window is never older than the day it is in.
WindowWithinDay == stored.windowCount <= stored.count

=============================================================================
