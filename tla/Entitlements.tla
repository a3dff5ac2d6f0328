----------------------------- MODULE Entitlements -----------------------------
(***************************************************************************)
(* The plan of one user: the row of `entitlements`, the row of             *)
(* `sponsor_entitlements`, and the calls that read one and write another:  *)
(* sponsor webhooks and sign-ins (apps/worker/src/sponsors/webhook.ts,     *)
(* state/users.ts, auth/github-oauth.ts) and the downgrade of a lapsed plan*)
(* when a key is resolved or the account page asks (auth/verify.ts,        *)
(* index.ts).  A D1 statement is one step, nothing larger is.              *)
(*                                                                         *)
(* Times are kept as what is left of them: a date that is NULL, unreadable *)
(* or past has 0 ticks left, which is all the code tells apart.            *)
(***************************************************************************)
EXTENDS Integers, FiniteSets

CONSTANTS
    NoDelivery,    \* what a sign-in saves was not delivered by a webhook
    Deliveries,    \* webhook deliveries about this user
    Active,        \* those whose action is neither cancelled nor expired
    TierOf,        \* the tier each of them names
    Savers,        \* invocations that handle a delivery or a sign-in
    Readers,       \* invocations that resolve a key or read the account
    Window,        \* 24 h: how long a sponsorship counts as verified
    Grant          \* 14 days of early access

ASSUME EntitlementAssumption ==
    /\ NoDelivery \notin Deliveries
    /\ Active \subseteq Deliveries
    /\ TierOf \in [Deliveries -> {"configured", "other"}]
    /\ {Window, Grant} \subseteq Nat \ {0}

VARIABLES
    plan,       \* entitlements.plan; "none" without a row
    expires,    \* ticks left of entitlements.expires_at
    sponsor,    \* ticks left of an active sponsor_entitlements row
    tier,       \* the tier in that row
    processed,  \* deliveries whose webhook_events row has processed_at
    save,       \* each saver: its next step and what it knows
    lapse,      \* each reader: the plan it is about to write, or "none"
    granted,    \* history: ticks left of a grant that nothing may take away
    sponsored   \* history: ticks left of a sponsorship that must count

rows == <<plan, expires, sponsor, tier>>
history == <<granted, sponsored>>
entVars == <<rows, processed, save, lapse, history>>

\* "sponsor" stands for supporter and pro, which the code treats alike.
Plans == {"registered", "early_tester", "sponsor"}

\* GitHub's tiers: the supporter's and the pro's, which the environment names, and
\* every other one, or none.
Tiers == {"configured", "other"}

planForTier(t) == IF t = "configured" THEN "sponsor" ELSE "registered"

Idle == [at |-> "idle", of |-> NoDelivery, active |-> FALSE, tier |-> "other",
         found |-> FALSE, tester |-> FALSE]

\* The plan a request is served: resolveAccessContext and account agree on it.
Effective ==
    IF plan = "early_tester" /\ expires > 0 THEN "early_tester"
    ELSE IF plan = "early_tester" /\ sponsor > 0 THEN planForTier(tier)
    ELSE IF plan = "sponsor" /\ sponsor > 0 THEN "sponsor"
    ELSE "registered"

\* The user has signed in before, or not yet.
EntInit ==
    /\ plan \in {"none", "registered"} /\ expires = 0
    /\ sponsor = 0 /\ tier = "other"
    /\ processed = {}
    /\ save = [s \in Savers |-> Idle]
    /\ lapse = [r \in Readers |-> "none"]
    /\ granted = 0 /\ sponsored = 0

-----------------------------------------------------------------------------
(* Who may overwrite a plan with what an older row said *)

\* A saver that has read the row, and found no running grant in it.
MissedGrant(s) == save[s].at \in {"sponsor", "plan"} /\ save[s].found /\ ~save[s].tester

\* What s was told is a sponsorship that has a plan.
Vouches(s) == save[s].active /\ save[s].tier = "configured"

\* A saver that is about to say that there is no such sponsorship.
Ending(s) == save[s].at \in {"sponsor", "plan"} /\ ~Vouches(s)

\* Nobody but `me` would undo a sponsorship written now.
NoneEnds(me) ==
    /\ \A s \in Savers \ {me} : ~Ending(s)
    /\ \A r \in Readers : lapse[r] # "registered"

-----------------------------------------------------------------------------
(* upsertUser and the GitHub answer, the first half of a sign-in *)

Goto(s, step) == save' = [save EXCEPT ![s].at = step]

\* INSERT ... 'registered' ... ON CONFLICT DO NOTHING
SignIn(s) ==
    /\ save[s].at = "idle"
    /\ plan' = IF plan = "none" THEN "registered" ELSE plan
    /\ Goto(s, "stored")
    /\ UNCHANGED <<expires, sponsor, tier, processed, lapse, history>>

ReadSponsor(s) ==
    /\ save[s].at = "stored"
    /\ save' = [save EXCEPT ![s].at = IF sponsor > 0 THEN "restore" ELSE "ask",
                            ![s].tier = tier]
    /\ UNCHANGED <<rows, processed, lapse, history>>

\* UPDATE entitlements ... WHERE plan='registered'
Restore(s) ==
    /\ save[s].at = "restore"
    /\ IF plan = "registered"
       THEN plan' = planForTier(save[s].tier) /\ expires' = 0
       ELSE UNCHANGED <<plan, expires>>
    /\ sponsored' = IF {save[s].tier, tier} = {"configured"} /\ NoneEnds(s)
                    THEN sponsor ELSE sponsored
    /\ Goto(s, "ask")
    /\ UNCHANGED <<sponsor, tier, processed, lapse, granted>>

\* s begins to save what it was told, by GitHub or by the delivery d.
Told(s, d, a, t) ==
    save' = [save EXCEPT ![s] = [Idle EXCEPT !.at = "read", !.of = d, !.active = a, !.tier = t]]

\* sponsorStatus: GitHub says that the user sponsors, with a tier or without one,
\* or does not, or gives no answer and the plan is left as it is.
Ask(s) ==
    /\ save[s].at = "ask"
    /\ \/ \E t \in Tiers : Told(s, NoDelivery, TRUE, t)
       \/ Told(s, NoDelivery, FALSE, "other")
       \/ save' = [save EXCEPT ![s] = Idle]
    /\ UNCHANGED <<rows, processed, lapse, history>>

-----------------------------------------------------------------------------
(* sponsorWebhook *)

\* A delivery that is processed is a duplicate; any other is (re)done.
Deliver(s, d) ==
    /\ save[s].at = "idle" /\ d \notin processed
    /\ Told(s, d, d \in Active, TierOf[d])
    /\ UNCHANGED <<rows, processed, lapse, history>>

Mark(s) ==
    /\ save[s].at = "mark"
    /\ processed' = processed \cup {save[s].of}
    /\ save' = [save EXCEPT ![s] = Idle]
    /\ UNCHANGED <<rows, lapse, history>>

-----------------------------------------------------------------------------
(* saveEntitlement *)

\* Fault: an active grant does not count.
ReadPlanBlind(s) ==
    /\ save[s].at = "read"
    /\ save' = [save EXCEPT ![s].at = "sponsor", ![s].found = plan # "none"]
    /\ UNCHANGED <<rows, processed, lapse, history>>

\* `existing` and `earlyTesterActive`
ReadPlan(s) ==
    /\ save[s].at = "read"
    /\ save' = [save EXCEPT ![s].at = "sponsor",
                            ![s].found = plan # "none",
                            ![s].tester = plan = "early_tester" /\ expires > 0]
    /\ UNCHANGED <<rows, processed, lapse, history>>

\* What follows saveEntitlement: a delivery is marked, a sign-in is over.
Saved(s) == save' = [save EXCEPT ![s] = IF @.of = NoDelivery THEN Idle ELSE [@ EXCEPT !.at = "mark"]]

WriteSponsor(s) ==
    /\ save[s].at = "sponsor"
    /\ sponsor' = IF save[s].active THEN Window ELSE 0
    /\ tier' = save[s].tier
    /\ sponsored' = IF Vouches(s) THEN sponsored ELSE 0
    /\ IF save[s].found THEN Goto(s, "plan") ELSE Saved(s)
    /\ UNCHANGED <<plan, expires, processed, lapse, granted>>

\* The upsert writes the plan and leaves expires_at alone.
WritePlan(s) ==
    /\ save[s].at = "plan"
    /\ plan' = IF save[s].tester THEN "early_tester"
               ELSE IF save[s].active THEN planForTier(save[s].tier)
               ELSE "registered"
    /\ sponsored' = IF Vouches(s) /\ tier = "configured" /\ NoneEnds(s)
                    THEN sponsor ELSE sponsored
    /\ Saved(s)
    /\ UNCHANGED <<expires, sponsor, tier, processed, lapse, granted>>

\* The invocation fails or is evicted; a delivery not marked may come again.
Die(s) ==
    /\ save[s].at # "idle"
    /\ save' = [save EXCEPT ![s] = Idle]
    /\ UNCHANGED <<rows, processed, lapse, history>>

-----------------------------------------------------------------------------
(* The downgrade in resolveAccessContext and in account *)

\* Fault: a lapsed grant falls back to the free plan, whoever sponsors.
NoticeForgetsSponsor(r) ==
    /\ lapse[r] = "none" /\ plan \in {"early_tester", "sponsor"} /\ Effective # plan
    /\ lapse' = [lapse EXCEPT ![r] = "registered"]
    /\ UNCHANGED <<rows, processed, save, history>>

\* Fault: a grant that still runs is taken for a lapsed one.
NoticeAlways(r) ==
    /\ lapse[r] = "none" /\ plan \in {"early_tester", "sponsor"}
    /\ lapse' = [lapse EXCEPT ![r] = Effective]
    /\ UNCHANGED <<rows, processed, save, history>>

\* The row read says that the plan has lapsed: what it is to fall back to.
Notice(r) ==
    /\ lapse[r] = "none" /\ plan \in {"early_tester", "sponsor"} /\ Effective # plan
    /\ lapse' = [lapse EXCEPT ![r] = Effective]
    /\ UNCHANGED <<rows, processed, save, history>>

Downgrade(r) ==
    /\ lapse[r] # "none"
    /\ plan' = lapse[r] /\ expires' = 0
    /\ lapse' = [lapse EXCEPT ![r] = "none"]
    /\ UNCHANGED <<sponsor, tier, processed, save, history>>

GiveUp(r) ==
    /\ lapse[r] # "none"
    /\ lapse' = [lapse EXCEPT ![r] = "none"]
    /\ UNCHANGED <<rows, processed, save, history>>

-----------------------------------------------------------------------------
Less(n) == IF n > 0 THEN n - 1 ELSE 0

EntTick ==
    /\ expires' = Less(expires) /\ sponsor' = Less(sponsor)
    /\ granted' = Less(granted) /\ sponsored' = Less(sponsored)
    /\ UNCHANGED <<plan, tier, processed, save, lapse>>

Saving ==
    \E s \in Savers :
        \/ SignIn(s) \/ ReadSponsor(s) \/ Restore(s) \/ Ask(s)
        \/ (\E d \in Deliveries : Deliver(s, d)) \/ Mark(s)
        \/ ReadPlan(s) \/ WriteSponsor(s) \/ WritePlan(s) \/ Die(s)

Reading == \E r \in Readers : Notice(r) \/ Downgrade(r) \/ GiveUp(r)

-----------------------------------------------------------------------------
EntTypeOK ==
    /\ plan \in Plans \cup {"none"}
    /\ expires \in 0..Grant /\ granted \in 0..Grant
    /\ sponsor \in 0..Window /\ sponsored \in 0..Window /\ tier \in Tiers
    /\ processed \subseteq Deliveries
    /\ save \in [Savers -> [at : {"idle", "stored", "restore", "ask", "read",
                                  "sponsor", "plan", "mark"},
                            of : Deliveries \cup {NoDelivery},
                            active : BOOLEAN, tier : Tiers, found : BOOLEAN, tester : BOOLEAN]]
    /\ lapse \in [Readers -> {"none", "registered", "sponsor"}]

\* The grant of an approval is not taken away before its 14 days, by no webhook,
\* sign-in or downgrade, unless one of them had read the row before the approval
\* wrote it: saveEntitlement (state/users.ts) keeps a running grant, upsertUser
\* touches free plans only, verify.ts downgrades lapsed grants only.  A revocation
\* ends the grant.
GrantHolds == granted > 0 => Effective = "early_tester"

\* Whoever is recorded as a sponsor of one of the two configured tiers, with a
\* verification that still counts, is served better than the free plan, across the
\* start and the end of a grant, provided no call that was to record something
\* else, or had found the plan lapsed, was under way when it was recorded
\* (state/users.ts, auth/verify.ts).  Revoking early access is the exception: it
\* leaves a tester on the free plan.  The sponsors of any other tier are served
\* the free plan (planForTier), and nothing is said of them.
SponsorCounts == sponsored > 0 => Effective # "registered"
=============================================================================
