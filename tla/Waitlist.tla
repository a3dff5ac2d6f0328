------------------------------- MODULE Waitlist -------------------------------
(***************************************************************************)
(* The early-access application of one user, with what an administrator    *)
(* does to it and the preview key the user draws from it                   *)
(* (apps/worker/src/waitlist.ts), over the plan that an approval grants and*)
(* a revocation takes away (Entitlements).  A batch of D1 statements is one*)
(* step; the check before it is another.                                   *)
(***************************************************************************)
EXTENDS Entitlements

CONSTANTS
    NoKey,
    Keys,          \* preview keys
    Admins,        \* administrators' calls at the same time
    Creators       \* the user's calls of createPreviewKey at the same time

ASSUME WaitlistAssumption == NoKey \notin Keys

VARIABLES
    status,    \* waitlist_applications.status; "none" before the application
    preview,   \* ticks left of preview_access_expires_at
    pointed,   \* preview_key_id
    live,      \* the preview keys whose api_keys row is active
    admin,     \* each administrator's call: its next step and what it knows
    make,      \* each creation: its next step, the old key and the new one
    slipped,   \* history: a write of `status` crossed an approval
    stray      \* history: keys whose creation crossed another, or a revocation

waitVars == <<status, preview, pointed, live, admin, make, slipped, stray>>
vars == <<entVars, waitVars>>

\* "open" stands for pending, reviewing and waitlisted: each may be approved, and
\* may be edited by its applicant.
Statuses == {"open", "approved", "rejected", "revoked"}

NoCall == [does |-> "nothing", to |-> "none", approved |-> FALSE, key |-> NoKey]
NoMake == [at |-> "idle", old |-> NoKey, new |-> NoKey, crossed |-> FALSE]

Init ==
    /\ EntInit
    /\ status = "none" /\ preview = 0 /\ pointed = NoKey /\ live = {}
    /\ admin = [a \in Admins |-> NoCall]
    /\ make = [c \in Creators |-> NoMake]
    /\ slipped = "no" /\ stray = {}

Cross(m) == IF m = NoMake THEN m ELSE [m EXCEPT !.crossed = TRUE]

-----------------------------------------------------------------------------
(* submitWaitlist: a second application changes the answers only *)

Submit ==
    /\ status = "none" /\ plan # "none"
    /\ status' = "open"
    /\ UNCHANGED <<entVars, preview, pointed, live, admin, make, slipped, stray>>

-----------------------------------------------------------------------------
(* The administrator: a check, then the write *)

\* Call a has checked the application and is to write: whether it was approved then.
Call(a, does, st, k) ==
    admin' = [admin EXCEPT ![a] = [does |-> does, to |-> st,
                                   approved |-> status = "approved", key |-> k]]

Rest(a) == admin' = [admin EXCEPT ![a] = NoCall]

\* Fault: an approved application is updated like any other.
CheckUpdateAny(a, st) ==
    /\ admin[a] = NoCall /\ status # "none"
    /\ Call(a, "update", st, NoKey)
    /\ UNCHANGED <<entVars, status, preview, pointed, live, make, slipped, stray>>

\* adminUpdate: 409 for an approved application, unless it stays so.
CheckUpdate(a, st) ==
    /\ admin[a] = NoCall /\ status # "none"
    /\ status = "approved" => st = "approved"
    /\ Call(a, "update", st, NoKey)
    /\ UNCHANGED <<entVars, status, preview, pointed, live, make, slipped, stray>>

Update(a) ==
    /\ admin[a].does = "update"
    /\ status' = admin[a].to
    /\ slipped' = IF status = "approved" /\ status' # "approved" /\ ~admin[a].approved
                THEN "update" ELSE slipped
    /\ Rest(a)
    /\ UNCHANGED <<entVars, preview, pointed, live, make, stray>>

CheckApprove(a) ==
    /\ admin[a] = NoCall /\ status = "open"
    /\ Call(a, "approve", "none", NoKey)
    /\ UNCHANGED <<entVars, status, preview, pointed, live, make, slipped, stray>>

\* The batch of approveWaitlist: a sponsor keeps the plan, and its expiry.
Approve(a) ==
    /\ admin[a].does = "approve"
    /\ IF plan = "sponsor"
       THEN UNCHANGED <<plan, expires, granted>>
       ELSE /\ plan' = "early_tester" /\ expires' = Grant
            /\ granted' = IF \/ \E s \in Savers : MissedGrant(s)
                             \/ \E r \in Readers : lapse[r] # "none"
                          THEN 0 ELSE Grant
    /\ status' = "approved" /\ preview' = Grant
    /\ slipped' = "no"
    /\ Rest(a)
    /\ UNCHANGED <<sponsor, tier, processed, save, lapse, sponsored, pointed, live, make, stray>>

\* revokeWaitlist reads the preview key of the application, whatever its status.
CheckRevoke(a) ==
    /\ admin[a] = NoCall /\ status # "none"
    /\ Call(a, "revoke", "none", pointed)
    /\ make' = [c \in Creators |-> Cross(make[c])]
    /\ UNCHANGED <<entVars, status, preview, pointed, live, slipped, stray>>

\* A saver that has read a running grant.
SawGrant(s) == save[s].at \in {"sponsor", "plan"} /\ save[s].tester

\* The batch of revokeWaitlist: a sponsor keeps the plan, and its expiry.
Revoke(a) ==
    /\ admin[a].does = "revoke"
    /\ IF plan \in {"none", "sponsor"}
       THEN UNCHANGED <<plan, expires>>
       ELSE plan' = "registered" /\ expires' = 0
    /\ granted' = 0
    /\ sponsored' = IF plan = "early_tester" THEN 0 ELSE sponsored
    /\ status' = "revoked"
    /\ live' = live \ {admin[a].key} /\ stray' = stray \ {admin[a].key}
    /\ slipped' = IF plan = "sponsor" /\ expires > 0 /\ \E s \in Savers : SawGrant(s)
                  THEN "revoke" ELSE "no"
    /\ Rest(a)
    /\ UNCHANGED <<sponsor, tier, processed, save, lapse, preview, pointed, make>>

AdminDies(a) ==
    /\ admin[a] # NoCall
    /\ Rest(a)
    /\ UNCHANGED <<entVars, status, preview, pointed, live, make, slipped, stray>>

-----------------------------------------------------------------------------
(* createPreviewKey: revoke the old key, insert a new one, point to it *)

\* No call knows of k: the identifier is new.
New(k) ==
    /\ k \notin live \cup {pointed}
    /\ \A c \in Creators : k # make[c].old
    /\ \A a \in Admins : k # admin[a].key

BeginMake(c) ==
    /\ make[c] = NoMake /\ status = "approved" /\ preview > 0
    /\ LET others == \E o \in Creators : make[o] # NoMake
           revoking == \E a \in Admins : admin[a].does = "revoke"
       IN  make' = [o \in Creators |->
                     IF o # c THEN Cross(make[o])
                     ELSE [at |-> IF pointed = NoKey THEN "insert" ELSE "revoke",
                           old |-> pointed, new |-> NoKey, crossed |-> others \/ revoking]]
    /\ UNCHANGED <<entVars, status, preview, pointed, live, admin, slipped, stray>>

\* Fault: the old key is not revoked.
RevokeOldNot(c) ==
    /\ make[c].at = "revoke"
    /\ make' = [make EXCEPT ![c].at = "insert"]
    /\ UNCHANGED <<entVars, status, preview, pointed, live, admin, slipped, stray>>

RevokeOld(c) ==
    /\ make[c].at = "revoke"
    /\ live' = live \ {make[c].old} /\ stray' = stray \ {make[c].old}
    /\ make' = [make EXCEPT ![c].at = "insert"]
    /\ UNCHANGED <<entVars, status, preview, pointed, admin, slipped>>

\* A random identifier: any new one will do.
Insert(c) ==
    /\ make[c].at = "insert" /\ \E k \in Keys : New(k)
    /\ LET k == CHOOSE k \in Keys : New(k)
       IN  /\ live' = live \cup {k}
           /\ make' = [make EXCEPT ![c].at = "point", ![c].new = k]
    /\ UNCHANGED <<entVars, status, preview, pointed, admin, slipped, stray>>

Point(c) ==
    /\ make[c].at = "point"
    /\ pointed' = make[c].new
    /\ stray' = IF make[c].crossed THEN stray \cup ({make[c].new, pointed} \cap live) ELSE stray
    /\ make' = [make EXCEPT ![c] = NoMake]
    /\ UNCHANGED <<entVars, status, preview, live, admin, slipped>>

\* A key inserted and not returned stays active, and nobody has it.
MakerDies(c) ==
    /\ make[c] # NoMake
    /\ stray' = stray \cup ({make[c].new} \cap live)
    /\ make' = [make EXCEPT ![c] = NoMake]
    /\ UNCHANGED <<entVars, status, preview, pointed, live, admin, slipped>>

-----------------------------------------------------------------------------
Administering ==
    \E a \in Admins :
        \/ (\E st \in Statuses : CheckUpdate(a, st)) \/ Update(a)
        \/ CheckApprove(a) \/ Approve(a)
        \/ CheckRevoke(a) \/ Revoke(a) \/ AdminDies(a)

Creating ==
    \E c \in Creators :
        \/ BeginMake(c) \/ RevokeOld(c) \/ Insert(c)
        \/ Point(c) \/ MakerDies(c)

Tick ==
    /\ EntTick
    /\ preview' = Less(preview)
    /\ UNCHANGED <<status, pointed, live, admin, make, slipped, stray>>

Next ==
    \/ (Saving \/ Reading) /\ UNCHANGED waitVars
    \/ Submit \/ Administering \/ Creating \/ Tick

Spec == Init /\ [][Next]_vars

-----------------------------------------------------------------------------
TypeOK ==
    /\ EntTypeOK
    /\ status \in Statuses \cup {"none"} /\ preview \in 0..Grant
    /\ pointed \in Keys \cup {NoKey} /\ live \subseteq Keys /\ stray \subseteq live
    /\ admin \in [Admins -> [does : {"nothing", "update", "approve", "revoke"},
                             to : Statuses \cup {"none"}, approved : BOOLEAN,
                             key : Keys \cup {NoKey}]]
    /\ make \in [Creators -> [at : {"idle", "revoke", "insert", "point"},
                              old : Keys \cup {NoKey}, new : Keys \cup {NoKey},
                              crossed : BOOLEAN]]
    /\ slipped \in {"no", "update", "revoke"}

\* Whoever is served as an early tester has an approved application, so that an
\* administrator sees it: updates refuse approved applications, and revoking takes
\* the plan and its expiry together, so that a saver that read the grant before
\* cannot bring it back (waitlist.ts:38, :41).  Two crossings are excepted: an
\* update that was checked before the approval, and a saver that read the grant
\* when a revocation then met a sponsor's plan with the grant's expiry still on it.
TesterIsApproved ==
    Effective = "early_tester" => status = "approved" \/ slipped # "no"

\* A preview key that works is the one the application points to, and the
\* application is approved: creating one revokes the last, revoking the
\* application revokes it (waitlist.ts:40-41).  Excepted are keys whose creation
\* crossed another one or a revocation, or died.
PreviewKeyAccounted ==
    \A k \in live :
        \/ k \in stray
        \/ \E c \in Creators : k \in {make[c].old, make[c].new}
        \/ k = pointed /\ (status = "approved" \/ slipped = "update")
=============================================================================
