---------------------------- MODULE WaitlistProofs ----------------------------
(***************************************************************************)
(* Plans, applications and preview keys of one user, for every number of   *)
(* savers, readers, administrators and creations at the same time, every   *)
(* number of deliveries and keys and every length of grant and sponsorship.*)
(*                                                                         *)
(* None of the four properties is inductive: each says what the rows hold  *)
(* now, and what they hold next depends on what some call read before.     *)
(* The invariant says of every call under way what it cannot have read, or *)
(* what it is excused for.                                                 *)
(***************************************************************************)
EXTENDS Waitlist, TLAPS

-----------------------------------------------------------------------------
(* The inductive invariant. *)

\* A row exists once a sign-in has stored the user, and it is updated only if it was
\* found; only a delivery is marked.
Saves ==
    /\ \A s \in Savers :
        /\ save[s].at \in {"stored", "restore"} => plan # "none"
        /\ save[s].at = "plan" => save[s].found
        /\ save[s].at = "mark" => save[s].of \in Deliveries
    /\ plan = "none" => expires = 0

\* While a grant must hold, nobody who might overwrite it has missed it.
Granted ==
    granted > 0 =>
        /\ plan = "early_tester" /\ granted <= expires
        /\ \A s \in Savers : ~MissedGrant(s)
        /\ \A r \in Readers : lapse[r] = "none"

\* While a sponsorship must count, whoever would end it has yet to say so in the
\* sponsor's row, which is when it stops counting.
Sponsored ==
    sponsored > 0 =>
        /\ plan \in {"early_tester", "sponsor"} /\ sponsored <= sponsor /\ tier = "configured"
        /\ \A s \in Savers : save[s].at = "plan" => Vouches(s)
        /\ \A r \in Readers : lapse[r] # "registered"

\* Without an approval there is no grant, and nobody who remembers one that could
\* still be written back.
Approved ==
    slipped = "no" /\ status # "approved" =>
        /\ ~(plan = "early_tester" /\ expires > 0)
        /\ expires > 0 => \A s \in Savers : ~SawGrant(s)

\* An update that saw the approval leaves it.
Updates == \A a \in Admins : admin[a].does = "update" /\ admin[a].approved => admin[a].to = "approved"

\* A key is new to its creation until it is inserted, and the old one is revoked by then.
Makes ==
    \A c \in Creators :
        /\ make[c].at \in {"idle", "revoke", "insert"} => make[c].new = NoKey
        /\ make[c].at \in {"insert", "point"} => make[c].old \notin live

Good == status = "approved" \/ slipped = "update"

\* A creation that was not crossed is alone, and replaces the key pointed to.
Alone ==
    \A c \in Creators :
        make[c] # NoMake /\ ~make[c].crossed =>
            /\ pointed = make[c].old
            /\ \A o \in Creators \ {c} : make[o] = NoMake
            /\ \A a \in Admins : admin[a].does # "revoke"
            /\ Good

\* A revocation knows the key pointed to, unless a creation has crossed it.
Revokes ==
    \A a \in Admins :
        admin[a].does = "revoke" => admin[a].key = pointed \/ pointed \in stray \/ pointed \notin live

\* PreviewKeyAccounted without the keys that are being replaced.
Accounted ==
    \A k \in live :
        k \in stray \/ (\E c \in Creators : k = make[c].new) \/ (k = pointed /\ Good)

WaitlistInv ==
    /\ TypeOK
    /\ Saves /\ Granted /\ Sponsored
    /\ Approved /\ Updates
    /\ Makes /\ Alone /\ Revokes /\ Accounted
-----------------------------------------------------------------------------
(* What the calls know: the records of savers, administrators and creations. *)

Step == {"idle", "stored", "restore", "ask", "read", "sponsor", "plan", "mark"}

Knowledge == [at : Step, of : Deliveries \cup {NoDelivery},
              active : BOOLEAN, tier : Tiers, found : BOOLEAN, tester : BOOLEAN]

Order == [does : {"nothing", "update", "approve", "revoke"}, to : Statuses \cup {"none"},
          approved : BOOLEAN, key : Keys \cup {NoKey}]

Making == [at : {"idle", "revoke", "insert", "point"},
           old : Keys \cup {NoKey}, new : Keys \cup {NoKey}, crossed : BOOLEAN]

\* The rows and calls of TypeOK under these names.
LEMMA Types ==
  TypeOK <=> /\ plan \in Plans \cup {"none"}
             /\ expires \in 0..Grant /\ granted \in 0..Grant
             /\ sponsor \in 0..Window /\ sponsored \in 0..Window /\ tier \in Tiers
             /\ processed \subseteq Deliveries
             /\ save \in [Savers -> Knowledge]
             /\ lapse \in [Readers -> {"none", "registered", "sponsor"}]
             /\ status \in Statuses \cup {"none"} /\ preview \in 0..Grant
             /\ pointed \in Keys \cup {NoKey} /\ live \subseteq Keys /\ stray \subseteq live
             /\ admin \in [Admins -> Order]
             /\ make \in [Creators -> Making]
             /\ slipped \in {"no", "update", "revoke"}
  BY Zenon DEF TypeOK, EntTypeOK, Knowledge, Step, Order, Making

\* Time left is time left, and the lengths are positive.
LEMMA Lengths ==
  /\ Window \in Nat \ {0} /\ Grant \in Nat \ {0}
  /\ \A n \in Nat : Less(n) \in Nat /\ Less(n) <= n /\ (n > 0 => Less(n) = n - 1) /\ Less(0) = 0
  BY EntitlementAssumption DEF EntitlementAssumption, Less

\* A configured tier has a plan, any other the free one.
LEMMA PlanOfTier ==
  /\ planForTier("configured") = "sponsor"
  /\ \A t \in Tiers : planForTier(t) \in {"sponsor", "registered"}
  /\ "configured" \in Tiers /\ "other" \in Tiers
  BY DEF planForTier, Tiers

\* Nobody, and what an idle call knows.
LEMMA Blank == Idle \in Knowledge /\ NoCall \in Order /\ NoMake \in Making
  BY DEF Idle, NoCall, NoMake, Knowledge, Step, Tiers, Order, Making, Statuses

\* A saver that goes on to another step knows what it knew.
LEMMA GotoType ==
  ASSUME save \in [Savers -> Knowledge], NEW s \in Savers, NEW step \in Step, Goto(s, step)
  PROVE  /\ save' \in [Savers -> Knowledge]
         /\ \A t \in Savers \ {s} : save'[t] = save[t]
         /\ save'[s].at = step
         /\ save'[s].active = save[s].active
         /\ save'[s].tier = save[s].tier
         /\ save'[s].found = save[s].found
         /\ save'[s].tester = save[s].tester
<1>1. [save[s] EXCEPT !.at = step] \in Knowledge
  BY DEF Knowledge
<1>2. save' = [save EXCEPT ![s] = [save[s] EXCEPT !.at = step]]
  BY DEF Goto
<1>3. QED
  BY <1>1, <1>2 DEF Knowledge

\* A saver that starts over, or knows something else.
LEMMA KnowType ==
  ASSUME save \in [Savers -> Knowledge], NEW s \in Savers, NEW x \in Knowledge,
         save' = [save EXCEPT ![s] = x]
  PROVE  /\ save' \in [Savers -> Knowledge]
         /\ \A t \in Savers \ {s} : save'[t] = save[t]
         /\ save'[s] = x
  OBVIOUS

\* A saver that begins to save what it was told: by GitHub, or by a delivery.
LEMMA ToldType ==
  ASSUME NEW s \in Savers, NEW d \in Deliveries \cup {NoDelivery}, NEW a \in BOOLEAN,
         NEW t \in Tiers, Told(s, d, a, t)
  PROVE  \E x \in Knowledge : save' = [save EXCEPT ![s] = x] /\ x.at = "read"
<1> DEFINE x == [Idle EXCEPT !.at = "read", !.of = d, !.active = a, !.tier = t]
<1>1. x \in Knowledge /\ x.at = "read"
  BY Blank DEF Knowledge, Step
<1>2. save' = [save EXCEPT ![s] = x]
  BY DEF Told
<1> HIDE DEF x
<1>3. QED
  BY <1>1, <1>2

\* What a saver has read of the row.
LEMMA ReadType ==
  ASSUME save \in [Savers -> Knowledge], NEW s \in Savers, ReadPlan(s)
  PROVE  /\ save' \in [Savers -> Knowledge]
         /\ \A t \in Savers \ {s} : save'[t] = save[t]
         /\ save'[s].at = "sponsor"
         /\ save'[s].active = save[s].active
         /\ save'[s].tier = save[s].tier
         /\ save'[s].found = (plan # "none")
         /\ save'[s].tester = (plan = "early_tester" /\ expires > 0)
<1> DEFINE x == [save[s] EXCEPT !.at = "sponsor", !.found = plan # "none",
                                !.tester = plan = "early_tester" /\ expires > 0]
<1>1. save' = [save EXCEPT ![s] = x]
  BY DEF ReadPlan
<1>2. save[s] \in Knowledge
  OBVIOUS
<1>3. x \in Knowledge
  BY <1>2 DEF Knowledge, Step
<1>4. /\ x.at = "sponsor" /\ x.active = save[s].active /\ x.tier = save[s].tier
      /\ x.found = (plan # "none")
      /\ x.tester = (plan = "early_tester" /\ expires > 0)
  BY <1>2 DEF Knowledge
<1> HIDE DEF x
<1>5. QED
  BY <1>1, <1>3, <1>4, KnowType

\* A saver that has saved rests, or has its delivery to mark.
LEMMA SavedType ==
  ASSUME save \in [Savers -> Knowledge], NEW s \in Savers, Saved(s)
  PROVE  /\ save' \in [Savers -> Knowledge]
         /\ \A t \in Savers \ {s} : save'[t] = save[t]
         /\ save'[s].at = "idle" \/ (save'[s].at = "mark" /\ save'[s].of \in Deliveries)
<1> DEFINE x == IF save[s].of = NoDelivery THEN Idle ELSE [save[s] EXCEPT !.at = "mark"]
<1>1. save' = [save EXCEPT ![s] = x]
  BY DEF Saved
<1>2. save[s] \in Knowledge
  OBVIOUS
<1>3. /\ [save[s] EXCEPT !.at = "mark"] \in Knowledge
      /\ [save[s] EXCEPT !.at = "mark"].at = "mark"
      /\ [save[s] EXCEPT !.at = "mark"].of = save[s].of
      /\ save[s].of \in Deliveries \cup {NoDelivery}
  BY <1>2 DEF Knowledge, Step
<1>4. Idle \in Knowledge /\ Idle.at = "idle"
  BY Blank DEF Idle
<1>5. x \in Knowledge /\ (x.at = "idle" \/ (x.at = "mark" /\ x.of \in Deliveries))
  BY <1>3, <1>4
<1> HIDE DEF x
<1>6. QED
  BY <1>1, <1>5, KnowType

\* A saver's step is one of its own: what the others know stays as it is.  It reads
\* the plan in one step only, and then as it is.
LEMMA SaverStep ==
  ASSUME TypeOK, NEW s \in Savers,
         \/ SignIn(s) \/ ReadSponsor(s) \/ Restore(s) \/ Ask(s)
         \/ (\E d \in Deliveries : Deliver(s, d)) \/ Mark(s)
         \/ ReadPlan(s) \/ WriteSponsor(s) \/ WritePlan(s) \/ Die(s)
  PROVE  /\ save' \in [Savers -> Knowledge]
         /\ \A t \in Savers \ {s} : save'[t] = save[t]
         /\ \/ save'[s].at \in {"idle", "ask", "read"}
            \/ save'[s].at = "stored" /\ SignIn(s)
            \/ save'[s].at = "restore" /\ save[s].at = "stored" /\ plan' = plan
            \/ save'[s].at = "mark" /\ save'[s].of \in Deliveries
            \/ ReadPlan(s) /\ save'[s].at = "sponsor"
            \/ WriteSponsor(s) /\ save[s].at = "sponsor" /\ save[s].found
               /\ save'[s].at = "plan" /\ save'[s].found = save[s].found
               /\ save'[s].active = save[s].active /\ save'[s].tier = save[s].tier
               /\ save'[s].tester = save[s].tester
<1>1. save \in [Savers -> Knowledge]
  BY Types
<1>2. CASE SignIn(s) \/ Restore(s)
  <2>1. \E step \in Step : Goto(s, step) /\ (step = "ask" \/ (step = "stored" /\ SignIn(s)))
    BY <1>2 DEF SignIn, Restore, Step
  <2>2. QED
    BY <1>1, <2>1, GotoType
<1>8. CASE ReadSponsor(s)
  <2> DEFINE x == [save[s] EXCEPT !.at = IF sponsor > 0 THEN "restore" ELSE "ask", !.tier = tier]
  <2>1. save' = [save EXCEPT ![s] = x] /\ save[s].at = "stored" /\ plan' = plan
    BY <1>8 DEF ReadSponsor, rows
  <2>2. x \in Knowledge /\ x.at \in {"restore", "ask"}
    BY <1>1, Types DEF Knowledge, Step
  <2> HIDE DEF x
  <2>3. QED
    BY <1>1, <2>1, <2>2, KnowType
<1>3. CASE Ask(s) \/ (\E d \in Deliveries : Deliver(s, d)) \/ Mark(s) \/ Die(s)
  <2>1. Idle \in Knowledge /\ Idle.at = "idle"
    BY Blank DEF Idle
  <2>2. \E x \in Knowledge : save' = [save EXCEPT ![s] = x] /\ x.at \in {"idle", "read"}
    <3>1. CASE Ask(s)
      <4>1. "other" \in Tiers
        BY DEF Tiers
      <4>2. QED
        BY <2>1, <3>1, <4>1, ToldType DEF Ask
    <3>2. CASE \E d \in Deliveries : Deliver(s, d)
      <4>1. PICK d \in Deliveries : Deliver(s, d)
        BY <3>2
      <4>2. (d \in Active) \in BOOLEAN /\ TierOf[d] \in Tiers
        BY EntitlementAssumption DEF EntitlementAssumption, Tiers
      <4>3. QED
        BY <4>1, <4>2, ToldType DEF Deliver
    <3>3. CASE Mark(s) \/ Die(s)
      BY <2>1, <3>3 DEF Mark, Die
    <3>4. QED
      BY <1>3, <3>1, <3>2, <3>3
  <2>3. QED
    BY <1>1, <2>2, KnowType
<1>4. CASE ReadPlan(s)
  BY <1>1, <1>4, ReadType
<1>5. CASE WriteSponsor(s)
  <2>1. save[s].found \in BOOLEAN
    BY <1>1 DEF Knowledge
  <2>2. CASE save[s].found
    BY <1>1, <1>5, <2>2, GotoType DEF WriteSponsor, Step
  <2>3. CASE ~save[s].found
    BY <1>1, <1>5, <2>3, SavedType DEF WriteSponsor
  <2>4. QED
    BY <2>2, <2>3
<1>6. CASE WritePlan(s)
  BY <1>1, <1>6, SavedType DEF WritePlan
<1>7. QED
  BY <1>2, <1>3, <1>4, <1>5, <1>6, <1>8

-----------------------------------------------------------------------------
(* A step of a saver. *)

SaverDoes(s) ==
    \/ SignIn(s) \/ ReadSponsor(s) \/ Restore(s) \/ Ask(s)
    \/ (\E d \in Deliveries : Deliver(s, d)) \/ Mark(s)
    \/ ReadPlan(s) \/ WriteSponsor(s) \/ WritePlan(s) \/ Die(s)

\* What a saver's step does to the rows.
LEMMA SaverRows ==
  ASSUME WaitlistInv, NEW s \in Savers, SaverDoes(s)
  PROVE  /\ \/ plan' = plan /\ expires' = expires /\ sponsored' \in {sponsored, 0}
            \/ SignIn(s) \/ Restore(s) \/ WritePlan(s)
         /\ \/ sponsor' = sponsor /\ tier' = tier /\ sponsored' = sponsored
            \/ WriteSponsor(s) \/ Restore(s) \/ WritePlan(s)
         /\ lapse' = lapse /\ granted' = granted
         /\ plan' = "none" => plan = "none" /\ expires' = expires
  BY DEF WaitlistInv, Saves, SaverDoes, SignIn, ReadSponsor, Restore, Ask, Deliver, Mark, ReadPlan,
         WriteSponsor, WritePlan, Die, Told, planForTier, rows, history

\* The rows stay in their types.
LEMMA SaverTypes ==
  ASSUME WaitlistInv, NEW s \in Savers, SaverDoes(s), UNCHANGED waitVars
  PROVE  TypeOK'
<1>1. TypeOK
  BY DEF WaitlistInv
<1>2. save' \in [Savers -> Knowledge]
  BY <1>1, SaverStep DEF SaverDoes
<1>3. /\ plan' \in Plans \cup {"none"}
      /\ expires' \in 0..Grant
      /\ sponsor' \in 0..Window /\ sponsored' \in 0..Window /\ tier' \in Tiers
  <2>1. /\ plan \in Plans \cup {"none"} /\ expires \in 0..Grant /\ tier \in Tiers
        /\ save[s].tier \in Tiers /\ planForTier(save[s].tier) \in Plans
        /\ sponsor \in 0..Window /\ sponsored \in 0..Window
        /\ 0 \in 0..Grant /\ 0 \in 0..Window /\ Window \in 0..Window
    BY <1>1, Types, Lengths, PlanOfTier DEF Knowledge, Plans
  <2>2. CASE SignIn(s) \/ Restore(s) \/ WritePlan(s)
    BY <2>1, <2>2 DEF SignIn, Restore, WritePlan, Plans, rows, history
  <2>3. CASE ~(SignIn(s) \/ Restore(s) \/ WritePlan(s))
    <3>1. sponsor' \in {sponsor, 0, Window} /\ tier' \in {tier, save[s].tier}
      BY <2>3, SaverRows DEF WriteSponsor
    <3>2. QED
      BY <2>1, <2>3, <3>1, SaverRows
  <2>4. QED
    BY <2>2, <2>3
<1>4. processed' \subseteq Deliveries
  <2>1. CASE Mark(s)
    <3>1. save[s].of \in Deliveries
      BY <2>1 DEF Mark, WaitlistInv, Saves
    <3>2. QED
      BY <1>1, <2>1, <3>1, Types DEF Mark
  <2>2. CASE ~Mark(s)
    BY <1>1, <2>2, Types DEF SaverDoes, SignIn, ReadSponsor, Restore, Ask, Deliver, ReadPlan,
         WriteSponsor, WritePlan, Die
  <2>3. QED
    BY <2>1, <2>2
<1>5. lapse' = lapse /\ granted' = granted
  BY SaverRows
<1>6. QED
  BY <1>1, <1>2, <1>3, <1>4, <1>5 DEF TypeOK, EntTypeOK, Knowledge, Step, waitVars

\* A saver at the second step of its save has come to it by WriteSponsor.
LEMMA SaverSaves ==
  ASSUME WaitlistInv, NEW s \in Savers, SaverDoes(s)
  PROVE  Saves'
<1>1. \A t \in Savers \ {s} : save'[t] = save[t]
  BY SaverStep DEF WaitlistInv, SaverDoes
<1>2. plan # "none" => plan' # "none"
  BY SaverRows
<1>3. /\ save'[s].at \in {"stored", "restore"} => plan' # "none"
      /\ save'[s].at = "plan" => save'[s].found
      /\ save'[s].at = "mark" => save'[s].of \in Deliveries
  BY SaverStep DEF WaitlistInv, Saves, SaverDoes, SignIn
<1>4. plan' = "none" => expires' = 0
  BY SaverRows DEF WaitlistInv, Saves
<1>5. QED
  BY <1>1, <1>2, <1>3, <1>4 DEF WaitlistInv, Saves

\* Whoever writes the plan has found the grant, and leaves it.
LEMMA SaverGranted ==
  ASSUME WaitlistInv, NEW s \in Savers, SaverDoes(s)
  PROVE  Granted'
<1> SUFFICES ASSUME granted' > 0
             PROVE  /\ plan' = "early_tester" /\ granted' <= expires'
                    /\ \A t \in Savers : ~MissedGrant(t)'
                    /\ \A r \in Readers : lapse'[r] = "none"
  BY DEF Granted
<1>1. granted' = granted /\ lapse' = lapse
  BY SaverRows
<1>2. /\ plan = "early_tester" /\ granted <= expires /\ expires \in Nat /\ granted \in Nat
      /\ \A t \in Savers : ~MissedGrant(t)
      /\ \A r \in Readers : lapse[r] = "none"
  BY <1>1, Types, Lengths DEF WaitlistInv, Granted
<1>3. plan' = "early_tester" /\ expires' = expires
  <2>1. CASE SignIn(s) \/ Restore(s)
    BY <1>2, <2>1 DEF SignIn, Restore
  <2>2. CASE WritePlan(s)
    <3>1. save[s].at = "plan" /\ save[s].found
      BY <2>2 DEF WritePlan, WaitlistInv, Saves
    <3>2. save[s].tester
      BY <1>2, <3>1 DEF MissedGrant
    <3>3. QED
      BY <2>2, <3>2 DEF WritePlan
  <2>3. CASE ~(SignIn(s) \/ Restore(s) \/ WritePlan(s))
    BY <1>2, <2>3, SaverRows
  <2>4. QED
    BY <2>1, <2>2, <2>3
<1>4. ~MissedGrant(s)'
  <2>1. CASE ReadPlan(s)
    BY <1>1, <1>2, <2>1, ReadType, Types DEF WaitlistInv, MissedGrant
  <2>2. CASE ~ReadPlan(s)
    BY <1>2, <2>2, SaverStep DEF WaitlistInv, MissedGrant, SaverDoes
  <2>3. QED
    BY <2>1, <2>2
<1>5. \A t \in Savers \ {s} : save'[t] = save[t]
  BY SaverStep DEF WaitlistInv, SaverDoes
<1>6. QED
  BY <1>1, <1>2, <1>3, <1>4, <1>5 DEF MissedGrant

\* Whoever writes the plan says what the sponsor's row has said before; whoever ends
\* the sponsorship there ends the count.
LEMMA SaverSponsored ==
  ASSUME WaitlistInv, NEW s \in Savers, SaverDoes(s)
  PROVE  Sponsored'
<1> SUFFICES ASSUME sponsored' > 0
             PROVE  /\ plan' \in {"early_tester", "sponsor"} /\ sponsored' <= sponsor'
                    /\ tier' = "configured"
                    /\ \A t \in Savers : save'[t].at = "plan" => Vouches(t)'
                    /\ \A r \in Readers : lapse'[r] # "registered"
  BY DEF Sponsored
<1>1. /\ \A t \in Savers \ {s} : save'[t] = save[t]
      /\ lapse' = lapse
      /\ plan \in Plans \cup {"none"}
      /\ sponsor \in Nat /\ sponsored \in Nat /\ sponsor <= Window /\ Window \in Nat
      /\ save \in [Savers -> Knowledge]
  BY SaverStep, SaverRows, Types, Lengths DEF WaitlistInv, SaverDoes
<1>2. /\ sponsored > 0 => /\ plan \in {"early_tester", "sponsor"} /\ sponsored <= sponsor
                          /\ tier = "configured"
                          /\ \A t \in Savers : save[t].at = "plan" => Vouches(t)
                          /\ \A r \in Readers : lapse[r] # "registered"
  BY DEF WaitlistInv, Sponsored
<1> DEFINE counts == {save[s].tier, tier} = {"configured"} /\ NoneEnds(s)
<1>3. CASE Restore(s) /\ counts
  <2>1. plan # "none"
    BY <1>3 DEF Restore, WaitlistInv, Saves
  <2>2. save[s].tier = "configured" /\ tier = "configured" /\ tier' = tier
    BY <1>3 DEF Restore
  <2>3. plan' \in {"early_tester", "sponsor"} /\ sponsored' = sponsor /\ sponsor' = sponsor
    BY <1>1, <1>3, <2>1, <2>2, PlanOfTier DEF Restore, Plans
  <2>4. save'[s].at = "ask"
    BY <1>1, <1>3, GotoType DEF Restore, Step
  <2>5. \A t \in Savers \ {s} : save[t].at = "plan" => Vouches(t)
    BY <1>3 DEF NoneEnds, Ending
  <2>6. \A r \in Readers : lapse[r] # "registered"
    BY <1>3 DEF NoneEnds
  <2>7. QED
    BY <1>1, <2>2, <2>3, <2>4, <2>5, <2>6 DEF Vouches
<1>4. CASE Restore(s) /\ ~counts
  <2>1. sponsored > 0 /\ sponsored' = sponsored /\ sponsor' = sponsor /\ tier' = tier
    BY <1>4 DEF Restore
  <2>2. plan' = plan
    BY <1>2, <1>4, <2>1 DEF Restore
  <2>3. save'[s].at = "ask"
    BY <1>1, <1>4, GotoType DEF Restore, Step
  <2>4. QED
    BY <1>1, <1>2, <2>1, <2>2, <2>3 DEF Vouches
<1>5. CASE WriteSponsor(s)
  <2>1. /\ Vouches(s) /\ sponsored' = sponsored /\ sponsor' = Window /\ plan' = plan
        /\ tier' = "configured"
    BY <1>1, <1>5 DEF WriteSponsor, Vouches
  <2>2. save'[s].at = "plan" => Vouches(s)'
    BY <1>5, <2>1, SaverStep DEF WaitlistInv, SaverDoes, Vouches
  <2>3. QED
    BY <1>1, <1>2, <2>1, <2>2 DEF Vouches
<1>6. CASE WritePlan(s)
  <2>1. /\ sponsor' = sponsor /\ tier' = tier
        /\ save'[s].at # "plan" /\ save[s].at = "plan"
    BY <1>1, <1>6, SavedType DEF WritePlan
  <2>2. CASE Vouches(s) /\ tier = "configured" /\ NoneEnds(s)
    <3>1. plan' \in {"early_tester", "sponsor"} /\ sponsored' = sponsor
      BY <1>6, <2>2, PlanOfTier DEF WritePlan, Vouches
    <3>2. \A t \in Savers \ {s} : save[t].at = "plan" => Vouches(t)
      BY <2>2 DEF NoneEnds, Ending
    <3>3. \A r \in Readers : lapse[r] # "registered"
      BY <2>2 DEF NoneEnds
    <3>4. QED
      BY <1>1, <2>1, <2>2, <3>1, <3>2, <3>3 DEF Vouches
  <2>3. CASE ~(Vouches(s) /\ tier = "configured" /\ NoneEnds(s))
    <3>1. sponsored' = sponsored
      BY <1>6, <2>3 DEF WritePlan
    <3>2. Vouches(s)
      BY <1>2, <2>1, <3>1
    <3>3. plan' \in {"early_tester", "sponsor"}
      BY <1>6, <3>2, PlanOfTier DEF WritePlan, Vouches
    <3>4. QED
      BY <1>1, <1>2, <2>1, <3>1, <3>3 DEF Vouches
  <2>4. QED
    BY <2>2, <2>3
<1>7. CASE ~(Restore(s) \/ WriteSponsor(s) \/ WritePlan(s))
  <2>1. sponsor' = sponsor /\ tier' = tier /\ sponsored' = sponsored
    BY <1>7, SaverRows
  <2>2. save'[s].at # "plan"
    BY <1>7, SaverStep DEF WaitlistInv, SaverDoes
  <2>3. plan' = plan
    <3>1. CASE SignIn(s)
      BY <1>2, <2>1, <3>1 DEF SignIn
    <3>2. CASE ~SignIn(s)
      BY <1>7, <3>2, SaverRows
    <3>3. QED
      BY <3>1, <3>2
  <2>4. QED
    BY <1>1, <1>2, <2>1, <2>2, <2>3 DEF Vouches
<1>8. QED
  BY <1>3, <1>4, <1>5, <1>6, <1>7

\* Whoever remembers a grant that is gone finds no expiry to write it back to.
LEMMA SaverApproved ==
  ASSUME WaitlistInv, NEW s \in Savers, SaverDoes(s), UNCHANGED waitVars
  PROVE  Approved'
<1> SUFFICES ASSUME slipped = "no", status # "approved"
             PROVE  /\ ~(plan' = "early_tester" /\ expires' > 0)
                    /\ expires' > 0 => \A t \in Savers : ~SawGrant(t)'
  BY DEF Approved, waitVars
<1>1. /\ ~(plan = "early_tester" /\ expires > 0)
      /\ expires > 0 => \A t \in Savers : ~SawGrant(t)
  BY DEF WaitlistInv, Approved
<1>2. \A t \in Savers \ {s} : save'[t] = save[t]
  BY SaverStep DEF WaitlistInv, SaverDoes
<1>3. expires' > 0 => expires > 0
  BY SaverRows DEF SignIn, Restore, WritePlan
<1>4. ~(plan' = "early_tester" /\ expires' > 0)
  <2>1. CASE SignIn(s) \/ Restore(s)
    BY <1>1, <2>1 DEF SignIn, Restore, planForTier
  <2>2. CASE WritePlan(s)
    BY <1>1, <1>3, <2>2 DEF WritePlan, SawGrant, planForTier
  <2>3. CASE ~(SignIn(s) \/ Restore(s) \/ WritePlan(s))
    BY <1>1, <2>3, SaverRows
  <2>4. QED
    BY <2>1, <2>2, <2>3
<1>5. expires' > 0 => ~SawGrant(s)'
  <2>1. CASE ReadPlan(s)
    BY <1>1, <1>3, <2>1, ReadType, Types DEF WaitlistInv, SawGrant
  <2>2. CASE ~ReadPlan(s)
    BY <1>1, <1>3, <2>2, SaverStep DEF WaitlistInv, SawGrant, SaverDoes
  <2>3. QED
    BY <2>1, <2>2
<1>6. QED
  BY <1>1, <1>2, <1>3, <1>4, <1>5 DEF SawGrant

\* Applications, keys and their calls are left alone.
LEMMA WaitUnchanged ==
  ASSUME WaitlistInv, UNCHANGED waitVars
  PROVE  Updates' /\ Makes' /\ Alone' /\ Revokes' /\ Accounted'
<1>1. Updates' /\ Makes'
  BY DEF WaitlistInv, waitVars, Updates, Makes
<1>2. Alone'
  BY DEF WaitlistInv, waitVars, Alone, Good
<1>3. Revokes'
  BY DEF WaitlistInv, waitVars, Revokes
<1>4. Accounted'
  BY DEF WaitlistInv, waitVars, Accounted, Good
<1>5. QED
  BY <1>1, <1>2, <1>3, <1>4

LEMMA SavingStep ==
  ASSUME WaitlistInv, Saving, UNCHANGED waitVars
  PROVE  WaitlistInv'
<1>1. PICK s \in Savers : SaverDoes(s)
  BY DEF Saving, SaverDoes
<1>2. QED
  BY <1>1, SaverTypes, SaverSaves, SaverGranted, SaverSponsored, SaverApproved, WaitUnchanged
     DEF WaitlistInv

-----------------------------------------------------------------------------
(* A step of a reader. *)

ReaderDoes(r) == Notice(r) \/ Downgrade(r) \/ GiveUp(r)

\* A reader notices a plan that is served as another, and never a grant that runs.
LEMMA ReaderStep ==
  ASSUME TypeOK, NEW r \in Readers, ReaderDoes(r)
  PROVE  /\ lapse' \in [Readers -> {"none", "registered", "sponsor"}]
         /\ \A q \in Readers \ {r} : lapse'[q] = lapse[q]
         /\ \/ /\ lapse[r] = "none" /\ lapse'[r] = Effective /\ UNCHANGED rows
               /\ plan \in {"early_tester", "sponsor"} /\ Effective # plan
            \/ lapse[r] # "none" /\ lapse'[r] = "none" /\ plan' = lapse[r] /\ expires' = 0
            \/ lapse[r] # "none" /\ lapse'[r] = "none" /\ UNCHANGED <<plan, expires>>
         /\ UNCHANGED <<sponsor, tier, processed, save, history>>
<1>1. lapse \in [Readers -> {"none", "registered", "sponsor"}]
  BY Types
<1>2. CASE Notice(r)
  <2>1. Effective \in {"registered", "sponsor"}
    BY <1>2, Types, PlanOfTier DEF Notice, Effective
  <2>2. QED
    BY <1>1, <1>2, <2>1 DEF Notice, rows
<1>3. CASE Downgrade(r) \/ GiveUp(r)
  BY <1>1, <1>3 DEF Downgrade, GiveUp, rows
<1>4. QED
  BY <1>2, <1>3 DEF ReaderDoes

LEMMA ReadingStep ==
  ASSUME WaitlistInv, Reading, UNCHANGED waitVars
  PROVE  WaitlistInv'
<1>1. PICK r \in Readers : ReaderDoes(r)
  BY DEF Reading, ReaderDoes
<1>2. /\ TypeOK
      /\ lapse' \in [Readers -> {"none", "registered", "sponsor"}]
      /\ \A q \in Readers \ {r} : lapse'[q] = lapse[q]
      /\ \/ /\ lapse[r] = "none" /\ lapse'[r] = Effective /\ plan' = plan /\ expires' = expires
            /\ plan \in {"early_tester", "sponsor"} /\ Effective # plan
         \/ lapse[r] # "none" /\ lapse'[r] = "none" /\ plan' = lapse[r] /\ expires' = 0
         \/ lapse[r] # "none" /\ lapse'[r] = "none" /\ plan' = plan /\ expires' = expires
      /\ sponsor' = sponsor /\ tier' = tier /\ processed' = processed /\ save' = save
      /\ granted' = granted /\ sponsored' = sponsored
  BY <1>1, ReaderStep DEF WaitlistInv, rows, history
<1>3. /\ plan \in Plans \cup {"none"}
      /\ expires \in Nat /\ granted \in Nat /\ sponsor \in Nat /\ sponsored \in Nat
      /\ lapse \in [Readers -> {"none", "registered", "sponsor"}]
      /\ 0 \in 0..Grant
  BY <1>2, Types, Lengths
<1>4. TypeOK'
  <2>1. plan' \in Plans \cup {"none"} /\ expires' \in 0..Grant
    BY <1>2, <1>3, Types DEF Plans
  <2>2. QED
    BY <1>2, <2>1 DEF TypeOK, EntTypeOK, waitVars
<1>5. Saves'
  BY <1>2, <1>3 DEF WaitlistInv, Saves
<1>6. Granted'
  <2> SUFFICES ASSUME granted > 0
               PROVE  /\ plan' = "early_tester" /\ granted <= expires'
                      /\ \A s \in Savers : ~MissedGrant(s)'
                      /\ \A q \in Readers : lapse'[q] = "none"
    BY <1>2 DEF Granted
  <2>1. /\ plan = "early_tester" /\ granted <= expires
        /\ \A s \in Savers : ~MissedGrant(s)
        /\ \A q \in Readers : lapse[q] = "none"
    BY DEF WaitlistInv, Granted
  <2>2. Effective = plan
    BY <1>3, <2>1 DEF Effective
  <2>3. QED
    BY <1>2, <2>1, <2>2
<1>7. Sponsored'
  <2> SUFFICES ASSUME sponsored > 0
               PROVE  /\ plan' \in {"early_tester", "sponsor"} /\ sponsored <= sponsor
                      /\ tier = "configured"
                      /\ \A s \in Savers : save[s].at = "plan" => Vouches(s)
                      /\ \A q \in Readers : lapse'[q] # "registered"
    BY <1>2 DEF Sponsored, Vouches
  <2>1. /\ plan \in {"early_tester", "sponsor"} /\ sponsored <= sponsor
        /\ tier = "configured"
        /\ \A s \in Savers : save[s].at = "plan" => Vouches(s)
        /\ \A q \in Readers : lapse[q] # "registered"
    BY DEF WaitlistInv, Sponsored
  <2>2. Effective # "registered"
    BY <1>3, <2>1, PlanOfTier DEF Effective
  <2>3. lapse[r] \in {"none", "sponsor"}
    BY <1>3, <2>1
  <2>4. QED
    BY <1>2, <2>1, <2>2, <2>3
<1>8. Approved'
  <2>1. lapse[r] \in {"none", "registered", "sponsor"}
    BY <1>3
  <2>2. QED
    BY <1>2, <2>1 DEF WaitlistInv, Approved, SawGrant, waitVars
<1>9. QED
  BY <1>4, <1>5, <1>6, <1>7, <1>8, WaitUnchanged DEF WaitlistInv

-----------------------------------------------------------------------------
(* An administrator's call. *)

\* Rows and savers are left alone.
LEMMA EntUnchanged ==
  ASSUME WaitlistInv, UNCHANGED entVars
  PROVE  /\ Saves' /\ Granted' /\ Sponsored'
         /\ status' = status /\ slipped' = slipped => Approved'
<1>1. Saves'
  BY DEF WaitlistInv, entVars, rows, Saves
<1>2. Granted'
  BY DEF WaitlistInv, entVars, rows, history, Granted, MissedGrant
<1>3. Sponsored'
  BY DEF WaitlistInv, entVars, rows, history, Sponsored, Vouches
<1>4. status' = status /\ slipped' = slipped => Approved'
  BY DEF WaitlistInv, entVars, rows, Approved, SawGrant
<1>5. QED
  BY <1>1, <1>2, <1>3, <1>4

\* An administrator's check or write changes the call, and nobody else's.
LEMMA OrderType ==
  ASSUME TypeOK, NEW a \in Admins, NEW x \in Order, admin' = [admin EXCEPT ![a] = x]
  PROVE  /\ admin' \in [Admins -> Order]
         /\ admin'[a] = x
         /\ \A b \in Admins \ {a} : admin'[b] = admin[b]
  BY Types

LEMMA CallType ==
  ASSUME TypeOK, NEW a \in Admins, NEW does \in {"update", "approve", "revoke"},
         NEW st \in Statuses \cup {"none"}, NEW k \in Keys \cup {NoKey}, Call(a, does, st, k)
  PROVE  /\ admin' \in [Admins -> Order]
         /\ admin'[a].does = does /\ admin'[a].to = st /\ admin'[a].key = k
         /\ admin'[a].approved = (status = "approved")
         /\ \A b \in Admins \ {a} : admin'[b] = admin[b]
<1> DEFINE x == [does |-> does, to |-> st, approved |-> status = "approved", key |-> k]
<1>1. x \in Order
  BY DEF Order
<1>2. admin' = [admin EXCEPT ![a] = x]
  BY DEF Call
<1>3. x.does = does /\ x.to = st /\ x.key = k
  OBVIOUS
<1>4. x.approved = (status = "approved")
  BY Zenon
<1> HIDE DEF x
<1>5. /\ admin' \in [Admins -> Order]
      /\ admin'[a] = x
      /\ \A b \in Admins \ {a} : admin'[b] = admin[b]
  BY <1>1, <1>2, OrderType
<1>6. QED
  BY <1>3, <1>4, <1>5

LEMMA RestType ==
  ASSUME TypeOK, NEW a \in Admins, Rest(a)
  PROVE  /\ admin' \in [Admins -> Order]
         /\ admin'[a].does = "nothing"
         /\ \A b \in Admins \ {a} : admin'[b] = admin[b]
  BY OrderType, Blank DEF Rest, NoCall

\* Before the first call of an action, what the invariant says of calls and rows.
LEMMA Known ==
  ASSUME WaitlistInv
  PROVE  /\ TypeOK /\ NoKey \notin Keys
         /\ plan \in Plans \cup {"none"}
         /\ expires \in Nat /\ granted \in Nat /\ sponsor \in Nat /\ sponsored \in Nat
         /\ save \in [Savers -> Knowledge]
         /\ status \in Statuses \cup {"none"}
         /\ pointed \in Keys \cup {NoKey} /\ live \subseteq Keys /\ stray \subseteq live
         /\ admin \in [Admins -> Order]
         /\ make \in [Creators -> Making]
         /\ slipped \in {"no", "update", "revoke"}
         /\ Grant \in Nat \ {0} /\ 0 \in 0..Grant /\ Grant \in 0..Grant
         /\ 0 \in 0..Window
  BY Types, Lengths, WaitlistAssumption DEF WaitlistInv, WaitlistAssumption

\* A check that a plan is to be changed by: no revocation starts here.
LEMMA CheckStep ==
  ASSUME WaitlistInv, NEW a \in Admins,
         (\E st \in Statuses : CheckUpdate(a, st)) \/ CheckApprove(a)
  PROVE  WaitlistInv'
<1>1. PICK does \in {"update", "approve"}, st \in Statuses \cup {"none"} :
        /\ Call(a, does, st, NoKey)
        /\ does = "update" => (status = "approved" => st = "approved")
  BY DEF CheckUpdate, CheckApprove
<1>2. UNCHANGED <<entVars, status, preview, pointed, live, make, slipped, stray>>
  BY DEF CheckUpdate, CheckApprove
<1>3. /\ admin' \in [Admins -> Order]
      /\ admin'[a].does = does /\ admin'[a].to = st /\ admin'[a].key = NoKey
      /\ admin'[a].approved = (status = "approved")
      /\ \A b \in Admins \ {a} : admin'[b] = admin[b]
  BY <1>1, Known, CallType
<1>4. TypeOK'
  BY <1>2, <1>3, Known DEF TypeOK, EntTypeOK, Order, entVars, rows, history
<1>5. Saves' /\ Granted' /\ Sponsored' /\ Approved'
  BY <1>2, EntUnchanged
<1>6. Updates'
  <2>1. admin'[a].does = "update" /\ admin'[a].approved => admin'[a].to = "approved"
    BY <1>1, <1>3
  <2>2. QED
    BY <1>3, <2>1 DEF WaitlistInv, Updates
<1>7. Makes' /\ Accounted'
  BY <1>2 DEF WaitlistInv, Makes, Accounted, Good
<1>8. Alone'
  BY <1>2, <1>3 DEF WaitlistInv, Alone, Good
<1>9. Revokes'
  BY <1>2, <1>3 DEF WaitlistInv, Revokes
<1>10. QED
  BY <1>4, <1>5, <1>6, <1>7, <1>8, <1>9 DEF WaitlistInv

\* An update that takes the approval away has been checked before it.
LEMMA UpdateStep ==
  ASSUME WaitlistInv, NEW a \in Admins, Update(a)
  PROVE  WaitlistInv'
<1>1. /\ admin[a].does = "update" /\ status' = admin[a].to
      /\ slipped' = IF status = "approved" /\ status' # "approved" /\ ~admin[a].approved
                   THEN "update" ELSE slipped
      /\ entVars' = entVars
      /\ preview' = preview /\ pointed' = pointed /\ live' = live /\ make' = make /\ stray' = stray
  BY DEF Update
<1>2. /\ admin' \in [Admins -> Order]
      /\ admin'[a].does = "nothing"
      /\ \A b \in Admins \ {a} : admin'[b] = admin[b]
  BY Known, RestType DEF Update
<1>3. status' \in Statuses \cup {"none"} /\ slipped' \in {"no", "update", "revoke"}
  BY <1>1, Known DEF Order
<1>4. TypeOK'
  BY <1>1, <1>2, <1>3, Known DEF TypeOK, EntTypeOK, Order, entVars, rows, history
<1>5. admin[a].approved => status' = "approved"
  BY <1>1 DEF WaitlistInv, Updates
<1>6. Good => Good'
  BY <1>1, <1>5 DEF Good
<1>7. Approved'
  <2>1. slipped' = "no" /\ status' # "approved" => slipped = "no" /\ status # "approved"
    BY <1>1, <1>5
  <2>2. QED
    BY <1>1, <2>1 DEF WaitlistInv, Approved, SawGrant, entVars, rows
<1>8. Saves' /\ Granted' /\ Sponsored'
  BY <1>1, EntUnchanged
<1>9. Updates' /\ Makes' /\ Revokes'
  BY <1>1, <1>2 DEF WaitlistInv, Updates, Makes, Revokes
<1>10. Alone'
  BY <1>1, <1>2, <1>6 DEF WaitlistInv, Alone
<1>11. Accounted'
  BY <1>1, <1>6 DEF WaitlistInv, Accounted
<1>12. QED
  BY <1>4, <1>7, <1>8, <1>9, <1>10, <1>11 DEF WaitlistInv

\* An approval is remembered as a grant only if nobody is to overwrite it.
LEMMA ApproveStep ==
  ASSUME WaitlistInv, NEW a \in Admins, Approve(a)
  PROVE  WaitlistInv'
<1>1. /\ status' = "approved" /\ preview' = Grant /\ slipped' = "no"
      /\ sponsor' = sponsor /\ tier' = tier
      /\ processed' = processed /\ save' = save /\ lapse' = lapse
      /\ sponsored' = sponsored
      /\ pointed' = pointed /\ live' = live /\ make' = make /\ stray' = stray
  BY DEF Approve
<1>2. \/ plan = "sponsor" /\ plan' = plan /\ expires' = expires /\ granted' = granted
      \/ /\ plan # "sponsor" /\ plan' = "early_tester" /\ expires' = Grant
         /\ granted' \in {0, Grant}
         /\ granted' # 0 => /\ \A s \in Savers : ~MissedGrant(s)
                            /\ \A r \in Readers : lapse[r] = "none"
  BY DEF Approve
<1>3. /\ admin' \in [Admins -> Order]
      /\ admin'[a].does = "nothing"
      /\ \A b \in Admins \ {a} : admin'[b] = admin[b]
  BY Known, RestType DEF Approve
<1>4. TypeOK'
  <2>1. plan' \in Plans \cup {"none"} /\ expires' \in 0..Grant /\ granted' \in 0..Grant
    BY <1>2, Known, Types DEF Plans
  <2>2. QED
    BY <1>1, <1>3, <2>1, Known DEF TypeOK, EntTypeOK, Order, Statuses
<1>5. Saves'
  BY <1>1, <1>2 DEF WaitlistInv, Saves
<1>6. Granted'
  BY <1>1, <1>2, Known DEF WaitlistInv, Granted, MissedGrant
<1>7. Sponsored'
  BY <1>1, <1>2 DEF WaitlistInv, Sponsored, Vouches
<1>8. Approved' /\ Good'
  BY <1>1 DEF Approved, Good
<1>9. Updates' /\ Makes' /\ Revokes'
  BY <1>1, <1>3 DEF WaitlistInv, Updates, Makes, Revokes
<1>10. Alone'
  BY <1>1, <1>3, <1>8 DEF WaitlistInv, Alone
<1>11. Accounted'
  BY <1>1, <1>8 DEF WaitlistInv, Accounted
<1>12. QED
  BY <1>4, <1>5, <1>6, <1>7, <1>8, <1>9, <1>10, <1>11 DEF WaitlistInv

\* A call for a revocation crosses every creation under way, and reads the key pointed to.
LEMMA CheckRevokeStep ==
  ASSUME WaitlistInv, NEW a \in Admins, CheckRevoke(a)
  PROVE  WaitlistInv'
<1>1. /\ Call(a, "revoke", "none", pointed)
      /\ make' = [c \in Creators |-> Cross(make[c])]
      /\ UNCHANGED <<entVars, status, preview, pointed, live, slipped, stray>>
  BY DEF CheckRevoke
<1>2. /\ admin' \in [Admins -> Order]
      /\ admin'[a].does = "revoke" /\ admin'[a].key = pointed
      /\ \A b \in Admins \ {a} : admin'[b] = admin[b]
  BY <1>1, Known, CallType
<1>3. \A c \in Creators :
        /\ make'[c] \in Making
        /\ make'[c].at = make[c].at /\ make'[c].old = make[c].old /\ make'[c].new = make[c].new
        /\ make'[c] = NoMake \/ make'[c].crossed
  BY <1>1, Known DEF Cross, Making
<1>4. TypeOK'
  <2>1. make' \in [Creators -> Making]
    BY <1>1, <1>3
  <2>2. QED
    BY <1>1, <1>2, <2>1, Known DEF TypeOK, EntTypeOK, Order, Making, entVars, rows, history
<1>5. Saves' /\ Granted' /\ Sponsored' /\ Approved'
  BY <1>1, EntUnchanged
<1>6. Updates'
  BY <1>2 DEF WaitlistInv, Updates
<1>7. Makes' /\ Accounted'
  BY <1>1, <1>3 DEF WaitlistInv, Makes, Accounted, Good
<1>8. Alone'
  BY <1>3 DEF Alone
<1>9. Revokes'
  BY <1>1, <1>2 DEF WaitlistInv, Revokes
<1>10. QED
  BY <1>4, <1>5, <1>6, <1>7, <1>8, <1>9 DEF WaitlistInv

\* A revocation takes the key pointed to, or one that is excused by the crossing.
LEMMA RevokeStep ==
  ASSUME WaitlistInv, NEW a \in Admins, Revoke(a)
  PROVE  WaitlistInv'
<1>1. /\ admin[a].does = "revoke"
      /\ \/ plan \in {"none", "sponsor"} /\ plan' = plan /\ expires' = expires
         \/ plan \notin {"none", "sponsor"} /\ plan' = "registered" /\ expires' = 0
      /\ granted' = 0
      /\ sponsored' = IF plan = "early_tester" THEN 0 ELSE sponsored
      /\ status' = "revoked"
      /\ live' = live \ {admin[a].key} /\ stray' = stray \ {admin[a].key}
      /\ slipped' = IF plan = "sponsor" /\ expires > 0 /\ \E s \in Savers : SawGrant(s)
                   THEN "revoke" ELSE "no"
      /\ sponsor' = sponsor /\ tier' = tier
      /\ processed' = processed /\ save' = save /\ lapse' = lapse
      /\ preview' = preview /\ pointed' = pointed /\ make' = make
  BY DEF Revoke
<1>2. /\ admin' \in [Admins -> Order]
      /\ admin'[a].does = "nothing"
      /\ \A b \in Admins \ {a} : admin'[b] = admin[b]
  BY Known, RestType DEF Revoke
<1>3. TypeOK'
  <2>1. plan' \in Plans \cup {"none"} /\ expires' \in 0..Grant /\ sponsored' \in 0..Window
    BY <1>1, Known, Types DEF Plans
  <2>2. slipped' \in {"no", "update", "revoke"} /\ granted' \in 0..Grant
    BY <1>1, Known
  <2>3. live' \subseteq Keys /\ stray' \subseteq live'
    BY <1>1, Known
  <2>4. QED
    BY <1>1, <1>2, <2>1, <2>2, <2>3, Known DEF TypeOK, EntTypeOK, Order, Statuses
<1>4. Saves'
  BY <1>1 DEF WaitlistInv, Saves
<1>5. Granted'
  BY <1>1 DEF Granted
<1>6. Sponsored'
  BY <1>1 DEF WaitlistInv, Sponsored, Vouches
<1>7. Approved'
  <2> SUFFICES ASSUME slipped' = "no"
               PROVE  /\ ~(plan' = "early_tester" /\ expires' > 0)
                      /\ expires' > 0 => \A s \in Savers : ~SawGrant(s)'
    BY DEF Approved
  <2>1. CASE plan = "none"
    BY <1>1, <2>1 DEF WaitlistInv, Saves
  <2>2. CASE plan = "sponsor"
    <3>1. expires > 0 => \A s \in Savers : ~SawGrant(s)
      BY <1>1, <2>2
    <3>2. QED
      BY <1>1, <2>2, <3>1 DEF SawGrant
  <2>3. CASE plan \notin {"none", "sponsor"}
    BY <1>1, <2>3
  <2>4. QED
    BY <2>1, <2>2, <2>3
<1>8. Updates'
  BY <1>2 DEF WaitlistInv, Updates
<1>9. Makes'
  BY <1>1 DEF WaitlistInv, Makes
<1>10. Alone'
  BY <1>1 DEF WaitlistInv, Alone
<1>11. Revokes'
  BY <1>1, <1>2 DEF WaitlistInv, Revokes
<1>12. Accounted'
  <2> SUFFICES ASSUME NEW k \in live, k # admin[a].key
               PROVE  k \in stray \/ (\E c \in Creators : k = make[c].new)
    BY <1>1 DEF Accounted
  <2>1. CASE k = pointed
    BY <1>1, <2>1 DEF WaitlistInv, Revokes
  <2>2. CASE k # pointed
    BY <2>2 DEF WaitlistInv, Accounted
  <2>3. QED
    BY <2>1, <2>2
<1>13. QED
  BY <1>3, <1>4, <1>5, <1>6, <1>7, <1>8, <1>9, <1>10, <1>11, <1>12 DEF WaitlistInv

LEMMA AdminDiesStep ==
  ASSUME WaitlistInv, NEW a \in Admins, AdminDies(a)
  PROVE  WaitlistInv'
<1>1. UNCHANGED <<entVars, status, preview, pointed, live, make, slipped, stray>>
  BY DEF AdminDies
<1>2. /\ admin' \in [Admins -> Order]
      /\ admin'[a].does = "nothing"
      /\ \A b \in Admins \ {a} : admin'[b] = admin[b]
  BY Known, RestType DEF AdminDies
<1>3. TypeOK'
  BY <1>1, <1>2, Known DEF TypeOK, EntTypeOK, Order, entVars, rows, history
<1>4. Saves' /\ Granted' /\ Sponsored' /\ Approved'
  BY <1>1, EntUnchanged
<1>5. Updates' /\ Revokes'
  BY <1>1, <1>2 DEF WaitlistInv, Updates, Revokes
<1>6. Makes' /\ Accounted'
  BY <1>1 DEF WaitlistInv, Makes, Accounted, Good
<1>7. Alone'
  BY <1>1, <1>2 DEF WaitlistInv, Alone, Good
<1>8. QED
  BY <1>3, <1>4, <1>5, <1>6, <1>7 DEF WaitlistInv

LEMMA AdministeringStep ==
  ASSUME WaitlistInv, Administering
  PROVE  WaitlistInv'
<1>1. PICK a \in Admins :
        \/ (\E st \in Statuses : CheckUpdate(a, st)) \/ Update(a)
        \/ CheckApprove(a) \/ Approve(a)
        \/ CheckRevoke(a) \/ Revoke(a) \/ AdminDies(a)
  BY DEF Administering
<1>2. QED
  BY <1>1, CheckStep, UpdateStep, ApproveStep, CheckRevokeStep, RevokeStep, AdminDiesStep

-----------------------------------------------------------------------------
(* A step of a creation. *)

\* A creation that ends.
LEMMA EndType ==
  ASSUME TypeOK, NEW c \in Creators, make' = [make EXCEPT ![c] = NoMake]
  PROVE  /\ make' \in [Creators -> Making]
         /\ make'[c] = NoMake
         /\ \A o \in Creators \ {c} : make'[o] = make[o]
  BY Types, Blank

LEMMA BlankMake == NoMake.at = "idle" /\ NoMake.new = NoKey /\ NoMake.old = NoKey
  BY DEF NoMake

\* A creation that begins while another is under way crosses it, and is crossed.
LEMMA BeginMakeStep ==
  ASSUME WaitlistInv, NEW c \in Creators, BeginMake(c)
  PROVE  WaitlistInv'
<1>1. /\ make[c] = NoMake /\ status = "approved"
      /\ UNCHANGED <<entVars, status, preview, pointed, live, admin, slipped, stray>>
  BY DEF BeginMake
<1> DEFINE others == \E o \in Creators : make[o] # NoMake
           revoking == \E a \in Admins : admin[a].does = "revoke"
           x == [at |-> IF pointed = NoKey THEN "insert" ELSE "revoke",
                 old |-> pointed, new |-> NoKey, crossed |-> others \/ revoking]
<1>2. make' = [o \in Creators |-> IF o # c THEN Cross(make[o]) ELSE x]
  BY DEF BeginMake
<1>3. x \in Making
  BY Known DEF Making
<1>4. /\ x.at \in {"insert", "revoke"} /\ x.old = pointed /\ x.new = NoKey
      /\ x.at = "insert" => pointed = NoKey
  OBVIOUS
<1>5. ~x.crossed => ~others /\ ~revoking
  BY Zenon
<1> HIDE DEF x, others, revoking
<1>6. \A o \in Creators \ {c} :
        /\ make'[o] \in Making
        /\ make'[o].at = make[o].at /\ make'[o].old = make[o].old /\ make'[o].new = make[o].new
        /\ make'[o] = NoMake \/ make'[o].crossed
        /\ make[o] = NoMake => make'[o] = NoMake
  BY <1>2, Known DEF Cross, Making
<1>7. make'[c] = x
  BY <1>2
<1>8. TypeOK'
  <2>1. make' \in [Creators -> Making]
    BY <1>2, <1>3, <1>6, <1>7
  <2>2. QED
    BY <1>1, <2>1, Known DEF TypeOK, EntTypeOK, Order, Making, entVars, rows, history
<1>9. Saves' /\ Granted' /\ Sponsored' /\ Approved'
  BY <1>1, EntUnchanged
<1>10. Updates' /\ Revokes'
  BY <1>1 DEF WaitlistInv, Updates, Revokes
<1>11. Makes'
  BY <1>1, <1>4, <1>6, <1>7, Known DEF WaitlistInv, Makes
<1>12. Alone'
  BY <1>1, <1>4, <1>5, <1>6, <1>7 DEF WaitlistInv, Alone, Good, others, revoking
<1>13. Accounted'
  BY <1>1, <1>6, Known, BlankMake DEF WaitlistInv, Accounted, Good
<1>14. QED
  BY <1>8, <1>9, <1>10, <1>11, <1>12, <1>13 DEF WaitlistInv

LEMMA RevokeOldStep ==
  ASSUME WaitlistInv, NEW c \in Creators, RevokeOld(c)
  PROVE  WaitlistInv'
<1>1. /\ make[c].at = "revoke"
      /\ live' = live \ {make[c].old} /\ stray' = stray \ {make[c].old}
      /\ UNCHANGED <<entVars, status, preview, pointed, admin, slipped>>
  BY DEF RevokeOld
<1>2. /\ make' \in [Creators -> Making]
      /\ \A o \in Creators \ {c} : make'[o] = make[o]
      /\ make'[c].at = "insert" /\ make'[c].old = make[c].old /\ make'[c].new = make[c].new
      /\ make'[c].crossed = make[c].crossed
  <2>1. [make[c] EXCEPT !.at = "insert"] \in Making
    BY Known DEF Making
  <2>2. make' = [make EXCEPT ![c] = [make[c] EXCEPT !.at = "insert"]]
    BY DEF RevokeOld
  <2>3. QED
    BY <2>1, <2>2, Known DEF Making
<1>3. make[c] # NoMake
  BY <1>1, BlankMake
<1>4. TypeOK'
  <2>1. live' \subseteq Keys /\ stray' \subseteq live'
    BY <1>1, Known
  <2>2. QED
    BY <1>1, <1>2, <2>1, Known DEF TypeOK, EntTypeOK, Order, Making, entVars, rows, history
<1>5. Saves' /\ Granted' /\ Sponsored' /\ Approved'
  BY <1>1, EntUnchanged
<1>6. Updates'
  BY <1>1 DEF WaitlistInv, Updates
<1>7. Makes'
  BY <1>1, <1>2 DEF WaitlistInv, Makes
<1>8. Alone'
  BY <1>1, <1>2, <1>3 DEF WaitlistInv, Alone, Good
<1>9. Revokes'
  BY <1>1 DEF WaitlistInv, Revokes
<1>10. Accounted'
  BY <1>1, <1>2 DEF WaitlistInv, Accounted, Good
<1>11. QED
  BY <1>4, <1>5, <1>6, <1>7, <1>8, <1>9, <1>10 DEF WaitlistInv

\* A new key is known to its creation alone.
LEMMA InsertStep ==
  ASSUME WaitlistInv, NEW c \in Creators, Insert(c)
  PROVE  WaitlistInv'
<1>1. PICK k \in Keys :
        /\ New(k) /\ live' = live \cup {k}
        /\ make' = [make EXCEPT ![c] = [make[c] EXCEPT !.at = "point", !.new = k]]
  BY DEF Insert
<1>2. /\ make[c].at = "insert"
      /\ UNCHANGED <<entVars, status, preview, pointed, admin, slipped, stray>>
  BY DEF Insert
<1>3. /\ make' \in [Creators -> Making]
      /\ \A o \in Creators \ {c} : make'[o] = make[o]
      /\ make'[c].at = "point" /\ make'[c].old = make[c].old /\ make'[c].new = k
      /\ make'[c].crossed = make[c].crossed
  <2>1. [make[c] EXCEPT !.at = "point", !.new = k] \in Making
    BY Known DEF Making
  <2>2. QED
    BY <1>1, <2>1, Known DEF Making
<1>4. make[c] # NoMake /\ make[c].new = NoKey
  BY <1>2, BlankMake DEF WaitlistInv, Makes
<1>5. /\ k \notin live /\ k # pointed /\ \A o \in Creators : k # make[o].old
      /\ NoKey \notin live
  BY <1>1, Known DEF New
<1>6. TypeOK'
  <2>1. live' \subseteq Keys /\ stray' \subseteq live'
    BY <1>1, <1>2, Known
  <2>2. QED
    BY <1>2, <1>3, <2>1, Known DEF TypeOK, EntTypeOK, Order, Making, entVars, rows, history
<1>7. Saves' /\ Granted' /\ Sponsored' /\ Approved'
  BY <1>2, EntUnchanged
<1>8. Updates'
  BY <1>2 DEF WaitlistInv, Updates
<1>9. Makes'
  <2>1. make[c].old \notin live
    BY <1>2 DEF WaitlistInv, Makes
  <2>2. QED
    BY <1>1, <1>3, <1>5, <2>1 DEF WaitlistInv, Makes
<1>10. Alone'
  BY <1>2, <1>3, <1>4 DEF WaitlistInv, Alone, Good
<1>11. Revokes'
  BY <1>1, <1>2, <1>5 DEF WaitlistInv, Revokes
<1>12. Accounted'
  BY <1>1, <1>2, <1>3, <1>4, <1>5 DEF WaitlistInv, Accounted, Good
<1>13. QED
  BY <1>6, <1>7, <1>8, <1>9, <1>10, <1>11, <1>12 DEF WaitlistInv

\* A creation that was not crossed leaves the one key it has inserted.
LEMMA PointStep ==
  ASSUME WaitlistInv, NEW c \in Creators, Point(c)
  PROVE  WaitlistInv'
<1>1. /\ make[c].at = "point" /\ pointed' = make[c].new
      /\ stray' = IF make[c].crossed THEN stray \cup ({make[c].new, pointed} \cap live) ELSE stray
      /\ UNCHANGED <<entVars, status, preview, live, admin, slipped>>
  BY DEF Point
<1>2. /\ make' \in [Creators -> Making]
      /\ make'[c] = NoMake
      /\ \A o \in Creators \ {c} : make'[o] = make[o]
  BY Known, EndType DEF Point
<1>3. make[c] # NoMake
  BY <1>1, BlankMake
<1>4. ~make[c].crossed => /\ pointed \notin live /\ Good
                          /\ \A a \in Admins : admin[a].does # "revoke"
  BY <1>1, <1>3 DEF WaitlistInv, Alone, Makes
<1>5. TypeOK'
  <2>1. pointed' \in Keys \cup {NoKey} /\ stray' \subseteq live'
    BY <1>1, Known DEF Making
  <2>2. QED
    BY <1>1, <1>2, <2>1, Known DEF TypeOK, EntTypeOK, Order, Making, entVars, rows, history
<1>6. Saves' /\ Granted' /\ Sponsored' /\ Approved'
  BY <1>1, EntUnchanged
<1>7. Updates'
  BY <1>1 DEF WaitlistInv, Updates
<1>8. Makes'
  BY <1>1, <1>2, BlankMake DEF WaitlistInv, Makes
<1>9. Alone'
  BY <1>2, <1>3 DEF WaitlistInv, Alone
<1>10. Revokes'
  BY <1>1, <1>4 DEF WaitlistInv, Revokes
<1>11. Accounted'
  BY <1>1, <1>2, <1>4 DEF WaitlistInv, Accounted, Good
<1>12. QED
  BY <1>5, <1>6, <1>7, <1>8, <1>9, <1>10, <1>11 DEF WaitlistInv

LEMMA MakerDiesStep ==
  ASSUME WaitlistInv, NEW c \in Creators, MakerDies(c)
  PROVE  WaitlistInv'
<1>1. /\ make[c] # NoMake
      /\ stray' = stray \cup ({make[c].new} \cap live)
      /\ UNCHANGED <<entVars, status, preview, pointed, live, admin, slipped>>
  BY DEF MakerDies
<1>2. /\ make' \in [Creators -> Making]
      /\ make'[c] = NoMake
      /\ \A o \in Creators \ {c} : make'[o] = make[o]
  BY Known, EndType DEF MakerDies
<1>3. TypeOK'
  <2>1. stray' \subseteq live'
    BY <1>1, Known
  <2>2. QED
    BY <1>1, <1>2, <2>1, Known DEF TypeOK, EntTypeOK, Order, Making, entVars, rows, history
<1>4. Saves' /\ Granted' /\ Sponsored' /\ Approved'
  BY <1>1, EntUnchanged
<1>5. Updates'
  BY <1>1 DEF WaitlistInv, Updates
<1>6. Makes'
  BY <1>1, <1>2, BlankMake DEF WaitlistInv, Makes
<1>7. Alone'
  BY <1>1, <1>2 DEF WaitlistInv, Alone
<1>8. Revokes'
  BY <1>1 DEF WaitlistInv, Revokes
<1>9. Accounted'
  BY <1>1, <1>2 DEF WaitlistInv, Accounted, Good
<1>10. QED
  BY <1>3, <1>4, <1>5, <1>6, <1>7, <1>8, <1>9 DEF WaitlistInv

LEMMA CreatingStep ==
  ASSUME WaitlistInv, Creating
  PROVE  WaitlistInv'
<1>1. PICK c \in Creators :
        BeginMake(c) \/ RevokeOld(c) \/ Insert(c) \/ Point(c) \/ MakerDies(c)
  BY DEF Creating
<1>2. QED
  BY <1>1, BeginMakeStep, RevokeOldStep, InsertStep, PointStep, MakerDiesStep

-----------------------------------------------------------------------------
(* The application, time, and the theorems. *)

LEMMA SubmitStep ==
  ASSUME WaitlistInv, Submit
  PROVE  WaitlistInv'
<1>1. /\ status = "none" /\ status' = "open"
      /\ UNCHANGED <<entVars, preview, pointed, live, admin, make, slipped, stray>>
  BY DEF Submit
<1>2. TypeOK'
  BY <1>1, Known DEF TypeOK, EntTypeOK, Order, Making, Statuses, entVars, rows, history
<1>3. Saves' /\ Granted' /\ Sponsored'
  BY <1>1, EntUnchanged
<1>4. Approved'
  BY <1>1 DEF WaitlistInv, Approved, SawGrant, entVars, rows
<1>5. Updates' /\ Makes' /\ Revokes'
  BY <1>1 DEF WaitlistInv, Updates, Makes, Revokes
<1>6. Alone' /\ Accounted'
  BY <1>1 DEF WaitlistInv, Alone, Accounted, Good
<1>7. QED
  BY <1>2, <1>3, <1>4, <1>5, <1>6 DEF WaitlistInv

\* What must hold runs out no later than what it is held by.
LEMMA TickStep ==
  ASSUME WaitlistInv, Tick
  PROVE  WaitlistInv'
<1>1. /\ expires' = Less(expires) /\ sponsor' = Less(sponsor)
      /\ granted' = Less(granted) /\ sponsored' = Less(sponsored) /\ preview' = Less(preview)
      /\ UNCHANGED <<plan, tier, processed, save, lapse>>
      /\ UNCHANGED <<status, pointed, live, admin, make, slipped, stray>>
  BY DEF Tick, EntTick
<1>2. /\ expires \in 0..Grant /\ granted \in 0..Grant /\ preview \in 0..Grant
      /\ sponsor \in 0..Window /\ sponsored \in 0..Window
      /\ Grant \in Nat /\ Window \in Nat
  BY Known, Types, Lengths
<1>3. TypeOK'
  <2>1. /\ expires' \in 0..Grant /\ granted' \in 0..Grant /\ preview' \in 0..Grant
        /\ sponsor' \in 0..Window /\ sponsored' \in 0..Window
    BY <1>1, <1>2 DEF Less
  <2>2. QED
    BY <1>1, <2>1, Known DEF TypeOK, EntTypeOK
<1>4. Saves'
  BY <1>1 DEF WaitlistInv, Saves, Less
<1>5. Granted'
  <2>1. granted' > 0 => granted > 0
    BY <1>1, <1>2 DEF Less
  <2>2. granted <= expires => granted' <= expires'
    BY <1>1, <1>2 DEF Less
  <2>3. QED
    BY <1>1, <2>1, <2>2 DEF WaitlistInv, Granted, MissedGrant
<1>6. Sponsored'
  <2>1. sponsored' > 0 => sponsored > 0
    BY <1>1, <1>2 DEF Less
  <2>2. sponsored <= sponsor => sponsored' <= sponsor'
    BY <1>1, <1>2 DEF Less
  <2>3. QED
    BY <1>1, <2>1, <2>2 DEF WaitlistInv, Sponsored, Vouches
<1>7. Approved'
  <2>1. expires' > 0 => expires > 0
    BY <1>1, <1>2 DEF Less
  <2>2. QED
    BY <1>1, <2>1 DEF WaitlistInv, Approved, SawGrant
<1>8. Updates' /\ Makes' /\ Revokes'
  BY <1>1 DEF WaitlistInv, Updates, Makes, Revokes
<1>9. Alone' /\ Accounted'
  BY <1>1 DEF WaitlistInv, Alone, Accounted, Good
<1>10. QED
  BY <1>3, <1>4, <1>5, <1>6, <1>7, <1>8, <1>9 DEF WaitlistInv

\* Nothing is granted, applied for or under way at first.
LEMMA InitInv ==
  ASSUME Init
  PROVE  WaitlistInv
<1>1. TypeOK
  BY Blank, Lengths, PlanOfTier DEF Init, EntInit, TypeOK, EntTypeOK, Plans, Knowledge, Step, Order, Making
<1>2. Saves /\ Granted /\ Sponsored /\ Approved
  BY DEF Init, EntInit, Saves, Granted, Sponsored, Approved, Idle
<1>3. Updates /\ Revokes
  BY DEF Init, Updates, Revokes, NoCall
<1>4. Makes /\ Alone /\ Accounted
  BY BlankMake DEF Init, Makes, Alone, Accounted
<1>5. QED
  BY <1>1, <1>2, <1>3, <1>4 DEF WaitlistInv

LEMMA NextInv ==
  ASSUME WaitlistInv, [Next]_vars
  PROVE  WaitlistInv'
<1>1. CASE UNCHANGED vars
  <2>1. UNCHANGED entVars /\ UNCHANGED waitVars
    BY <1>1 DEF vars
  <2>2. TypeOK'
    BY <2>1, Known, Types DEF TypeOK, EntTypeOK, Knowledge, Step, Order, Making, entVars, rows, history, waitVars
  <2>3. QED
    BY <2>1, <2>2, EntUnchanged, WaitUnchanged DEF WaitlistInv, waitVars
<1>2. CASE Next
  BY <1>2, SavingStep, ReadingStep, SubmitStep, AdministeringStep, CreatingStep, TickStep DEF Next
<1>3. QED
  BY <1>1, <1>2

\* The inductive invariant of plans, applications and preview keys: of every call
\* under way, what it cannot have read (waitlist.ts, state/users.ts, auth/verify.ts).
THEOREM WaitlistInvariant == Spec => []WaitlistInv
<1>1. Init => WaitlistInv
  BY InitInv
<1>2. WaitlistInv /\ [Next]_vars => WaitlistInv'
  BY NextInv
<1>3. QED
  BY <1>1, <1>2, PTL DEF Spec

\* The rows, calls and histories keep their types.
THEOREM WaitlistTypes == Spec => []TypeOK
<1>1. WaitlistInv => TypeOK
  BY DEF WaitlistInv
<1>2. QED
  BY <1>1, WaitlistInvariant, PTL

\* A grant that must hold is served: the row says "early_tester" until it runs out
\* (state/users.ts keeps a running grant, auth/verify.ts downgrades lapsed ones).
THEOREM GrantIsServed == Spec => []GrantHolds
<1>1. WaitlistInv => GrantHolds
  BY Types DEF WaitlistInv, Granted, GrantHolds, Effective
<1>2. QED
  BY <1>1, WaitlistInvariant, PTL

\* A sponsorship of a configured tier that must count is served better than the free
\* plan, before, during and after a grant (state/users.ts, auth/verify.ts).
THEOREM SponsorIsServed == Spec => []SponsorCounts
<1>1. WaitlistInv => SponsorCounts
  BY Types, PlanOfTier DEF WaitlistInv, Sponsored, SponsorCounts, Effective
<1>2. QED
  BY <1>1, WaitlistInvariant, PTL

\* Whoever is served as an early tester has an approved application, but for the two
\* crossings that `slipped` records (waitlist.ts:38, :41).
THEOREM TesterHasApproval == Spec => []TesterIsApproved
<1>1. WaitlistInv => TesterIsApproved
  BY Types, PlanOfTier DEF WaitlistInv, Approved, TesterIsApproved, Effective
<1>2. QED
  BY <1>1, WaitlistInvariant, PTL

\* A preview key that works is the one an approved application points to, unless its
\* creation crossed another one or a revocation, or died (waitlist.ts:40-41).
THEOREM PreviewKeyKept == Spec => []PreviewKeyAccounted
<1>1. WaitlistInv => PreviewKeyAccounted
  BY DEF WaitlistInv, Accounted, Good, PreviewKeyAccounted
<1>2. QED
  BY <1>1, WaitlistInvariant, PTL

===============================================================================
