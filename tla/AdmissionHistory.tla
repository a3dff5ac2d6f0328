-------------------------- MODULE AdmissionHistory --------------------------
(***************************************************************************)
(* QuotaLimiter with a history of its admissions: what the fixed windows   *)
(* of a minute (for a waitlist object, of an hour) let through in any      *)
(* stretch of time as long as one of them.                                 *)
(***************************************************************************)
EXTENDS QuotaLimiter

VARIABLE recent   \* recent[k]: admissions of the last k ticks, this one included

Horizon == IF kind = "access" THEN Minute ELSE Hour
Span == IF Minute < Hour THEN Hour ELSE Minute

NoneRecent == [k \in 0..Span |-> 0]

Admission == reply.code = "ok" /\ reply.action \in {"consume", "acquire", "waitlist"}

\* The clock shifts the past, erasing the account erases it, and an admission counts
\* in every stretch that ends now.
Record ==
    recent' = IF now' # now
              THEN [k \in 0..Span |-> IF k = 0 THEN 0 ELSE recent[k - 1]]
              ELSE IF reply'.action = "reset" THEN NoneRecent
              ELSE IF Admission' THEN [k \in 0..Span |-> IF k = 0 THEN 0 ELSE recent[k] + 1]
              ELSE recent

CountedInit == Init /\ recent = NoneRecent

CountedNext == Next /\ Record

countedVars == <<vars, recent>>

CountedSpec == CountedInit /\ [][CountedNext]_countedVars

\* A midnight fell within the last Horizon ticks (the tick it fell on included).
MidnightLately == midnight - Day > now - Horizon /\ midnight > Day

LargestEdge == CHOOSE n \in {Edge[p] : p \in Plans} : \A p \in Plans : Edge[p] <= n

CapOfWindow == IF kind = "access" THEN LargestEdge ELSE WaitlistCap

\* Every plan has a limit per minute, and one of them the largest; a window is no
\* longer than a day (config.ts).
HistoryAssumption ==
    /\ Minute <= Day /\ Hour <= Day
    /\ \A p \in Plans : Edge[p] # 0
    /\ \E p \in Plans : \A q \in Plans : Edge[q] <= Edge[p]

\* The windows are fixed, not sliding: over any minute (for the waitlist, any
\* hour) two windows can meet, so up to twice the limit passes, and three when
\* midnight starts the record over in between - and never more than that
\* (quota-limiter.ts windowStart, waitlistStart).
SlidingBound == recent[Horizon] <= (IF MidnightLately THEN 3 ELSE 2) * CapOfWindow

=============================================================================
