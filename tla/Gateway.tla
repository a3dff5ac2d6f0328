------------------------------- MODULE Gateway -------------------------------
(***************************************************************************)
(* Requests of one subject through `run`                                   *)
(* (apps/worker/src/index.ts), composed with the subject's QuotaLimiter.   *)
(*                                                                         *)
(* A streaming request acquires a lease, tries its candidate providers one *)
(* after the other, and relays the first answer.  A lease is renewed by a  *)
(* timer that starts with the answer, and is released when the body ends   *)
(* or when every candidate failed.  A plain request is charged, tries its  *)
(* candidates and answers once it has read the body.  Renewals and releases*)
(* are sent without being awaited, so they travel on their own and may get *)
(* lost; the isolate that serves a request may die at any moment, and its  *)
(* timers with it.                                                         *)
(***************************************************************************)
EXTENDS Integers, FiniteSets

CONSTANTS
    Requests,      \* each that streams draws one lease id, named like it
    Plain,         \* those that do not stream
    Unread,        \* those whose body may be left unread, so that nothing meets the
                   \* abort: the client stops reading, or the translation of
                   \* /v1/responses or /v1/messages gets no further pull
    Plans, Daily, Edge, Streams, MaxDaily, MaxStreams,
    LeaseTtl, Minute, Day, MaxTime,    \* of QuotaLimiter
    RenewEvery,    \* 60000 ms
    Timeout,       \* fetchBounded's timer; it runs from the call to the end of the body
    Transit,       \* bound: a message to the quota object arrives within this time
    Fallback,      \* Fallback[p]: fallbackAttempts of plan p
    Starts         \* bound: a run begins, and requests start, at these times only

ASSUME GatewayAssumption ==
    /\ IsFiniteSet(Requests) /\ Unread \subseteq Requests /\ Plain \subseteq Requests \ Unread
    /\ Plans # {} /\ {Daily, Edge, Streams} \subseteq [Plans -> Nat]
    /\ \A p \in Plans : Daily[p] <= MaxDaily /\ Streams[p] <= MaxStreams
    /\ {MaxDaily, MaxStreams, MaxTime} \subseteq Nat
    /\ {LeaseTtl, Minute, Day, RenewEvery, Timeout, Transit} \subseteq Nat \ {0}
    /\ Fallback \in [Plans -> Nat \ {0}]
    /\ RenewEvery + Transit < LeaseTtl
    /\ Starts \subseteq 0 .. MaxTime

VARIABLES
    kind, now, midnight, stored, issued, reply,    \* of QuotaLimiter
    pc,         \* where each request is in `run`
    left,       \* candidates not called yet, the one in progress included
    due,        \* when the provider call in progress is aborted
    renewAt,    \* when the renewal timer fires next
    wire,       \* renewals and releases on their way to the object
    lost,       \* messages that never arrived
    admitted    \* history: when each request was admitted, before which midnight,
                \* when it was answered and when it left `run`

quota == <<kind, now, midnight, stored, issued, reply>>
calls == <<pc, left, due, renewAt>>
vars == <<quota, calls, wire, lost, admitted>>

Q == INSTANCE QuotaLimiter WITH Leases <- Requests, Hour <- 1, WaitlistCap <- 0

Message == [type: {"renew", "release"}, lease: Requests, sent: Nat]

Never == [at |-> 0, day |-> 0, answered |-> 0, ended |-> 0]

Init ==
    /\ Q!Init /\ kind = "access" /\ now \in Starts
    /\ pc = [r \in Requests |-> "new"]
    /\ left = [r \in Requests |-> 0]
    /\ due = [r \in Requests |-> 0]
    /\ renewAt = [r \in Requests |-> 0]
    /\ wire = {}
    /\ lost = {}
    /\ admitted = [r \in Requests |-> Never]

\* The body of the messages the gateway sends: `quotaStub.fetch('https://quota/...')`.
Send(type, r) == wire' = wire \cup {[type |-> type, lease |-> r, sent |-> now]}

\* A release, from a request that holds a lease.
GiveBack(r) == IF r \in Plain THEN UNCHANGED wire ELSE Send("release", r)

\* The request leaves `run`: nothing is called and no timer runs any more.
Leave(r, how) ==
    /\ pc' = [pc EXCEPT ![r] = how]
    /\ left' = [left EXCEPT ![r] = 0]
    /\ due' = [due EXCEPT ![r] = 0]
    /\ renewAt' = [renewAt EXCEPT ![r] = 0]
    /\ admitted' = [admitted EXCEPT ![r].ended = now, ![r].answered = 0]

-----------------------------------------------------------------------------
(* One request. *)

\* `run` up to the loop: acquire or consume, and either the 429 or the list of candidates.
Start(r, p, candidates) ==
    /\ pc[r] = "new" /\ now \in Starts
    /\ candidates \in 1 .. Fallback[p]
    /\ IF r \in Plain THEN Q!Consume(p) ELSE Q!Acquire(p, r)
    /\ IF reply'.code = "ok"
       THEN /\ pc' = [pc EXCEPT ![r] = "calling"]
            /\ left' = [left EXCEPT ![r] = candidates]
            /\ due' = [due EXCEPT ![r] = now + Timeout]
            /\ admitted' = [admitted EXCEPT ![r] = [Never EXCEPT !.at = now, !.day = midnight]]
       ELSE /\ pc' = [pc EXCEPT ![r] = "refused"]
            /\ UNCHANGED <<left, due, admitted>>
    /\ UNCHANGED <<renewAt, wire, lost>>

\* Fault: every attempt is charged.
FailOverCharged(r) ==
    /\ pc[r] = "calling" /\ left[r] > 1
    /\ \E p \in Plans : Q!Consume(p)
    /\ left' = [left EXCEPT ![r] = @ - 1]
    /\ due' = [due EXCEPT ![r] = now + Timeout]
    /\ UNCHANGED <<pc, renewAt, wire, lost, admitted>>

\* Fault: the loop goes one attempt too far.
FailOverPastEnd(r) ==
    /\ pc[r] = "calling" /\ left[r] >= 0
    /\ left' = [left EXCEPT ![r] = @ - 1]
    /\ due' = [due EXCEPT ![r] = now + Timeout]
    /\ UNCHANGED <<quota, pc, renewAt, wire, lost, admitted>>

\* Fault: the candidates are tried in turn without end.
FailOverAround(r) ==
    /\ pc[r] = "calling"
    /\ left' = [left EXCEPT ![r] = IF @ > 1 THEN @ - 1 ELSE 2]
    /\ due' = [due EXCEPT ![r] = now + Timeout]
    /\ UNCHANGED <<quota, pc, renewAt, wire, lost, admitted>>

\* A candidate throws (error status, network failure, abort): on to the next.
FailOver(r) ==
    /\ pc[r] = "calling" /\ left[r] > 1
    /\ left' = [left EXCEPT ![r] = @ - 1]
    /\ due' = [due EXCEPT ![r] = now + Timeout]
    /\ UNCHANGED <<quota, pc, renewAt, wire, lost, admitted>>

\* Fault: the 503 leaves without a release.
AllFailedSilently(r) ==
    /\ pc[r] = "calling" /\ left[r] = 1
    /\ Leave(r, "done")
    /\ UNCHANGED <<quota, wire, lost>>

\* The last candidate throws: give the lease back and answer 503.
AllFailed(r) ==
    /\ pc[r] = "calling" /\ left[r] = 1
    /\ Leave(r, "done")
    /\ GiveBack(r)
    /\ UNCHANGED <<quota, lost>>

\* Fault: renewing as rarely as leases last.
AnswerRarely(r) ==
    /\ pc[r] = "calling" /\ r \notin Plain
    /\ pc' = [pc EXCEPT ![r] = "relaying"]
    /\ renewAt' = [renewAt EXCEPT ![r] = now + LeaseTtl]
    /\ admitted' = [admitted EXCEPT ![r].answered = now]
    /\ UNCHANGED <<quota, left, due, wire, lost>>

\* The answer cannot be turned into a response, or the body of a plain one fails:
\* give the lease back and answer 502.
Unconvertible(r) ==
    /\ pc[r] = "calling"
    /\ Leave(r, "done")
    /\ GiveBack(r)
    /\ UNCHANGED <<quota, lost>>

\* Fault: the timer keeps on after the release.
RenewUncleared(r) ==
    /\ pc[r] \in {"relaying", "done"} /\ now >= renewAt[r]
    /\ renewAt' = [renewAt EXCEPT ![r] = now + RenewEvery]
    /\ Send("renew", r)
    /\ UNCHANGED <<quota, pc, left, due, lost, admitted>>

\* A candidate answers a plain request, and its body is read and converted.
Reply(r) ==
    /\ pc[r] = "calling" /\ r \in Plain
    /\ Leave(r, "done")
    /\ UNCHANGED <<quota, wire, lost>>

\* A candidate answers a stream: the renewal timer starts and the body is relayed.
Answer(r) ==
    /\ pc[r] = "calling" /\ r \notin Plain
    /\ pc' = [pc EXCEPT ![r] = "relaying"]
    /\ renewAt' = [renewAt EXCEPT ![r] = now + RenewEvery]
    /\ admitted' = [admitted EXCEPT ![r].answered = now]
    /\ UNCHANGED <<quota, left, due, wire, lost>>

RenewFires(r) ==
    /\ pc[r] = "relaying" /\ now >= renewAt[r]
    /\ renewAt' = [renewAt EXCEPT ![r] = now + RenewEvery]
    /\ Send("renew", r)
    /\ UNCHANGED <<quota, pc, left, due, lost, admitted>>

\* The body ends, fails, is cancelled by the client or is missing: the timer
\* is cleared and one release is sent, whichever comes first.
Finish(r) ==
    /\ pc[r] = "relaying"
    /\ Leave(r, "done")
    /\ Send("release", r)
    /\ UNCHANGED <<quota, lost>>

\* The isolate dies, with the call, the body and the timers; so does a request
\* whose acquire was admitted but whose answer never came back.
Crash(r) ==
    /\ pc[r] \in {"calling", "relaying"}
    /\ Leave(r, "crashed")
    /\ UNCHANGED <<quota, wire, lost>>

-----------------------------------------------------------------------------
(* The messages, in any order, and the clock. *)

Deliver(m) ==
    /\ wire' = wire \ {m}
    /\ \/ m.type = "renew" /\ Q!Renew(m.lease)
       \/ m.type = "release" /\ Q!Release(m.lease)
    /\ UNCHANGED <<calls, lost, admitted>>

Lose(m) ==
    /\ wire' = wire \ {m}
    /\ lost' = lost \cup {<<m.type, m.lease>>}
    /\ UNCHANGED <<quota, calls, admitted>>

\* Timers fire on time, and a message does not outlive its transit time.
Timely ==
    /\ \A r \in Requests :
        /\ pc[r] = "calling" => now < due[r]
        /\ pc[r] = "relaying" => now < renewAt[r]
        /\ pc[r] = "relaying" /\ r \notin Unread => now < due[r]
    /\ \A m \in wire : now < m.sent + Transit

Tick ==
    /\ Timely
    /\ Q!Tick
    /\ UNCHANGED <<calls, wire, lost, admitted>>

Next ==
    \/ \E r \in Requests :
        \/ \E p \in Plans : \E c \in 1 .. Fallback[p] : Start(r, p, c)
        \/ FailOver(r)
        \/ AllFailed(r)
        \/ Unconvertible(r)
        \/ Reply(r)
        \/ Answer(r)
        \/ RenewFires(r)
        \/ Finish(r)
        \/ Crash(r)
    \/ \E m \in wire : Deliver(m) \/ Lose(m)
    \/ Tick

\* The runtime fires due timers, delivers or fails every message, and time passes;
\* a body that is read to its end has one, by the abort at the latest.  Of a body in
\* Unread nothing is assumed: it may end, be cancelled, or stay as it is.
Fairness ==
    /\ WF_vars(Tick)
    /\ \A r \in Requests :
        /\ WF_vars(FailOver(r) \/ AllFailed(r) \/ Unconvertible(r) \/ Reply(r) \/ Answer(r))
        /\ WF_vars(RenewFires(r))
        /\ r \notin Unread => WF_vars(Finish(r))
    /\ WF_vars(\E m \in wire : Deliver(m) \/ Lose(m))

Spec == Init /\ [][Next]_vars /\ Fairness

-----------------------------------------------------------------------------
(* Properties. *)

\* The variables keep their types.
TypeOK ==
    /\ Q!TypeOK
    /\ pc \in [Requests -> {"new", "refused", "calling", "relaying", "done", "crashed"}]
    /\ left \in [Requests -> Nat]
    /\ due \in [Requests -> Nat]
    /\ renewAt \in [Requests -> Nat]
    /\ wire \subseteq Message
    /\ lost \subseteq {"renew", "release"} \X Requests

Running(r) == pc[r] \in {"calling", "relaying"}

\* The requests admitted since the last midnight.
AdmittedToday == {r \in Requests : admitted[r].day = midnight}

\* A request is charged exactly once: when it is admitted.  No fallback, release,
\* lost message or crash charges it again or gives the unit back before midnight.
ChargedOnce == Q!Spent = Cardinality(AdmittedToday)

\* The answer came early enough for its first renewal to reach a live lease.
AnsweredInTime(r) ==
    admitted[r].answered + RenewEvery + Transit < admitted[r].at + LeaseTtl

\* A stream being relayed keeps its slot, through any number of renewals, as long
\* as its provider answered in time, no renewal was lost and no midnight passed.
RelayKeepsSlot ==
    \A r \in Requests :
        /\ pc[r] = "relaying"
        /\ admitted[r].day = midnight
        /\ AnsweredInTime(r)
        /\ <<"renew", r>> \notin lost
        => r \in Q!Held

\* Every way out of `run` gives the slot back: once a request is done and its
\* release has arrived, no renewal still under way brings the lease back.
DoneGivesSlotBack ==
    \A r \in Requests :
        /\ pc[r] = "done"
        /\ <<"release", r>> \notin lost
        /\ \A m \in wire : ~(m.lease = r /\ m.type = "release")
        => r \notin Q!Held

\* No slot leaks: whatever is lost or crashes, and however the release overtakes
\* or trails the last renewal, a slot outlives its request by one transit and one
\* lease at most.
SlotComesFree ==
    \A r \in Q!Held : ~Running(r) => now < admitted[r].ended + Transit + LeaseTtl

\* Every request leaves `run`, but for the streams whose body is not read to its end:
\* the candidates run out and the abort bounds each call together with its body.
\* A translated stream may be such a stream though its client reads on: its pull
\* may return without an event and not be called again (formats.ts:117).
RequestsEnd == \A r \in Requests \ Unread : Running(r) ~> ~Running(r)

\* "It remains subject to the same daily quota, stream limits, and provider
\* health" (docs/api/responses-api.md:4): no more streams of a subject are being
\* relayed than its plan allows.
StreamLimit == Cardinality({r \in Requests : pc[r] = "relaying"}) <= MaxStreams

=============================================================================
