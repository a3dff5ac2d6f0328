---------------------------- MODULE StreamTranslate ----------------------------
(***************************************************************************)
(* A provider's stream of chat deltas turned into the events of another    *)
(* format while it is relayed: responsesStream and anthropicStream         *)
(* (apps/worker/src/formats.ts).  Both name their events differently and   *)
(* emit them at the same points, so one module stands for both.            *)
(*                                                                         *)
(* The body is lines of two units each, "data: {..." and "...}\n"; a chunk *)
(* ends at any unit.  The ReadableStream around the translation decides    *)
(* when `pull` is called; it is external, and follows the Streams standard *)
(* (ReadableStreamDefaultControllerCallPullIfNeeded) with a queue of one.  *)
(***************************************************************************)
EXTENDS Integers, Sequences, SequencesExt

CONSTANTS
    Tools,       \* tool indexes a provider uses; 0 is the text
    MaxLines     \* bound: lines of a body

ASSUME StreamAssumption == Tools \subseteq Nat \ {0} /\ MaxLines \in Nat

VARIABLES
    body,     \* the lines the provider sends
    cut,      \* its last line lacks the end
    read,     \* units read
    buffer,   \* units of a line not complete yet
    text,     \* textItemStarted, textStarted
    tools,    \* the tool indexes seen, in that order
    done,     \* completed, stopped
    out,      \* every event enqueued so far
    queued,   \* events in the queue of the stream
    waiting,  \* the reader has a read pending
    pull,     \* "idle", "reading" the next chunk, or "settling"
    again,    \* the stream's pullAgain
    state,    \* "open", "closing" with events queued, "closed", "errored", "cancelled"
    quiet     \* history: the last chunk had nothing to enqueue

translation == <<buffer, text, tools, done, out>>
stream == <<queued, waiting, pull, again, state>>
vars == <<body, cut, read, translation, stream, quiet>>

Text == 0
Line(kind, item) == [kind |-> kind, item |-> item]

\* A line with content or a tool call; a comment, an empty delta or other JSON
\* ("silent"); the final [DONE].  A delta that holds several of them is as many
\* lines.
Payloads ==
    {Line("delta", Text), Line("silent", Text), Line("done", Text)}
        \cup {Line(kind, i) : kind \in {"name", "delta"}, i \in Tools}

\* The OpenAI format: [DONE] ends the stream, a tool is named once, and first.
Conforms(b) ==
    \A j \in DOMAIN b :
        /\ b[j].kind = "done" => j = Len(b)
        /\ b[j].kind = "name" => \A i \in 1..(j - 1) : b[i].item # b[j].item
        /\ b[j].kind = "delta" /\ b[j].item # Text => \E i \in 1..(j - 1) : b[i] = Line("name", b[j].item)

Bodies == {b \in UNION {[1..n -> Payloads] : n \in 0..MaxLines} : Conforms(b)}

Units == 2 * Len(body) - (IF cut THEN 1 ELSE 0)

\* The half lines from i to j.
Slice(i, j) == [n \in 1..(j - i + 1) |-> LET u == i + n - 1 IN
                   [line |-> (u + 1) \div 2, ends |-> u % 2 = 0]]

-----------------------------------------------------------------------------
(* The translation of one line, and of the lines of a chunk *)

Event(kind, item) == [event |-> kind, item |-> item]
Begin == Event("begin", Text)
End == Event("end", Text)
Fail == Event("fail", Text)

Opened(t) == [n \in 1..Len(t.tools) |-> Event("close", t.tools[n])]

\* [DONE]: close the text, then the tools as they came, then the terminal event.
Finish(t) ==
    [t EXCEPT !.done = TRUE,
              !.events = @ \o (IF t.text THEN <<Event("close", Text)>> ELSE <<>>)
                           \o Opened(t) \o <<End>>]

\* Fault: every delta of the text opens it.
TextReopens(t) ==
    [t EXCEPT !.text = TRUE, !.events = @ \o <<Event("open", Text), Event("delta", Text)>>]

TextDelta(t) ==
    [t EXCEPT !.text = TRUE,
              !.events = @ \o (IF t.text THEN <<>> ELSE <<Event("open", Text)>>)
                           \o <<Event("delta", Text)>>]

ToolDelta(t, p) ==
    [t EXCEPT !.tools = IF Contains(@, p.item) THEN @ ELSE Append(@, p.item),
              !.events = Append(@, Event(IF p.kind = "name" THEN "open" ELSE "delta", p.item))]

Translate(t, p) ==
    IF p.kind = "done" THEN Finish(t)
    ELSE IF p.kind = "silent" THEN t
    ELSE IF p.item = Text THEN TextDelta(t)
    ELSE ToolDelta(t, p)

\* Unit j of u ends a line whose start is there as well: "data:" begins it.
LineEnds(u, j) == j > 1 /\ u[j].ends /\ ~u[j - 1].ends

\* The lines that end in u, one after the other.
TranslateAll(t, u) ==
    LET upTo[j \in 0..Len(u)] ==
            IF j = 0 THEN t
            ELSE IF LineEnds(u, j) THEN Translate(upTo[j - 1], body[u[j].line])
            ELSE upTo[j - 1]
    IN  upTo[Len(u)]

\* Fault: what follows the last line break is dropped.
LeftDropped(u) == <<>>

\* Fault: the buffer is appended to and never cut.
LeftAll(u) == u

\* lines.pop(): what follows the last line break.
Left(u) == IF u # <<>> /\ ~Last(u).ends THEN <<Last(u)>> ELSE <<>>

-----------------------------------------------------------------------------
(* The stream around it: when `pull` is called *)

\* The stream wants more: a read is pending, or its queue is empty.
ShouldPull(w, q) == w \/ q = 0

Init ==
    /\ body \in Bodies /\ cut \in (IF body = <<>> THEN {FALSE} ELSE BOOLEAN)
    /\ read = 0 /\ buffer = <<>>
    /\ text = FALSE /\ tools = <<>> /\ done = FALSE /\ out = <<>>
    /\ queued = 0 /\ waiting = FALSE
    /\ pull = "reading" /\ again = FALSE /\ state = "open"
    /\ quiet = FALSE

\* n events are enqueued during a pull: the first answers a pending read, and then
\* the stream asks for another pull.
Enqueue(n) ==
    /\ queued' = queued + n - (IF waiting /\ n > 0 THEN 1 ELSE 0)
    /\ waiting' = (waiting /\ n = 0)
    /\ again' = (again \/ (waiting /\ n > 0))

\* pull: reader.read() returns the next k units.
Chunk(k) ==
    /\ pull = "reading" /\ state = "open" /\ read + k <= Units
    /\ LET u == buffer \o Slice(read + 1, read + k)
           before == [text |-> text, tools |-> tools, done |-> done,
                      events |-> IF read = 0 THEN <<Begin>> ELSE out]
           after == TranslateAll(before, u)
       IN  /\ text' = after.text /\ tools' = after.tools /\ done' = after.done
           /\ out' = after.events
           /\ Enqueue(Len(after.events) - Len(out))
           /\ buffer' = Left(u)
           /\ quiet' = (after.events = out)
    /\ read' = read + k
    /\ pull' = "settling"
    /\ UNCHANGED <<body, cut, state>>

\* Fault: a stream that has its [DONE] is not closed.
BodyEndsOpen ==
    /\ pull = "reading" /\ state = "open" /\ read = Units
    /\ IF done THEN UNCHANGED <<out, queued, waiting, state>>
       ELSE /\ out' = Append(out, Fail)
            /\ queued' = 0 /\ waiting' = FALSE /\ state' = "closed"
    /\ pull' = "idle"
    /\ UNCHANGED <<body, cut, read, buffer, text, tools, done, again, quiet>>

\* Fault: the end of the body counts as the end of the answer.
BodyEndsWell ==
    /\ pull = "reading" /\ state = "open" /\ read = Units
    /\ queued' = 0 /\ waiting' = FALSE /\ state' = "closed" /\ pull' = "idle"
    /\ out' = IF done THEN out ELSE Append(out, End)
    /\ UNCHANGED <<body, cut, read, buffer, text, tools, done, again, quiet>>

\* pull: the body has ended, with [DONE] or without.
BodyEnds ==
    /\ pull = "reading" /\ state = "open" /\ read = Units
    /\ out' = IF done THEN out ELSE Append(out, Fail)
    /\ LET left == queued + (IF done THEN 0 ELSE 1)
       IN  /\ queued' = IF waiting /\ left > 0 THEN left - 1 ELSE left
           /\ state' = IF queued' = 0 THEN "closed" ELSE "closing"
    /\ waiting' = FALSE
    /\ pull' = "idle"
    /\ UNCHANGED <<body, cut, read, buffer, text, tools, done, again, quiet>>

\* The provider's connection breaks, or its call is cut off: pull rejects.
BodyFails ==
    /\ pull = "reading" /\ state = "open"
    /\ state' = "errored" /\ waiting' = FALSE /\ queued' = 0 /\ pull' = "idle"
    /\ UNCHANGED <<body, cut, read, translation, again, quiet>>

\* The promise of pull settles; the stream calls pull again if it was asked to.
Settle ==
    /\ pull = "settling"
    /\ pull' = IF again /\ state = "open" /\ ShouldPull(waiting, queued) THEN "reading" ELSE "idle"
    /\ again' = FALSE
    /\ UNCHANGED <<body, cut, read, translation, queued, waiting, state, quiet>>

\* The reader reads: it takes an event from the queue, or waits for one.
Read ==
    /\ state \in {"open", "closing"} /\ ~waiting
    /\ queued' = IF queued > 0 THEN queued - 1 ELSE 0
    /\ waiting' = (queued = 0)
    /\ state' = IF state = "closing" /\ queued' = 0 THEN "closed" ELSE state
    /\ LET asks == state = "open" /\ ShouldPull(waiting', queued')
       IN  /\ pull' = IF asks /\ pull = "idle" THEN "reading" ELSE pull
           /\ again' = (again \/ (asks /\ pull # "idle"))
    /\ UNCHANGED <<body, cut, read, translation, quiet>>

\* The reader goes away; cancel() cancels the provider's body.
Cancel ==
    /\ state \in {"open", "closing"}
    /\ state' = "cancelled" /\ queued' = 0 /\ waiting' = FALSE
    /\ UNCHANGED <<body, cut, read, translation, pull, again, quiet>>

Next ==
    \/ \E k \in 1..(2 * MaxLines) : Chunk(k)
    \/ BodyEnds \/ BodyFails \/ Settle \/ Read \/ Cancel

Spec == Init /\ [][Next]_vars

\* The provider goes on or breaks off, promises settle, and the reader reads.
FairSpec ==
    /\ Spec
    /\ WF_vars((\E k \in 1..(2 * MaxLines) : Chunk(k)) \/ BodyEnds)
    /\ WF_vars(Settle) /\ WF_vars(Read)

-----------------------------------------------------------------------------
TypeOK ==
    /\ read \in 0..Units /\ Len(buffer) \in 0..1
    /\ text \in BOOLEAN /\ done \in BOOLEAN
    /\ \A j \in 1..Len(tools) : tools[j] \in Tools
    /\ \A j \in 1..Len(out) : out[j].event \in {"begin", "open", "delta", "close", "end", "fail"}
    /\ queued \in Nat /\ waiting \in BOOLEAN /\ again \in BOOLEAN
    /\ pull \in {"idle", "reading", "settling"}
    /\ state \in {"open", "closing", "closed", "errored", "cancelled"}
    /\ quiet \in BOOLEAN

\* Lines with content, and their deltas, counted from the first.
ReceivedUpTo(l) == {j \in 1..l : body[j].kind = "delta"}
DeltasUpTo(n) == {j \in 1..n : out[j].event = "delta"}

\* However the body was cut into chunks, the reader is sent the content of every
\* line received in full, once and in the provider's order, and nothing of the last
\* line if its end is missing (formats.ts buffer, lines.pop()).
DeltasAsReceived ==
    LET lines == read \div 2 IN
    /\ Cardinality(DeltasUpTo(Len(out))) = Cardinality(ReceivedUpTo(lines))
    /\ \A l \in ReceivedUpTo(lines), n \in DeltasUpTo(Len(out)) :
        Cardinality(DeltasUpTo(n)) = Cardinality(ReceivedUpTo(l)) => out[n].item = body[l].item

\* Positions of the events of one item.
At(kind, item) == {j \in 1..Len(out) : out[j] = Event(kind, item)}

\* The events are well bracketed: an item is opened once, before its deltas, and
\* a stream that ends has closed each, after its deltas; the stream begins first,
\* but for a body without a byte, and says nothing after its end (formats.ts: the
\* flags started, textItemStarted and completed, and the two maps of tools).
Bracketed ==
    /\ out # <<>> => out[1] = Begin \/ out = <<Fail>>
    /\ \A j \in 1..Len(out) : out[j] \in {End, Fail} => j = Len(out)
    /\ \A i \in Tools \cup {Text} :
        /\ \A j \in At("open", i), k \in At("open", i) : j = k
        /\ \A j \in At("delta", i) : \E k \in At("open", i) : k < j
        /\ \A j \in At("close", i), k \in At("delta", i) \cup At("open", i) : k < j
        /\ out # <<>> /\ Last(out) = End /\ At("open", i) # {} => At("close", i) # {}

\* A stream that is over says how it ended: completed if the provider's [DONE]
\* arrived, with its line break, and failed otherwise, whatever else arrived.
EndIsTruthful ==
    state \in {"closing", "closed"} =>
        Last(out) = IF \E j \in 1..(Units \div 2) : body[j].kind = "done" THEN End ELSE Fail

\* A reader that waits is being served, unless the last chunk had nothing to enqueue:
\* the stream calls pull again for what a pull enqueued, or for a read that came while
\* it ran, and for nothing else (formats.ts `pull`).
WaitingIsServed == waiting /\ ~quiet => pull # "idle"

\* So a stream whose reader reads on comes to an end if every chunk has something to
\* enqueue (formats.ts `pull`).
QuietStreamsEnd == []~quiet => <>(state \in {"closed", "errored", "cancelled"})

\* "ignore non-JSON provider comments" (formats.ts:153): lines without content,
\* however they arrive, do not keep the stream from ending.
StreamEnds == <>(state \in {"closed", "errored", "cancelled"})
=============================================================================
