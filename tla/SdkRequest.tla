------------------------------- MODULE SdkRequest -------------------------------
(***************************************************************************)
(* One call of the SDK's `request` (packages/sdk/src/lib/fetch.ts): the    *)
(* attempts, the timer of each, the caller's signal, the retry with a new  *)
(* token after a 401, and the pauses in between.                           *)
(*                                                                         *)
(* The server is external: it may have served a request whose answer never *)
(* arrives.  JavaScript runs a step to its next await, so each await is    *)
(* where the other parties can come in.                                    *)
(***************************************************************************)
EXTENDS Integers

CONSTANTS
    MaxRetries,  \* config.maxRetries
    Timeout,     \* config.timeout, in ticks
    BaseDelay    \* config.baseDelayMs, in ticks

ASSUME SdkAssumption == MaxRetries \in Nat /\ Timeout \in Nat \ {0} /\ BaseDelay \in Nat \ {0}

\* What powers of two are, which the prover does not know.
ASSUME PowersAssumption ==
    /\ 2^0 = 1
    /\ \A n \in 0..MaxRetries : 2^n \in Nat /\ 2^(n + 1) = 2 * 2^n

VARIABLES
    options,  \* the method, options.retry, whether onAuthRequired applies, whether there is a signal
    at,       \* the await the call is at: "loop" stands for the head of an attempt
    attempt,
    timer,    \* ticks left of the attempt's timer; Off when it is not set
    expired,  \* the timer has aborted the attempt's controller
    pause,    \* ticks left of the wait
    aborted,  \* the caller's signal
    result,   \* "none" yet, a "value", an "error", or the "abort" of the caller
    sent,     \* history: requests sent
    served,   \* history: requests the server has carried out
    elapsed,  \* history: ticks, but for those in onAuthRequired
    mark      \* history: requests sent when the caller aborted

vars == <<options, at, attempt, timer, expired, pause, aborted, result, sent, served, elapsed, mark>>

Off == -1

\* Fault: the default is to retry.
RetriesUnlessTold == IF options.retry = "no" THEN 0 ELSE MaxRetries

\* Only a GET is retried unless the options say so.
Retries ==
    IF options.retry = "yes" \/ (options.retry = "unset" /\ options.method = "GET")
    THEN MaxRetries ELSE 0

Init ==
    /\ options \in [method : {"GET", "POST"}, retry : {"yes", "no", "unset"}, auth : BOOLEAN, signal : BOOLEAN]
    /\ at = "loop" /\ attempt = 0 /\ timer = Off /\ expired = FALSE /\ pause = 0
    /\ aborted = FALSE /\ result = "none"
    /\ sent = 0 /\ served = 0 /\ elapsed = 0 /\ mark = 0

Settle(r) == at' = "settled" /\ result' = r /\ timer' = Off /\ UNCHANGED pause

\* Fault: one attempt too many is begun.
CaughtByOne(retryable, signalled) ==
    /\ UNCHANGED <<options, attempt, expired, elapsed>>
    /\ CASE signalled -> Settle("abort")
         [] ~signalled /\ (~retryable \/ attempt > Retries) -> Settle("error")
         [] OTHER -> at' = "waiting" /\ pause' = BaseDelay * 2^attempt /\ UNCHANGED <<timer, result>>

\* The catch clause: the caller's abort comes first, then the last attempt; otherwise wait.
Caught(retryable, signalled) ==
    /\ UNCHANGED <<options, attempt, expired, elapsed>>
    /\ CASE signalled -> Settle("abort")
         [] ~signalled /\ (~retryable \/ attempt = Retries) -> Settle("error")
         [] OTHER -> at' = "waiting" /\ pause' = BaseDelay * 2^attempt /\ UNCHANGED <<timer, result>>

\* The head of the loop, up to the first fetch.
Begin ==
    /\ at = "loop"
    /\ IF aborted
       THEN Settle("abort") /\ UNCHANGED <<expired, sent>>
       ELSE /\ at' = "fetching" /\ timer' = Timeout /\ expired' = FALSE /\ sent' = sent + 1
            /\ UNCHANGED <<pause, result>>
    /\ UNCHANGED <<options, attempt, aborted, served, elapsed, mark>>

OnTheWire == at \in {"fetching", "refetching"}

\* Whether or not the server carried the request out.
MaybeServed == served' \in {served, served + 1}

\* A response that can be parsed.
Succeeds ==
    /\ OnTheWire /\ served' = served + 1 /\ Settle("value")
    /\ UNCHANGED <<options, attempt, expired, aborted, sent, elapsed, mark>>

\* A 429 or 5xx, an answer that is not JSON, or a network error.
FailsForNow ==
    /\ OnTheWire /\ MaybeServed /\ Caught(TRUE, aborted)
    /\ UNCHANGED <<aborted, sent, mark>>

\* A 401 the first time: ask for a token.
Unauthorized ==
    /\ at = "fetching" /\ options.auth
    /\ at' = "authing"
    /\ UNCHANGED <<options, attempt, timer, expired, pause, aborted, result, sent, served, elapsed, mark>>

\* Any other 4xx, a 401 to the new token among them.
FailsForGood ==
    /\ OnTheWire /\ Caught(FALSE, aborted)
    /\ UNCHANGED <<aborted, sent, served, mark>>

\* Fault: the second fetch is not given the signal.
AuthResolvesUnsignalled ==
    /\ at = "authing"
    /\ at' = "refetching" /\ sent' = sent + 1
    /\ UNCHANGED <<options, attempt, timer, expired, pause, result, aborted, served, elapsed, mark>>

\* onAuthRequired has a token: fetch again, which throws at once if the timer or the
\* caller has aborted meanwhile.
AuthResolves ==
    /\ at = "authing"
    /\ IF expired \/ aborted
       THEN Caught(TRUE, aborted) /\ UNCHANGED sent
       ELSE /\ at' = "refetching" /\ sent' = sent + 1
            /\ UNCHANGED <<options, attempt, timer, expired, pause, result, elapsed>>
    /\ UNCHANGED <<aborted, served, mark>>

\* onAuthRequired throws; an error of the SDK with a status of its own may be final.
AuthFails ==
    /\ at = "authing" /\ \E retryable \in BOOLEAN : Caught(retryable, aborted)
    /\ UNCHANGED <<aborted, sent, served, mark>>

\* Fault: the timer of the wait is cleared and its promise is not rejected.
AbortHangs ==
    /\ options.signal /\ ~aborted /\ at # "settled"
    /\ aborted' = TRUE /\ mark' = sent
    /\ IF OnTheWire THEN MaybeServed /\ Settle("abort")
       ELSE UNCHANGED <<at, result, timer, served>> /\ pause' = IF at = "waiting" THEN Off ELSE pause
    /\ UNCHANGED <<options, attempt, expired, sent, elapsed>>

\* The caller aborts: a fetch and a wait are interrupted, onAuthRequired is not.
Abort ==
    /\ options.signal /\ ~aborted /\ at # "settled"
    /\ aborted' = TRUE /\ mark' = sent
    /\ IF OnTheWire THEN MaybeServed ELSE UNCHANGED served
    /\ IF OnTheWire \/ at = "waiting" THEN Settle("abort") ELSE UNCHANGED <<at, result, timer, pause>>
    /\ UNCHANGED <<options, attempt, expired, sent, elapsed>>

\* Fault: the timer aborts nothing.
ExpireUnheard ==
    /\ timer = 0 /\ ~expired
    /\ expired' = TRUE
    /\ UNCHANGED <<options, at, attempt, timer, pause, aborted, result, sent, served, elapsed, mark>>

\* The timer of the attempt: it interrupts a fetch, and is of no effect on a wait.
Expire ==
    /\ timer = 0 /\ ~expired
    /\ IF OnTheWire
       THEN /\ MaybeServed
            /\ IF attempt = Retries THEN Settle("error")
               ELSE at' = "waiting" /\ pause' = BaseDelay * 2^attempt /\ UNCHANGED <<timer, result>>
       ELSE UNCHANGED <<at, timer, pause, result, served>>
    /\ expired' = TRUE
    /\ UNCHANGED <<options, attempt, aborted, sent, elapsed, mark>>

\* The wait is over; the finally clause clears the timer.
Wake ==
    /\ at = "waiting" /\ pause = 0
    /\ at' = "loop" /\ attempt' = attempt + 1 /\ timer' = Off
    /\ UNCHANGED <<options, expired, pause, aborted, result, sent, served, elapsed, mark>>

\* Timers are not late.
Tick ==
    /\ OnTheWire \/ at \in {"authing", "waiting"}
    /\ timer = 0 => expired
    /\ at = "waiting" => pause > 0
    /\ timer' = IF timer > 0 THEN timer - 1 ELSE timer
    /\ pause' = IF at = "waiting" THEN pause - 1 ELSE pause
    /\ elapsed' = IF at = "authing" THEN elapsed ELSE elapsed + 1
    /\ UNCHANGED <<options, at, attempt, expired, aborted, result, sent, served, mark>>

Next ==
    \/ Begin \/ Succeeds \/ FailsForNow \/ FailsForGood \/ Unauthorized
    \/ AuthResolves \/ AuthFails \/ Abort \/ Expire \/ Wake \/ Tick

Spec == Init /\ [][Next]_vars

\* JavaScript goes on, and time passes.  Nothing is asked of the server, of
\* onAuthRequired or of the caller.
FairSpec == Spec /\ WF_vars(Begin) /\ WF_vars(Wake) /\ WF_vars(Expire) /\ WF_vars(Tick)

-----------------------------------------------------------------------------
TypeOK ==
    /\ at \in {"loop", "fetching", "authing", "refetching", "waiting", "settled"}
    /\ attempt \in 0..Retries /\ timer \in Off..Timeout /\ pause \in 0..(BaseDelay * 2^MaxRetries)
    /\ expired \in BOOLEAN /\ aborted \in BOOLEAN
    /\ result \in {"none", "value", "error", "abort"} /\ (at = "settled" <=> result # "none")
    /\ sent \in 0..(2 * (MaxRetries + 1)) /\ served \in 0..sent /\ elapsed \in Nat /\ mark \in 0..sent

\* A request other than a GET is not carried out twice unless the caller allowed it:
\* not after a timeout or a network error of a request that was served, and not after a
\* new token (fetch.ts `retries`, `retryable`, onAuthRequired).
ServedOnce == options.method # "GET" /\ options.retry # "yes" => served <= 1

\* A caller who aborts before the call has settled gets the abort and nothing else,
\* and nothing is sent any more, wherever the call was: in a fetch, in a pause, in
\* onAuthRequired, or between two attempts (fetch.ts `signal`, `abort`, wait).
AbortWins == aborted => result \in {"none", "abort"} /\ sent = mark

\* The call takes no longer than an attempt's timeout for each attempt and the pauses
\* between them, and whatever time onAuthRequired takes (fetch.ts timeoutId, wait).
TimeBounded == elapsed <= (Retries + 1) * Timeout + BaseDelay * (2^Retries - 1)

\* The call settles, even if the server never answers, unless onAuthRequired does not.
Settles == <>(at = "settled") \/ <>[](at = "authing")
=============================================================================
