--------------------------- MODULE SdkRequestProofs ---------------------------
(***************************************************************************)
(* One call of the SDK, for every number of retries, timeout and delay: it *)
(* is carried out once where it must not be repeated, the caller's abort   *)
(* wins, and the call takes no longer than its attempts and pauses.        *)
(***************************************************************************)
EXTENDS SdkRequest, TLAPS, WellFoundedInduction

-----------------------------------------------------------------------------
(* Time: what the attempts and pauses before an attempt take. *)

Spent(n) == n * Timeout + BaseDelay * (2^n - 1)

\* What a pause takes after attempt n.
Pause(n) == BaseDelay * 2^n

\* The numbers are numbers.
LEMMA PauseType == \A n \in 0..MaxRetries : Pause(n) \in Nat
  BY SdkAssumption, PowersAssumption DEF SdkAssumption, PowersAssumption, Pause

LEMMA SpentStep ==
  /\ Spent(0) = 0
  /\ \A n \in 0..MaxRetries : Spent(n) \in Int
  /\ \A n \in 0..MaxRetries : n + 1 \in 0..MaxRetries =>
        Spent(n + 1) = Spent(n) + Timeout + Pause(n) /\ Pause(n + 1) = 2 * Pause(n)
<1>1. Spent(0) = 0
  BY SdkAssumption, PowersAssumption DEF SdkAssumption, PowersAssumption, Spent
<1>2. \A n \in 0..MaxRetries : Spent(n) \in Int
  BY SdkAssumption, PowersAssumption DEF SdkAssumption, PowersAssumption, Spent
<1>3. ASSUME NEW n \in 0..MaxRetries, n + 1 \in 0..MaxRetries
      PROVE  Spent(n + 1) = Spent(n) + Timeout + Pause(n) /\ Pause(n + 1) = 2 * Pause(n)
  <2> DEFINE x == 2^n
             y == 2^(n + 1)
  <2>1. x \in Nat /\ y = 2 * x
    BY PowersAssumption DEF PowersAssumption
  <2> HIDE DEF x, y
  <2>2. (n + 1) * Timeout + BaseDelay * (y - 1)
          = n * Timeout + BaseDelay * (x - 1) + Timeout + BaseDelay * x
    BY <2>1, SdkAssumption DEF SdkAssumption
  <2>3. BaseDelay * y = 2 * (BaseDelay * x)
    BY <2>1, SdkAssumption DEF SdkAssumption
  <2>4. QED
    BY <2>2, <2>3 DEF Spent, Pause, x, y
<1>4. QED
  BY <1>1, <1>2, <1>3

\* Among numbers there is a least one.
LEMMA Least ==
  ASSUME NEW T, T \subseteq Nat, T # {}
  PROVE  \E g \in T : \A t \in T : g <= t
<1> DEFINE R == {ss \in Nat \X Nat : ss[1] < ss[2]}
<1>1. IsWellFoundedOn(R, Nat)
  BY NatLessThanWellFounded, Zenon DEF OpToRel
<1>2. PICK g \in T : \A t \in T : ~(<<t, g>> \in R)
  <2> HIDE DEF R
  <2>1. QED
    BY <1>1, WFMin, Zenon
<1>3. ASSUME NEW t \in T
      PROVE  g <= t
  <2>1. t \in Nat /\ g \in Nat /\ <<t, g>> \notin R
    BY <1>2
  <2>2. ~(t < g)
    BY <2>1
  <2>3. QED
    BY <2>1, <2>2
<1>4. QED
  BY <1>3

\* More attempts take more time, and later pauses are longer.
LEMMA Grows ==
  \A n \in 0..MaxRetries : \A m \in 0..n : Spent(m) <= Spent(n) /\ Pause(m) <= Pause(n)
<1> DEFINE Bad == {n \in 0..MaxRetries : \E m \in 0..n : ~(Spent(m) <= Spent(n) /\ Pause(m) <= Pause(n))}
<1>1. SUFFICES ASSUME Bad # {}
               PROVE  FALSE
  OBVIOUS
<1>2. PICK g \in Bad : \A t \in Bad : g <= t
  <2>1. Bad \subseteq Nat
    BY SdkAssumption DEF SdkAssumption
  <2> HIDE DEF Bad
  <2>2. QED
    BY <1>1, <2>1, Least
<1>3. PICK m \in 0..g : ~(Spent(m) <= Spent(g) /\ Pause(m) <= Pause(g))
  BY <1>2
<1>4. g \in 0..MaxRetries /\ MaxRetries \in Nat /\ Timeout \in Nat
  BY <1>2, SdkAssumption DEF SdkAssumption
<1>5. m # g
  BY <1>3, <1>4, SpentStep, PauseType
<1>6. g - 1 \in 0..MaxRetries /\ (g - 1) + 1 = g /\ m \in 0..(g - 1) /\ g - 1 \notin Bad
  BY <1>2, <1>3, <1>4, <1>5
<1>7. Spent(m) <= Spent(g - 1) /\ Pause(m) <= Pause(g - 1)
  BY <1>6
<1>8. Spent(g) = Spent(g - 1) + Timeout + Pause(g - 1) /\ Pause(g) = 2 * Pause(g - 1)
  BY <1>4, <1>6, SpentStep
<1>9. QED
  BY <1>3, <1>4, <1>6, <1>7, <1>8, SpentStep, PauseType

-----------------------------------------------------------------------------
(* The inductive invariant. *)

\* A call pauses only before another attempt; a fetch has its timer, and has not been
\* answered; at most two requests are sent per attempt.
Counted ==
    /\ at = "waiting" => attempt < Retries
    /\ OnTheWire => ~expired /\ served < sent
    /\ OnTheWire \/ at = "authing" => timer \in 0..Timeout
    /\ sent <= 2 * attempt + 2
    /\ at \in {"fetching", "authing"} => sent <= 2 * attempt + 1
    /\ at = "loop" => sent <= 2 * attempt

\* A call that is not to be retried settles as soon as a request may have been served.
Once ==
    Retries = 0 => served <= 1 /\ (at # "settled" => served = 0)

\* A call that was aborted is in no fetch and no pause, and has sent nothing since.
Aborts ==
    aborted => /\ at \in {"loop", "authing", "settled"}
               /\ result \in {"none", "abort"} /\ sent = mark

\* The time taken, in each state, and what the timer or the pause may still take.
Timely ==
    /\ at = "loop" => elapsed <= Spent(attempt)
    /\ OnTheWire \/ at = "authing" => elapsed + timer <= Spent(attempt) + Timeout
    /\ at = "waiting" => elapsed + pause <= Spent(attempt) + Timeout + Pause(attempt)
    /\ at = "settled" => elapsed <= Spent(Retries) + Timeout

SdkInv == TypeOK /\ Counted /\ Once /\ Aborts /\ Timely

\* What every step needs of the numbers.
LEMMA Numbers ==
  ASSUME SdkInv
  PROVE  /\ MaxRetries \in Nat /\ Timeout \in Nat \ {0} /\ Retries \in 0..MaxRetries
         /\ attempt \in 0..Retries /\ attempt \in 0..MaxRetries
         /\ timer \in Off..Timeout /\ Off = -1
         /\ pause \in 0..Pause(MaxRetries) /\ pause \in Nat
         /\ expired \in BOOLEAN /\ aborted \in BOOLEAN
         /\ at \in {"loop", "fetching", "authing", "refetching", "waiting", "settled"}
         /\ sent \in Nat /\ served \in Nat /\ served <= sent /\ elapsed \in Nat
         /\ mark \in Nat /\ mark <= sent
         /\ Spent(attempt) \in Int /\ Spent(Retries) \in Int /\ Spent(attempt) <= Spent(Retries)
         /\ Pause(attempt) \in 0..Pause(MaxRetries) /\ Pause(MaxRetries) \in Nat
<1>1. /\ MaxRetries \in Nat /\ Timeout \in Nat \ {0} /\ Retries \in 0..MaxRetries
      /\ Off = -1
  BY SdkAssumption DEF SdkAssumption, Retries, Off
<1>2. /\ attempt \in 0..Retries
      /\ timer \in Off..Timeout /\ pause \in 0..Pause(MaxRetries)
      /\ expired \in BOOLEAN /\ aborted \in BOOLEAN
      /\ at \in {"loop", "fetching", "authing", "refetching", "waiting", "settled"}
      /\ sent \in 0..(2 * (MaxRetries + 1)) /\ served \in 0..sent /\ elapsed \in Nat /\ mark \in 0..sent
  BY DEF SdkInv, TypeOK, Pause
<1>3. attempt \in 0..MaxRetries /\ MaxRetries \in 0..MaxRetries
  BY <1>1, <1>2
<1>4. /\ Spent(attempt) \in Int /\ Spent(Retries) \in Int /\ Spent(attempt) <= Spent(Retries)
      /\ Pause(attempt) \in Nat /\ Pause(MaxRetries) \in Nat /\ Pause(attempt) <= Pause(MaxRetries)
  BY <1>1, <1>2, <1>3, SpentStep, PauseType, Grows
<1>5. QED
  BY <1>1, <1>2, <1>3, <1>4

\* A pause is followed by another attempt, within the time of all of them.
LEMMA Another ==
  ASSUME SdkInv, attempt < Retries
  PROVE  Spent(attempt) + Timeout + Pause(attempt) = Spent(attempt + 1)
         /\ Spent(attempt + 1) <= Spent(Retries) /\ attempt + 1 \in 0..Retries
<1>1. attempt + 1 \in 0..Retries /\ attempt + 1 \in 0..MaxRetries
  BY Numbers
<1>2. QED
  BY <1>1, Numbers, SpentStep, Grows

-----------------------------------------------------------------------------
(* The steps. *)

\* An attempt that fails settles the call, or pauses before another.
LEMMA CaughtEffect ==
  ASSUME SdkInv, NEW retryable \in BOOLEAN, NEW signalled \in BOOLEAN, Caught(retryable, signalled)
  PROVE  /\ UNCHANGED <<options, attempt, expired, elapsed>>
         /\ pause' = IF at' = "waiting" THEN Pause(attempt) ELSE pause
         /\ \/ /\ at' = "settled" /\ timer' = Off
               /\ result' \in {"abort", "error"} /\ (signalled => result' = "abort")
            \/ /\ ~signalled /\ attempt < Retries
               /\ at' = "waiting" /\ timer' = timer /\ result' = result
<1>1. attempt \in 0..Retries /\ Retries \in Nat
  BY Numbers
<1>2. CASE signalled
  BY <1>2, Zenon DEF Caught, Settle
<1>3. CASE ~signalled /\ (~retryable \/ attempt = Retries)
  BY <1>3 DEF Caught, Settle
<1>4. CASE ~signalled /\ ~(~retryable \/ attempt = Retries)
  <2>1. attempt < Retries
    BY <1>1, <1>4
  <2>2. QED
    BY <1>4, <2>1 DEF Caught, Pause
<1>5. QED
  BY <1>2, <1>3, <1>4

\* The options stay, and with them the number of retries.
LEMMA SameRetries == options' = options => Retries' = Retries
  BY DEF Retries

\* A fetch or onAuthRequired that fails.
LEMMA CaughtStep ==
  ASSUME SdkInv, NEW retryable \in BOOLEAN, Caught(retryable, aborted),
         at \in {"fetching", "authing", "refetching"},
         sent' = sent, aborted' = aborted, mark' = mark,
         served' = served \/ (OnTheWire /\ served' = served + 1)
  PROVE  SdkInv'
<1>1. /\ options' = options /\ attempt' = attempt /\ expired' = expired /\ elapsed' = elapsed
      /\ pause' = IF at' = "waiting" THEN Pause(attempt) ELSE pause
      /\ \/ /\ at' = "settled" /\ timer' = Off
            /\ result' \in {"abort", "error"} /\ (aborted => result' = "abort")
         \/ /\ ~aborted /\ attempt < Retries
            /\ at' = "waiting" /\ timer' = timer /\ result' = result
  BY Numbers, CaughtEffect
<1>2. Retries' = Retries
  BY <1>1, SameRetries
<1>3. served' \in 0..sent
  BY Numbers DEF SdkInv, Counted
<1>4. TypeOK'
  BY <1>1, <1>2, <1>3, Numbers DEF SdkInv, TypeOK, Pause
<1>5. Counted'
  BY <1>1, <1>2, Numbers DEF SdkInv, Counted, OnTheWire
<1>6. Once'
  BY <1>1, <1>2, Numbers DEF SdkInv, Once
<1>7. Aborts'
  BY <1>1 DEF SdkInv, Aborts
<1>8. Timely'
  BY <1>1, <1>2, Numbers DEF SdkInv, Counted, Timely, OnTheWire
<1>9. QED
  BY <1>4, <1>5, <1>6, <1>7, <1>8 DEF SdkInv

\* The head of an attempt: the abort is heard, or a request is sent.
LEMMA BeginStep ==
  ASSUME SdkInv, Begin
  PROVE  SdkInv'
<1>1. /\ at = "loop"
      /\ \/ /\ aborted /\ at' = "settled" /\ result' = "abort" /\ timer' = Off
            /\ expired' = expired /\ sent' = sent
         \/ /\ ~aborted /\ at' = "fetching" /\ timer' = Timeout /\ expired' = FALSE
            /\ sent' = sent + 1 /\ result' = result
      /\ options' = options /\ attempt' = attempt /\ aborted' = aborted /\ served' = served
      /\ elapsed' = elapsed /\ mark' = mark /\ pause' = pause
  BY DEF Begin, Settle
<1>2. Retries' = Retries
  BY <1>1, SameRetries
<1>3. sent <= 2 * attempt
  BY <1>1 DEF SdkInv, Counted
<1>4. TypeOK'
  <2>1. sent' \in 0..(2 * (MaxRetries + 1)) /\ served' \in 0..sent' /\ mark' \in 0..sent'
    BY <1>1, <1>3, Numbers
  <2>2. timer' \in Off..Timeout
    BY <1>1, Numbers
  <2>3. QED
    BY <1>1, <1>2, <2>1, <2>2, Numbers DEF SdkInv, TypeOK
<1>5. Counted'
  BY <1>1, <1>2, <1>3, Numbers DEF SdkInv, Counted, OnTheWire
<1>6. Once'
  BY <1>1, <1>2, Numbers DEF SdkInv, Once
<1>7. Aborts'
  BY <1>1 DEF SdkInv, Aborts
<1>8. Timely'
  BY <1>1, <1>2, Numbers DEF SdkInv, Timely, OnTheWire
<1>9. QED
  BY <1>4, <1>5, <1>6, <1>7, <1>8 DEF SdkInv

\* The answer, which an aborted call is not there to get.
LEMMA SucceedsStep ==
  ASSUME SdkInv, Succeeds
  PROVE  SdkInv'
<1>1. /\ at \in {"fetching", "refetching"} /\ served' = served + 1
      /\ at' = "settled" /\ result' = "value" /\ timer' = Off /\ pause' = pause
      /\ options' = options /\ attempt' = attempt /\ expired' = expired /\ aborted' = aborted
      /\ sent' = sent /\ elapsed' = elapsed /\ mark' = mark
  BY DEF Succeeds, Settle, OnTheWire
<1>2. Retries' = Retries
  BY <1>1, SameRetries
<1>3. served' \in 0..sent
  BY <1>1, Numbers DEF SdkInv, Counted, OnTheWire
<1>4. TypeOK'
  BY <1>1, <1>2, <1>3, Numbers DEF SdkInv, TypeOK
<1>5. Counted'
  BY <1>1, <1>2, Numbers DEF SdkInv, Counted, OnTheWire
<1>6. Once'
  BY <1>1, <1>2, Numbers DEF SdkInv, Once
<1>7. Aborts'
  BY <1>1 DEF SdkInv, Aborts
<1>8. Timely'
  BY <1>1, <1>2, Numbers DEF SdkInv, Counted, Timely, OnTheWire
<1>9. QED
  BY <1>4, <1>5, <1>6, <1>7, <1>8 DEF SdkInv

\* A 401, and the token that answers it in time.
LEMMA AuthStep ==
  ASSUME SdkInv,
         Unauthorized \/ (AuthResolves /\ ~(expired \/ aborted))
  PROVE  SdkInv'
<1>1. /\ \/ at = "fetching" /\ at' = "authing" /\ sent' = sent
         \/ at = "authing" /\ at' = "refetching" /\ sent' = sent + 1 /\ ~expired /\ ~aborted
      /\ options' = options /\ attempt' = attempt /\ timer' = timer /\ expired' = expired
      /\ pause' = pause /\ aborted' = aborted /\ result' = result
      /\ served' = served /\ elapsed' = elapsed /\ mark' = mark
  BY DEF Unauthorized, AuthResolves
<1>2. Retries' = Retries
  BY <1>1, SameRetries
<1>3. sent' <= 2 * attempt + 2 /\ (at = "authing" => sent <= 2 * attempt + 1)
  BY <1>1, Numbers DEF SdkInv, Counted
<1>4. TypeOK'
  BY <1>1, <1>2, <1>3, Numbers DEF SdkInv, TypeOK
<1>5. Counted'
  BY <1>1, <1>2, <1>3, Numbers DEF SdkInv, Counted, OnTheWire
<1>6. Once'
  BY <1>1, <1>2, Numbers DEF SdkInv, Once
<1>7. Aborts'
  BY <1>1 DEF SdkInv, Aborts
<1>8. Timely'
  BY <1>1, <1>2, Numbers DEF SdkInv, Timely, OnTheWire
<1>9. QED
  BY <1>4, <1>5, <1>6, <1>7, <1>8 DEF SdkInv

\* The caller's abort, and the timer's of the attempt.
LEMMA AbortStep ==
  ASSUME SdkInv, Abort
  PROVE  SdkInv'
<1>1. /\ ~aborted /\ at # "settled" /\ aborted' = TRUE /\ mark' = sent
      /\ \/ /\ OnTheWire \/ at = "waiting"
            /\ at' = "settled" /\ result' = "abort" /\ timer' = Off /\ pause' = pause
         \/ /\ ~(OnTheWire \/ at = "waiting")
            /\ at' = at /\ result' = result /\ timer' = timer /\ pause' = pause
      /\ served' = served \/ (OnTheWire /\ served' = served + 1)
      /\ options' = options /\ attempt' = attempt /\ expired' = expired /\ sent' = sent
      /\ elapsed' = elapsed
  BY DEF Abort, Settle, MaybeServed
<1>2. Retries' = Retries
  BY <1>1, SameRetries
<1>3. served' \in 0..sent
  BY <1>1, Numbers DEF SdkInv, Counted
<1>4. TypeOK'
  BY <1>1, <1>2, <1>3, Numbers DEF SdkInv, TypeOK, OnTheWire
<1>5. Counted'
  BY <1>1, <1>2, Numbers DEF SdkInv, Counted, OnTheWire
<1>6. Once'
  BY <1>1, <1>2, Numbers DEF SdkInv, Once, OnTheWire
<1>7. Aborts'
  BY <1>1, Numbers DEF SdkInv, TypeOK, Aborts, OnTheWire
<1>8. Timely'
  <2>1. at = "waiting" => elapsed <= Spent(Retries) + Timeout
    BY Numbers, Another DEF SdkInv, Counted, Timely
  <2>2. OnTheWire => elapsed <= Spent(Retries) + Timeout
    BY Numbers DEF SdkInv, Counted, Timely, OnTheWire
  <2>3. QED
    BY <1>1, <1>2, <2>1, <2>2, Numbers DEF SdkInv, Timely, OnTheWire
<1>9. QED
  BY <1>4, <1>5, <1>6, <1>7, <1>8 DEF SdkInv

LEMMA ExpireStep ==
  ASSUME SdkInv, Expire
  PROVE  SdkInv'
<1>1. /\ timer = 0 /\ expired' = TRUE
      /\ \/ /\ OnTheWire /\ attempt = Retries
            /\ at' = "settled" /\ result' = "error" /\ timer' = Off /\ pause' = pause
         \/ /\ OnTheWire /\ attempt # Retries
            /\ at' = "waiting" /\ pause' = Pause(attempt) /\ result' = result /\ timer' = timer
         \/ ~OnTheWire /\ at' = at /\ result' = result /\ timer' = timer /\ pause' = pause
      /\ served' = served \/ (OnTheWire /\ served' = served + 1)
      /\ options' = options /\ attempt' = attempt /\ aborted' = aborted /\ sent' = sent
      /\ elapsed' = elapsed /\ mark' = mark
  BY DEF Expire, Settle, MaybeServed, Pause
<1>2. Retries' = Retries
  BY <1>1, SameRetries
<1>3. served' \in 0..sent
  BY <1>1, Numbers DEF SdkInv, Counted
<1>4. TypeOK'
  BY <1>1, <1>2, <1>3, Numbers DEF SdkInv, TypeOK, OnTheWire, Pause
<1>5. Counted'
  BY <1>1, <1>2, Numbers DEF SdkInv, Counted, OnTheWire
<1>6. Once'
  BY <1>1, <1>2, Numbers DEF SdkInv, Once, OnTheWire
<1>7. Aborts'
  BY <1>1, Numbers DEF SdkInv, Aborts, OnTheWire
<1>8. Timely'
  BY <1>1, <1>2, Numbers DEF SdkInv, Timely, OnTheWire
<1>9. QED
  BY <1>4, <1>5, <1>6, <1>7, <1>8 DEF SdkInv

\* The end of a pause, which leaves time for the attempts that follow.
LEMMA WakeStep ==
  ASSUME SdkInv, Wake
  PROVE  SdkInv'
<1>1. /\ at = "waiting" /\ pause = 0 /\ at' = "loop" /\ attempt' = attempt + 1 /\ timer' = Off
      /\ options' = options /\ expired' = expired /\ pause' = pause /\ aborted' = aborted
      /\ result' = result /\ sent' = sent /\ served' = served /\ elapsed' = elapsed /\ mark' = mark
  BY DEF Wake
<1>2. Retries' = Retries
  BY <1>1, SameRetries
<1>3. /\ attempt < Retries /\ sent <= 2 * attempt + 2
  BY <1>1 DEF SdkInv, Counted
<1>4. TypeOK'
  BY <1>1, <1>2, <1>3, Numbers DEF SdkInv, TypeOK
<1>5. Counted'
  BY <1>1, <1>2, <1>3, Numbers DEF SdkInv, Counted, OnTheWire
<1>6. Once'
  BY <1>1, <1>2, Numbers DEF SdkInv, Once
<1>7. Aborts'
  BY <1>1 DEF SdkInv, Aborts
<1>8. Timely'
  BY <1>1, <1>2, <1>3, Numbers, Another DEF SdkInv, Timely, OnTheWire
<1>9. QED
  BY <1>4, <1>5, <1>6, <1>7, <1>8 DEF SdkInv

\* Time: what passes in a fetch or a pause is taken off its timer.
LEMMA TickStep ==
  ASSUME SdkInv, Tick
  PROVE  SdkInv'
<1>1. /\ at \in {"fetching", "refetching", "authing", "waiting"}
      /\ timer = 0 => expired
      /\ at = "waiting" => pause > 0
      /\ timer' = IF timer > 0 THEN timer - 1 ELSE timer
      /\ pause' = IF at = "waiting" THEN pause - 1 ELSE pause
      /\ elapsed' = IF at = "authing" THEN elapsed ELSE elapsed + 1
      /\ options' = options /\ at' = at /\ attempt' = attempt /\ expired' = expired
      /\ aborted' = aborted /\ result' = result /\ sent' = sent /\ served' = served /\ mark' = mark
  BY DEF Tick, OnTheWire
<1>2. Retries' = Retries
  BY <1>1, SameRetries
<1>3. timer' \in Off..Timeout /\ pause' \in 0..Pause(MaxRetries) /\ elapsed' \in Nat
  BY <1>1, Numbers
<1>4. TypeOK'
  BY <1>1, <1>2, <1>3, Numbers DEF SdkInv, TypeOK, Pause
<1>5. Counted'
  BY <1>1, <1>2, Numbers DEF SdkInv, Counted, OnTheWire
<1>6. Once'
  BY <1>1, <1>2 DEF SdkInv, Once
<1>7. Aborts'
  BY <1>1 DEF SdkInv, Aborts
<1>8. Timely'
  <2>1. OnTheWire => timer > 0
    BY <1>1, Numbers DEF SdkInv, Counted, OnTheWire
  <2>2. QED
    BY <1>1, <1>2, <2>1, Numbers DEF SdkInv, Timely, OnTheWire
<1>9. QED
  BY <1>4, <1>5, <1>6, <1>7, <1>8 DEF SdkInv

-----------------------------------------------------------------------------
(* The theorems. *)

LEMMA InitInv ==
  ASSUME Init
  PROVE  SdkInv
<1>1. Retries \in 0..MaxRetries /\ Retries \in Nat /\ MaxRetries \in Nat /\ Timeout \in Nat
  BY SdkAssumption DEF SdkAssumption, Retries
<1>2. MaxRetries \in 0..MaxRetries
  BY <1>1
<1>3. Pause(MaxRetries) \in Nat
  BY <1>2, PauseType
<1>4. TypeOK
  <2>1. /\ at = "loop" /\ attempt = 0 /\ timer = -1 /\ expired = FALSE /\ pause = 0
        /\ aborted = FALSE /\ result = "none"
        /\ sent = 0 /\ served = 0 /\ elapsed = 0 /\ mark = 0
    BY DEF Init, Off
  <2>2. pause \in 0..Pause(MaxRetries)
    BY <1>3, <2>1
  <2>3. attempt \in 0..Retries /\ timer \in (-1)..Timeout
        /\ sent \in 0..(2 * (MaxRetries + 1)) /\ served \in 0..sent /\ mark \in 0..sent
    BY <1>1, <2>1
  <2>4. QED
    BY <2>1, <2>2, <2>3 DEF TypeOK, Pause, Off
<1>5. Counted /\ Once /\ Aborts
  BY <1>1 DEF Init, Counted, Once, Aborts, OnTheWire
<1>6. Timely
  BY SpentStep DEF Init, Timely, OnTheWire
<1>7. QED
  BY <1>4, <1>5, <1>6 DEF SdkInv

LEMMA NextInv ==
  ASSUME SdkInv, [Next]_vars
  PROVE  SdkInv'
<1>1. CASE UNCHANGED vars
  <2>1. SdkInv' = SdkInv
    BY <1>1 DEF vars, SdkInv, TypeOK, Counted, Once, Aborts, Timely, OnTheWire, Retries
  <2>2. QED
    BY <2>1
<1>2. CASE FailsForNow \/ FailsForGood
  <2>1. \E retryable \in BOOLEAN : Caught(retryable, aborted)
    BY <1>2 DEF FailsForNow, FailsForGood
  <2>2. QED
    BY <1>2, <2>1, CaughtStep DEF FailsForNow, FailsForGood, OnTheWire, MaybeServed, Caught
<1>3. CASE AuthFails \/ (AuthResolves /\ (expired \/ aborted))
  <2>1. \E retryable \in BOOLEAN : Caught(retryable, aborted)
    BY <1>3 DEF AuthFails, AuthResolves
  <2>2. QED
    BY <1>3, <2>1, CaughtStep DEF AuthFails, AuthResolves
<1>4. QED
  BY <1>1, <1>2, <1>3, BeginStep, SucceedsStep, AuthStep, AbortStep, ExpireStep, WakeStep, TickStep DEF Next

\* The inductive invariant of a call: what may have been sent and served, and what
\* time is left to it, at each await (fetch.ts request).
THEOREM SdkInvariant == Spec => []SdkInv
<1>1. Init => SdkInv
  BY InitInv
<1>2. SdkInv /\ [Next]_vars => SdkInv'
  BY NextInv
<1>3. QED
  BY <1>1, <1>2, PTL DEF Spec

\* The call's state keeps its types: no attempt beyond the last, two requests each.
THEOREM SdkTypes == Spec => []TypeOK
<1>1. SdkInv => TypeOK
  BY DEF SdkInv
<1>2. QED
  BY <1>1, SdkInvariant, PTL

\* What is not a GET is carried out once, unless the caller allowed more (fetch.ts
\* `retries`, `retryable`).
THEOREM CarriedOutOnce == Spec => []ServedOnce
<1>1. SdkInv => ServedOnce
  BY DEF SdkInv, Once, ServedOnce, Retries
<1>2. QED
  BY <1>1, SdkInvariant, PTL

\* The caller's abort is what the call settles with, and nothing is sent after it
\* (fetch.ts `signal`, `abort`).
THEOREM AbortIsFinal == Spec => []AbortWins
<1>1. SdkInv => AbortWins
  BY DEF SdkInv, Aborts, AbortWins
<1>2. QED
  BY <1>1, SdkInvariant, PTL

\* The call takes no longer than its timeouts and pauses allow (fetch.ts timeoutId, wait).
THEOREM CallTakesNoLonger == Spec => []TimeBounded
<1>1. ASSUME SdkInv
      PROVE  TimeBounded
  <2>1. elapsed <= Spent(Retries) + Timeout
    <3>1. CASE at = "waiting"
      BY <1>1, <3>1, Numbers, Another DEF SdkInv, Counted, Timely
    <3>2. CASE at # "waiting"
      BY <1>1, <3>2, Numbers DEF SdkInv, Counted, Timely, OnTheWire
    <3>3. QED
      BY <3>1, <3>2
  <2>2. /\ Retries \in 0..MaxRetries /\ MaxRetries \in Nat /\ Timeout \in Nat /\ BaseDelay \in Nat
        /\ 2^Retries \in Nat
    BY <1>1, Numbers, SdkAssumption, PowersAssumption DEF SdkAssumption, PowersAssumption
  <2>3. QED
    BY <2>1, <2>2 DEF Spent, TimeBounded
<1>2. QED
  BY <1>1, SdkInvariant, PTL

===============================================================================
