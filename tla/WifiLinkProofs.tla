--------------------------- MODULE WifiLinkProofs ---------------------------
(***************************************************************************)
(* For every interval, number of polls and width of the clock: while the   *)
(* link does not come up, WiFi.begin is called at most once per            *)
(* AttemptPeriod.                                                          *)
(***************************************************************************)
EXTENDS WifiLink, TLAPS

-----------------------------------------------------------------------------
(* The clock, for every width. *)

\* The unsigned difference of two readings is a reading.
LEMMA ElapsedRange ==
    ASSUME NEW a \in Millis, NEW b \in Millis
    PROVE  Elapsed(a, b) \in Millis /\ Elapsed(a, b) \in Nat
  BY MillisRangeAssumption DEF Elapsed, Millis

\* A reading is of age zero at the same reading.
LEMMA ElapsedSelf ==
    ASSUME NEW a \in Millis
    PROVE  Elapsed(a, a) = 0
  BY MillisRangeAssumption DEF Elapsed, Millis

Waiting == Elapsed(millis, wifiLastActionTime)

\* The time since WiFi.begin covers the polls already counted and the wait
\* that is on.
Paced ==
    /\ (wifiState = "NEED_CONNECT" /\ ~ seen) => sinceBegin >= AttemptPeriod
    /\ wifiState = "CONNECTING" =>
         sinceBegin >= AttemptPeriod
           \/ sinceBegin >= wifiConnectAttempts * PollInterval + Waiting
    /\ wifiState = "BACKOFF" =>
         sinceBegin >= AttemptPeriod
           \/ sinceBegin >= MaxPollAttempts * PollInterval + Waiting
    /\ wifiState = "CONNECTED" => seen

Inv == WifiTypeOK /\ Paced

\* Products of the constants, as far as the proofs need them.
LEMMA Products ==
    /\ AttemptPeriod \in Nat
    /\ MaxPollAttempts * PollInterval \in Nat
    /\ AttemptPeriod = MaxPollAttempts * PollInterval + BackoffInterval
    /\ \A n \in Nat : /\ n * PollInterval \in Nat
                      /\ (n + 1) * PollInterval = n * PollInterval + PollInterval
  <1>1. PollInterval \in Nat /\ MaxPollAttempts \in Nat /\ BackoffInterval \in Nat
    BY PollAssumption, AttemptsAssumption, BackoffAssumption
  <1>2. ASSUME NEW n \in Nat
        PROVE  /\ n * PollInterval \in Nat
               /\ (n + 1) * PollInterval = n * PollInterval + PollInterval
    BY <1>1
  <1>3. MaxPollAttempts * PollInterval \in Nat
    BY <1>1, <1>2
  <1> QED BY <1>1, <1>2, <1>3 DEF AttemptPeriod

\* The invariant holds at boot.
LEMMA InitInv == Init => Inv
  <1> SUFFICES ASSUME Init PROVE Inv
    OBVIOUS
  <1>1. 0 \in Millis
    BY MillisRangeAssumption DEF Millis
  <1>2. WifiTypeOK
    BY <1>1, Products, AttemptsAssumption DEF Init, WifiTypeOK
  <1>3. AttemptPeriod >= AttemptPeriod
    BY Products
  <1>4. Paced
    BY <1>3 DEF Init, Paced
  <1> QED BY <1>2, <1>4 DEF Inv

\* The types, for the steps below.
LEMMA Types ==
    ASSUME Inv
    PROVE  /\ Waiting \in Nat
           /\ millis \in Millis /\ wifiLastActionTime \in Millis
           /\ wifiConnectAttempts \in Nat /\ wifiConnectAttempts <= MaxPollAttempts
           /\ sinceBegin \in Nat /\ sinceBegin <= AttemptPeriod
           /\ MaxPollAttempts \in Nat /\ MaxPollAttempts >= 1
           /\ PollInterval \in Nat /\ BackoffInterval \in Nat
           /\ AttemptPeriod \in Nat
  <1>1. millis \in Millis /\ wifiLastActionTime \in Millis
    BY DEF Inv, WifiTypeOK
  <1>2. Waiting \in Nat
    BY <1>1, ElapsedRange DEF Waiting
  <1> QED BY <1>1, <1>2, Products, PollAssumption, BackoffAssumption,
             AttemptsAssumption DEF Inv, WifiTypeOK

\* A call of WiFi.begin: the count and the wait start at zero.
LEMMA NeedConnectInv == ASSUME Inv, NeedConnect PROVE Inv'
  <1>1. WifiTypeOK'
    BY Types DEF Inv, WifiTypeOK, NeedConnect
  <1>2. Waiting' = 0
    BY Types, ElapsedSelf DEF NeedConnect, Waiting
  <1>3. 0 * PollInterval = 0
    BY Types
  <1>4. Paced'
    BY <1>2, <1>3 DEF Paced, NeedConnect
  <1> QED BY <1>1, <1>4 DEF Inv

\* A poll that comes due has waited PollInterval, and starts the next wait.
LEMMA ConnectingPollsInv == ASSUME Inv, ConnectingPolls PROVE Inv'
  <1>1. CASE ~ Waited(PollInterval)
    BY <1>1 DEF ConnectingPolls, Inv, WifiTypeOK, Paced, Waiting, wifiVars
  <1>2. CASE Waited(PollInterval)
    <2>1. /\ wifiState = "CONNECTING"
          /\ wifiConnectAttempts < MaxPollAttempts
          /\ wifiLastActionTime' = millis
          /\ wifiConnectAttempts' = wifiConnectAttempts + 1
          /\ wifiState' = IF wifiConnectAttempts' >= MaxPollAttempts
                          THEN "BACKOFF" ELSE "CONNECTING"
          /\ UNCHANGED <<millis, sinceBegin, seen>>
          /\ Waiting >= PollInterval
      BY <1>2 DEF ConnectingPolls, Inv, WifiTypeOK, Waited, Waiting
    <2>2. WifiTypeOK'
      BY <2>1, Types DEF Inv, WifiTypeOK
    <2>3. Waiting' = 0
      BY <2>1, Types, ElapsedSelf DEF Waiting
    <2>4. \/ sinceBegin >= AttemptPeriod
          \/ sinceBegin >= wifiConnectAttempts * PollInterval + Waiting
      BY <2>1 DEF Inv, Paced
    <2>5. /\ wifiConnectAttempts * PollInterval \in Nat
          /\ wifiConnectAttempts' * PollInterval
               = wifiConnectAttempts * PollInterval + PollInterval
      BY <2>1, Types, Products
    <2>6. \/ sinceBegin' >= AttemptPeriod
          \/ sinceBegin' >= wifiConnectAttempts' * PollInterval + Waiting'
      BY <2>1, <2>3, <2>4, <2>5, Types
    <2>7. wifiState' = "BACKOFF" => wifiConnectAttempts' = MaxPollAttempts
      BY <2>1, Types
    <2>8. Paced'
      BY <2>1, <2>6, <2>7 DEF Paced
    <2> QED BY <2>2, <2>8 DEF Inv
  <1> QED BY <1>1, <1>2

\* Waiting out the back-off keeps the invariant.
LEMMA BackoffInv == ASSUME Inv, Backoff PROVE Inv'
  <1>1. WifiTypeOK'
    BY Types DEF Inv, WifiTypeOK, Backoff
  <1>2. /\ Waiting' = Waiting
        /\ \/ sinceBegin >= AttemptPeriod
           \/ sinceBegin >= MaxPollAttempts * PollInterval + Waiting
    BY DEF Inv, Paced, Backoff, Waiting
  <1>3. Waited(BackoffInterval) => sinceBegin >= AttemptPeriod
    BY <1>2, Types, Products DEF Waited, Waiting
  <1>4. Paced'
    BY <1>2, <1>3 DEF Paced, Backoff
  <1> QED BY <1>1, <1>4 DEF Inv

\* Time passes: the wait grows with the time since WiFi.begin.
LEMMA TickInv == ASSUME Inv, Tick PROVE Inv'
  <1>1. /\ millis' \in Millis
        /\ Waiting' <= Waiting + 1
        /\ Waiting' \in Nat
    <2>1. /\ AfterTick(millis) \in Millis
          /\ Elapsed(AfterTick(millis), wifiLastActionTime)
               <= Elapsed(millis, wifiLastActionTime) + 1
      BY Types, MillisRangeAssumption DEF Elapsed, AfterTick, Millis
    <2> QED BY <2>1, Types, ElapsedRange DEF Tick, Waiting, wifiVars
  <1>2. /\ sinceBegin' \in 0 .. AttemptPeriod
        /\ sinceBegin' >= AttemptPeriod \/ sinceBegin' = sinceBegin + 1
        /\ sinceBegin >= AttemptPeriod => sinceBegin' >= AttemptPeriod
    BY Types DEF Tick
  <1>3. WifiTypeOK'
    BY <1>1, <1>2 DEF Inv, WifiTypeOK, Tick, wifiVars
  <1>4. wifiConnectAttempts * PollInterval \in Nat /\ MaxPollAttempts * PollInterval \in Nat
    BY Types, Products
  <1>5. UNCHANGED <<wifiState, wifiConnectAttempts, seen>>
    BY DEF Tick, wifiVars
  <1>6. Paced'
    BY <1>1, <1>2, <1>4, <1>5, Types DEF Inv, Paced
  <1> QED BY <1>3, <1>6 DEF Inv

\* Every step keeps the invariant.
LEMMA NextInv == Inv /\ [Next]_vars => Inv'
  <1> SUFFICES ASSUME Inv, [Next]_vars PROVE Inv'
    OBVIOUS
  <1>1. CASE UNCHANGED vars
    BY <1>1 DEF vars, wifiVars, Inv, WifiTypeOK, Paced, Waiting
  <1>2. CASE ConnectingSucceeds \/ Connected \/ LinkChanges
    BY <1>2 DEF ConnectingSucceeds, Connected, LinkChanges, wifiVars, Inv,
                WifiTypeOK, Paced, Waiting
  <1>3. CASE NeedConnect
    BY <1>3, NeedConnectInv
  <1>4. CASE ConnectingPolls
    BY <1>4, ConnectingPollsInv
  <1>5. CASE Backoff
    BY <1>5, BackoffInv
  <1>6. CASE Tick
    BY <1>6, TickInv
  <1> QED BY <1>1, <1>2, <1>3, <1>4, <1>5, <1>6 DEF Next, handleWiFi

\* The inductive invariant holds in every execution.
THEOREM WifiInvariance == Spec => []Inv
  <1>1. Init => Inv
    BY InitInv
  <1>2. Inv /\ [Next]_vars => Inv'
    BY NextInv
  <1> QED BY <1>1, <1>2, PTL DEF Spec

\* The polls of an attempt never exceed their maximum.
THEOREM WifiTypeCorrect == Spec => []WifiTypeOK
  <1>1. Inv => WifiTypeOK
    BY DEF Inv
  <1> QED BY <1>1, WifiInvariance, PTL

\* Two calls of WiFi.begin with no link between them are AttemptPeriod apart,
\* however often millis() wraps.
THEOREM BeginsPaced == Spec => AttemptsPaced
  <1> DEFINE Late == NeedConnect => seen \/ sinceBegin >= AttemptPeriod
  <1>1. Inv /\ [Next]_vars => [Late]_vars
    <2> SUFFICES ASSUME Inv, NeedConnect, ~ seen PROVE sinceBegin >= AttemptPeriod
      BY DEF Late
    <2> QED BY DEF Inv, Paced, NeedConnect
  <1> QED BY <1>1, WifiInvariance, PTL DEF Spec, AttemptsPaced
=============================================================================
