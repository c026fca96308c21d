------------------------------ MODULE WifiLink ------------------------------
(***************************************************************************)
(* The WiFi state machine of src/src/main.cpp, handleWiFi, polled by every *)
(* iteration of loop() against a link that the network brings up and takes *)
(* down as it likes.                                                       *)
(***************************************************************************)
EXTENDS Machine

CONSTANTS
    PollInterval,      \* WIFI_POLL_INTERVAL, 500
    BackoffInterval,   \* WIFI_BACKOFF_INTERVAL, 10000
    MaxPollAttempts    \* WIFI_MAX_POLL_ATTEMPTS, 20

ASSUME PollAssumption == PollInterval \in Nat \ {0}
ASSUME BackoffAssumption == BackoffInterval \in Nat \ {0}
ASSUME AttemptsAssumption == MaxPollAttempts \in Nat \ {0}
ASSUME ClockAssumption == MillisRange > BackoffInterval /\ MillisRange > PollInterval

\* The shortest time from one failed attempt to the next.
AttemptPeriod == MaxPollAttempts * PollInterval + BackoffInterval

VARIABLES
    wifiState, wifiLastActionTime, wifiConnectAttempts,
    millis,
    link,         \* WiFi.status() == WL_CONNECTED
    iterated,     \* the loop went round since the last tick
    sinceBegin,   \* history: time since WiFi.begin, up to AttemptPeriod
    seen          \* history: the state machine saw the link since WiFi.begin

wifiVars == <<wifiState, wifiLastActionTime, wifiConnectAttempts>>
vars == <<wifiVars, millis, link, iterated, sinceBegin, seen>>

Init == /\ wifiState = "NEED_CONNECT"
        /\ wifiLastActionTime = 0
        /\ wifiConnectAttempts = 0
        /\ millis = 0
        /\ link = FALSE
        /\ iterated = FALSE
        /\ sinceBegin = AttemptPeriod
        /\ seen = FALSE

Waited(interval) == Elapsed(millis, wifiLastActionTime) >= interval

-----------------------------------------------------------------------------
(* handleWiFi, one action per case and outcome. *)

\* Faulty variant of NeedConnect: the attempts are not counted from zero.
NeedConnectNoReset ==
    /\ wifiState = "NEED_CONNECT"
    /\ wifiState' = "CONNECTING"
    /\ wifiLastActionTime' = millis
    /\ link' \in {link, FALSE}
    /\ sinceBegin' = 0
    /\ seen' = FALSE
    /\ iterated' = TRUE
    /\ UNCHANGED <<wifiConnectAttempts, millis>>

\* WiFi.begin: a link that is up is kept or torn down, as the driver likes.
NeedConnect ==
    /\ wifiState = "NEED_CONNECT"
    /\ wifiState' = "CONNECTING"
    /\ wifiConnectAttempts' = 0
    /\ wifiLastActionTime' = millis
    /\ link' \in {link, FALSE}
    /\ sinceBegin' = 0
    /\ seen' = FALSE
    /\ iterated' = TRUE
    /\ UNCHANGED millis

ConnectingSucceeds ==
    /\ wifiState = "CONNECTING"
    /\ link
    /\ wifiState' = "CONNECTED"
    /\ seen' = TRUE
    /\ iterated' = TRUE
    /\ UNCHANGED <<wifiLastActionTime, wifiConnectAttempts, millis, link, sinceBegin>>

ConnectingPolls ==
    /\ wifiState = "CONNECTING"
    /\ ~ link
    /\ IF Waited(PollInterval)
       THEN /\ wifiLastActionTime' = millis
            /\ wifiConnectAttempts' = wifiConnectAttempts + 1
            /\ wifiState' = IF wifiConnectAttempts' >= MaxPollAttempts
                            THEN "BACKOFF" ELSE "CONNECTING"
       ELSE UNCHANGED wifiVars
    /\ iterated' = TRUE
    /\ UNCHANGED <<millis, link, sinceBegin, seen>>

Connected ==
    /\ wifiState = "CONNECTED"
    /\ wifiState' = IF link THEN "CONNECTED" ELSE "NEED_CONNECT"
    /\ iterated' = TRUE
    /\ UNCHANGED <<wifiLastActionTime, wifiConnectAttempts, millis, link,
                   sinceBegin, seen>>

\* Faulty variant of Backoff: the wait starts anew in every iteration.
BackoffRestarting ==
    /\ wifiState = "BACKOFF"
    /\ wifiState' = IF Waited(BackoffInterval) THEN "NEED_CONNECT" ELSE "BACKOFF"
    /\ wifiLastActionTime' = millis
    /\ iterated' = TRUE
    /\ UNCHANGED <<wifiConnectAttempts, millis, link, sinceBegin, seen>>

\* The link is not looked at: one that came up late is begun again.
Backoff ==
    /\ wifiState = "BACKOFF"
    /\ wifiState' = IF Waited(BackoffInterval) THEN "NEED_CONNECT" ELSE "BACKOFF"
    /\ iterated' = TRUE
    /\ UNCHANGED <<wifiLastActionTime, wifiConnectAttempts, millis, link,
                   sinceBegin, seen>>

handleWiFi == NeedConnect \/ ConnectingSucceeds \/ ConnectingPolls \/ Connected
              \/ Backoff

-----------------------------------------------------------------------------
(* The network and the clock. *)

LinkChanges == /\ link' = ~ link
               /\ UNCHANGED <<wifiVars, millis, iterated, sinceBegin, seen>>

\* A tick is long against one iteration of the loop.
Tick == /\ iterated
        /\ iterated' = FALSE
        /\ millis' = AfterTick(millis)
        /\ sinceBegin' = IF sinceBegin < AttemptPeriod THEN sinceBegin + 1
                                                       ELSE sinceBegin
        /\ UNCHANGED <<wifiVars, link, seen>>

Next == handleWiFi \/ LinkChanges \/ Tick

Spec == Init /\ [][Next]_vars

\* The loop runs and time passes; the network does as it likes.
FairSpec == Spec /\ WF_vars(handleWiFi) /\ WF_vars(Tick)

-----------------------------------------------------------------------------
(* Properties. *)

\* Type invariant.
WifiTypeOK ==
    /\ wifiState \in {"NEED_CONNECT", "CONNECTING", "CONNECTED", "BACKOFF"}
    /\ wifiLastActionTime \in Millis
    /\ wifiConnectAttempts \in 0 .. MaxPollAttempts
    /\ wifiState = "CONNECTING" => wifiConnectAttempts < MaxPollAttempts
    /\ millis \in Millis
    /\ sinceBegin \in 0 .. AttemptPeriod

\* While the link does not come up, WiFi.begin is called at most once per
\* AttemptPeriod: all polls and the back-off lie between two attempts, also
\* across the wrap of millis() (handleWiFi).
AttemptsPaced ==
    [][NeedConnect => seen \/ sinceBegin >= AttemptPeriod]_vars

\* As long as the link stays down the gateway keeps trying (NEED_CONNECT is
\* reached again after every back-off).
KeepsTrying == <>[](~ link) => []<>(wifiState = "NEED_CONNECT")

\* A link that stays up is found, in whatever state it came up, and stays found.
SettlesConnected == <>[]link => <>[](wifiState = "CONNECTED")
=============================================================================
