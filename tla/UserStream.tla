----------------------------- MODULE UserStream -----------------------------
(***************************************************************************)
(* The session of the user-data stream: LocalOMSListener (lib/trader/      *)
(* local_oms.py), a thread of the trader, and BinanceOMS (lib/trader/      *)
(* binance_oms.py), a process of its own.  Either creates a listen key,    *)
(* connects a socket with it, handles messages while a task keeps the key  *)
(* alive, and starts over when the session ends.  They differ in what they *)
(* do when the exchange says that the key has expired.                     *)
(*                                                                         *)
(* Time is counted in ticks of which a refresh period holds a few; delays  *)
(* and requests take seconds, much less than a tick.                       *)
(***************************************************************************)
EXTENDS Integers

CONSTANTS RefreshTicks,  \* LISTEN_KEY_REFRESH_SECS
          LifeTicks,     \* how long the exchange keeps a key nobody refreshes
          Delays,        \* Len(RECONNECT_DELAYS)
          Faults,        \* which of the requests may fail
          Listeners      \* which of the two is running, "local" or "gateway"

AllFaults == {"create", "connect", "refresh"}

ASSUME TicksAssumption == /\ RefreshTicks \in Nat \ {0} /\ LifeTicks \in Nat
                          /\ RefreshTicks < LifeTicks
ASSUME DelaysAssumption == Delays \in Nat \ {0}
ASSUME FaultsAssumption == Faults \subseteq AllFaults
ASSUME ListenersAssumption == Listeners \subseteq {"local", "gateway"}

VARIABLES
    listener,   \* LocalOMSListener or BinanceOMS; never changes
    pc,         \* where _main_loop (start) is
    attempt,    \* _reconnect_attempt
    delay,      \* index into RECONNECT_DELAYS of the delay waited for
    hasKey,     \* _listen_key is not None
    timer,      \* ticks since the keep-alive task went to sleep
    sock,       \* the socket: "none", "open", "lost" (not noticed yet), "closed"
    keyValid,   \* exchange: the key is known
    keyAge,     \* exchange: ticks since it was created or refreshed
    failures,   \* history: attempts failed in a row since a socket was open
    neglected   \* history: a refresh has failed in this session

backoffVars == <<attempt, delay>>
keyVars == <<keyValid, keyAge>>
historyVars == <<failures, neglected>>
vars == <<listener, pc, backoffVars, hasKey, timer, sock, keyVars, historyVars>>

Init == /\ listener \in Listeners
        /\ pc = "create" /\ attempt = 0 /\ delay = 0 /\ hasKey = FALSE
        /\ timer = 0 /\ sock = "none"
        /\ keyValid = FALSE /\ keyAge = 0
        /\ failures = 0 /\ neglected = FALSE

\* Bound: attempts are counted up to Delays, from where they make no difference.
Up(n) == IF n < Delays THEN n + 1 ELSE n

\* Mutant of Delay: no min() with the length of the list.
DelayOf(n) == n

Delay(n) == IF n < Delays THEN n ELSE Delays - 1

Backoff == /\ delay' = Delay(attempt)
           /\ attempt' = Up(attempt)
           /\ failures' = Up(failures)
           /\ pc' = "backoff"

EndDelay == /\ pc = "backoff"
            /\ pc' = "create"
            /\ UNCHANGED <<listener, backoffVars, hasKey, timer, sock, keyVars, historyVars>>

\* Mutant of CreateKey: attempts are counted for ever.
CreateKeyCounting == /\ pc = "create"
                     /\ hasKey' = TRUE /\ keyValid' = TRUE /\ keyAge' = 0
                     /\ pc' = "connect"
                     /\ UNCHANGED <<listener, backoffVars, timer, sock, historyVars>>

\* The key of an account is created, or extended if it has one.
CreateKey == /\ pc = "create"
             /\ hasKey' = TRUE /\ keyValid' = TRUE /\ keyAge' = 0
             /\ attempt' = 0
             /\ pc' = "connect"
             /\ UNCHANGED <<listener, delay, timer, sock, historyVars>>

CreateFails == /\ pc = "create" /\ "create" \in Faults
               /\ hasKey' = FALSE
               /\ Backoff
               /\ UNCHANGED <<listener, timer, sock, keyVars, neglected>>

Connect == /\ pc = "connect"
           /\ sock' = "open" /\ timer' = 0
           /\ pc' = "stream"
           /\ failures' = 0 /\ neglected' = FALSE
           /\ UNCHANGED <<listener, backoffVars, hasKey, keyVars>>

ConnectFails == /\ pc = "connect" /\ "connect" \in Faults
                /\ Backoff
                /\ UNCHANGED <<listener, hasKey, timer, sock, keyVars, neglected>>

\* Mutant of KeepAlive: one refresh only, not a loop.
KeepAliveOnce == /\ pc = "stream" /\ timer = RefreshTicks
                 /\ timer' = RefreshTicks + 1
                 /\ keyValid /\ keyAge' = 0
                 /\ UNCHANGED <<listener, pc, backoffVars, hasKey, sock, keyValid, historyVars>>

\* A refresh; that it failed is logged and not looked at.  The exchange
\* refuses it when the key has expired.
KeepAlive == /\ pc = "stream" /\ timer = RefreshTicks
             /\ timer' = 0
             /\ \/ /\ keyValid
                   /\ keyAge' = 0
                   /\ UNCHANGED neglected
                \/ /\ "refresh" \in Faults \/ ~keyValid
                   /\ neglected' = TRUE
                   /\ UNCHANGED keyAge
             /\ UNCHANGED <<listener, pc, backoffVars, hasKey, sock, keyValid, failures>>

\* Mutant of HandleExpired: no BinanceOMS closes its socket either.
HandleExpiredForgets == /\ pc = "stream" /\ sock = "open"
                        /\ ~keyValid /\ hasKey
                        /\ hasKey' = FALSE
                        /\ UNCHANGED <<listener, pc, backoffVars, timer, sock, keyVars, historyVars>>

\* The message listenKeyExpired: the key is forgotten; BinanceOMS closes its
\* socket too, which ends the iteration over messages.
HandleExpired == /\ pc = "stream" /\ sock = "open"
                 /\ ~keyValid /\ hasKey
                 /\ hasKey' = FALSE
                 /\ sock' = IF listener = "gateway" THEN "closed" ELSE sock
                 /\ UNCHANGED <<listener, pc, backoffVars, timer, keyVars, historyVars>>

\* The iteration over messages raises ConnectionClosedError, if only because
\* no pong came; the keep-alive task is cancelled.
SessionFails == /\ pc = "stream" /\ sock = "lost"
                /\ sock' = "none" /\ timer' = 0
                /\ Backoff
                /\ UNCHANGED <<listener, hasKey, keyVars, neglected>>

\* After a regular close it ends, and a new session follows without delay.
SessionEnds == /\ pc = "stream" /\ sock = "closed"
               /\ sock' = "none" /\ timer' = 0
               /\ pc' = "create"
               /\ UNCHANGED <<listener, backoffVars, hasKey, keyVars, historyVars>>

MainLoop == CreateKey \/ CreateFails \/ Connect \/ ConnectFails \/ EndDelay
            \/ KeepAlive \/ HandleExpired \/ SessionFails \/ SessionEnds

-----------------------------------------------------------------------------
(* The exchange, the network and the clock.                                *)

Disconnect == /\ sock = "open"
              /\ sock' \in {"lost", "closed"}
              /\ UNCHANGED <<listener, pc, backoffVars, hasKey, timer, keyVars, historyVars>>

ExpireKey == /\ keyValid /\ keyAge = LifeTicks
             /\ keyValid' = FALSE
             /\ UNCHANGED <<listener, pc, backoffVars, hasKey, timer, sock, keyAge, historyVars>>

\* A keep-alive that is due is not put off.  Bound: the age of a key is
\* counted up to LifeTicks.
Tick == /\ pc = "stream" /\ timer # RefreshTicks
        /\ timer' = IF timer < RefreshTicks THEN timer + 1 ELSE timer
        /\ keyAge' = IF keyAge < LifeTicks THEN keyAge + 1 ELSE keyAge
        /\ UNCHANGED <<listener, pc, backoffVars, hasKey, sock, keyValid, historyVars>>

Next == MainLoop \/ Disconnect \/ ExpireKey \/ Tick

Spec == Init /\ [][Next]_vars

\* The event loop runs and time passes; neither the exchange nor the network
\* refuses for ever.  No disconnection is owed.
FairSpec == /\ Spec
            /\ WF_vars(MainLoop) /\ WF_vars(Tick)
            /\ WF_vars(HandleExpired) /\ WF_vars(SessionFails \/ SessionEnds)
            /\ SF_vars(CreateKey) /\ SF_vars(Connect)

-----------------------------------------------------------------------------
TypeOK == /\ listener \in Listeners
          /\ pc \in {"create", "connect", "stream", "backoff"}
          /\ attempt \in 0..Delays /\ delay \in 0..(Delays - 1)
          /\ hasKey \in BOOLEAN /\ timer \in 0..RefreshTicks
          /\ sock \in {"none", "open", "lost", "closed"}
          /\ keyValid \in BOOLEAN /\ keyAge \in 0..LifeTicks
          /\ failures \in 0..Delays /\ neglected \in BOOLEAN

\* No session outlives its key as long as its refreshes succeed, however the
\* sessions before it ended and however old the key was.
KeyOutlivesSession == pc = "stream" /\ ~neglected => keyValid

\* "Exponential backoff": a delay counts only the failures since a socket was
\* last open; a session that worked is not held against the next.
DelayCountsFailures == pc = "backoff" => delay < failures

\* The trader hears of its orders again and again, whatever fails in between:
\* through BinanceOMS always, through LocalOMSListener if refreshes do not fail
\* for ever.
Listening == pc = "stream" /\ sock = "open" /\ keyValid
ListensAgain == listener = "gateway" \/ (<>[]~neglected) => []<>Listening

\* "Listen key expired, will reconnect": a session without a key is replaced.
ReconnectsOnExpiry == (pc = "stream" /\ ~hasKey) ~> hasKey
=============================================================================
