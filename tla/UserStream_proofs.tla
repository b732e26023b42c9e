-------------------------- MODULE UserStream_proofs --------------------------
(***************************************************************************)
(* Theorems about UserStream, for every length of the refresh period, of   *)
(* the life of a key and of the list of delays, and all faults.            *)
(***************************************************************************)
EXTENDS UserStream, TLAPS

Assumptions == /\ RefreshTicks \in Int /\ LifeTicks \in Int /\ Delays \in Int
               /\ 0 < RefreshTicks /\ RefreshTicks < LifeTicks /\ 0 < Delays

LEMMA AssumptionsHold == Assumptions
  BY TicksAssumption, DelaysAssumption DEF Assumptions

(* Numbers and flags are typed apart: the solver is slow with both at once. *)
Numbers == /\ attempt \in 0..Delays /\ delay \in 0..(Delays - 1)
           /\ timer \in 0..RefreshTicks /\ keyAge \in 0..LifeTicks
           /\ failures \in 0..Delays
Flags == hasKey \in BOOLEAN /\ keyValid \in BOOLEAN /\ neglected \in BOOLEAN

(* The program starts in a typed state.                                    *)
LEMMA InitTypes == Init => TypeOK
<1> SUFFICES ASSUME Init PROVE TypeOK
    OBVIOUS
<1>1. Numbers
      BY AssumptionsHold DEF Assumptions, Init, Numbers
<1>2. Flags
      BY DEF Init, Flags
<1> QED
      BY <1>1, <1>2 DEF Init, Numbers, Flags, TypeOK

-----------------------------------------------------------------------------
(* Every step keeps the types: a delay is always one of the list, and the  *)
(* clocks never pass their limits.                                         *)
LEMMA TypeStep == TypeOK /\ [Next]_vars => TypeOK'
<1> SUFFICES ASSUME TypeOK, [Next]_vars PROVE TypeOK'
    OBVIOUS
<1> USE AssumptionsHold DEF Assumptions, TypeOK, keyVars, historyVars, backoffVars
<1>1. CASE EndDelay
      BY <1>1 DEF EndDelay
<1>2. CASE CreateKey
      BY <1>2 DEF CreateKey
<1>3. CASE CreateFails
  <2>1. Numbers'
        BY <1>3 DEF CreateFails, Backoff, Delay, Up, Numbers
  <2>2. Flags'
        BY <1>3 DEF CreateFails, Backoff, Delay, Up, Flags
  <2> QED
        BY <1>3, <2>1, <2>2 DEF CreateFails, Backoff, Delay, Up, Numbers, Flags
<1>4. CASE Connect
  <2>1. Numbers'
        BY <1>4 DEF Connect, Numbers
  <2>2. Flags'
        BY <1>4 DEF Connect, Flags
  <2> QED
        BY <1>4, <2>1, <2>2 DEF Connect, Numbers, Flags
<1>5. CASE ConnectFails
      BY <1>5 DEF ConnectFails, Backoff, Delay, Up
<1>6. CASE KeepAlive
  <2>1. Numbers'
        BY <1>6 DEF KeepAlive, Numbers
  <2>2. Flags'
        BY <1>6 DEF KeepAlive, Flags
  <2> QED
        BY <1>6, <2>1, <2>2 DEF KeepAlive, Numbers, Flags
<1>7. CASE HandleExpired
      BY <1>7 DEF HandleExpired
<1>8. CASE SessionFails
      BY <1>8 DEF SessionFails, Backoff, Delay, Up
<1>9. CASE SessionEnds
      BY <1>9 DEF SessionEnds
<1>10. CASE Disconnect
      BY <1>10 DEF Disconnect
<1>11. CASE ExpireKey
      BY <1>11 DEF ExpireKey
<1>12. CASE Tick
      BY <1>12 DEF Tick
<1>13. CASE UNCHANGED vars
      BY <1>13 DEF vars
<1> QED
      BY <1>1, <1>2, <1>3, <1>4, <1>5, <1>6, <1>7, <1>8, <1>9, <1>10, <1>11,
         <1>12, <1>13 DEF Next, MainLoop

(* The types of the state, in every reachable state: the index of the      *)
(* back-off is never past the end of RECONNECT_DELAYS (_backoff_delay).    *)
THEOREM TypeCorrect == Spec => []TypeOK
<1> QED
    BY InitTypes, TypeStep, PTL DEF Spec

-----------------------------------------------------------------------------
(* A key is new when a session is about to connect; in a session whose     *)
(* refreshes succeed it is no older than the sleep of the keep-alive task, *)
(* which is shorter than its life.                                         *)
KeyInv == /\ pc = "connect" => keyValid /\ keyAge = 0
          /\ pc = "stream" /\ ~neglected => keyValid /\ keyAge <= timer

LEMMA KeyStep == TypeOK /\ KeyInv /\ [Next]_vars => KeyInv'
<1> SUFFICES ASSUME TypeOK, KeyInv, [Next]_vars PROVE KeyInv'
    OBVIOUS
<1> USE AssumptionsHold DEF Assumptions, TypeOK, KeyInv, keyVars, historyVars, backoffVars
<1>1. CASE EndDelay
      BY <1>1 DEF EndDelay
<1>2. CASE CreateKey
      BY <1>2 DEF CreateKey
<1>3. CASE CreateFails
      BY <1>3 DEF CreateFails, Backoff
<1>4. CASE Connect
      BY <1>4 DEF Connect
<1>5. CASE ConnectFails
      BY <1>5 DEF ConnectFails, Backoff
<1>6. CASE KeepAlive
      BY <1>6 DEF KeepAlive
<1>7. CASE HandleExpired
      BY <1>7 DEF HandleExpired
<1>8. CASE SessionFails
      BY <1>8 DEF SessionFails, Backoff
<1>9. CASE SessionEnds
      BY <1>9 DEF SessionEnds
<1>10. CASE Disconnect
      BY <1>10 DEF Disconnect
<1>11. CASE ExpireKey
  \* A key expires at LifeTicks, which no key of such a session reaches.
  <2>1. keyAge > RefreshTicks
        BY <1>11 DEF ExpireKey
  <2>2. pc # "connect" /\ ~(pc = "stream" /\ ~neglected)
        BY <2>1
  <2> QED
        BY <1>11, <2>2 DEF ExpireKey
<1>12. CASE Tick
      BY <1>12 DEF Tick
<1>13. CASE UNCHANGED vars
      BY <1>13 DEF vars
<1> QED
      BY <1>1, <1>2, <1>3, <1>4, <1>5, <1>6, <1>7, <1>8, <1>9, <1>10, <1>11,
         <1>12, <1>13 DEF Next, MainLoop

(* A session whose refreshes succeed never loses its key, whatever the     *)
(* sessions before it left: _keep_alive_loop starts with every session.    *)
THEOREM KeyLives == Spec => []KeyOutlivesSession
<1>1. Init => KeyInv
      BY DEF Init, KeyInv
<1>2. KeyInv => KeyOutlivesSession
      BY DEF KeyInv, KeyOutlivesSession
<1>3. QED
      BY <1>1, <1>2, InitTypes, TypeStep, KeyStep, PTL DEF Spec

-----------------------------------------------------------------------------
(* The counter never exceeds the failures since a socket was open.         *)
BackoffInv == /\ attempt <= failures
              /\ pc = "connect" => attempt = 0
              /\ pc = "stream" => attempt = 0
              /\ pc = "backoff" => delay < failures

LEMMA BackoffStep == TypeOK /\ BackoffInv /\ [Next]_vars => BackoffInv'
<1> SUFFICES ASSUME TypeOK, BackoffInv, [Next]_vars PROVE BackoffInv'
    OBVIOUS
<1> USE AssumptionsHold DEF Assumptions, TypeOK, BackoffInv, keyVars, historyVars, backoffVars
<1>1. CASE EndDelay
      BY <1>1 DEF EndDelay
<1>2. CASE CreateKey
      BY <1>2 DEF CreateKey
<1>3. CASE CreateFails
      BY <1>3 DEF CreateFails, Backoff, Delay, Up
<1>4. CASE Connect
      BY <1>4 DEF Connect
<1>5. CASE ConnectFails
      BY <1>5 DEF ConnectFails, Backoff, Delay, Up
<1>6. CASE KeepAlive
      BY <1>6 DEF KeepAlive
<1>7. CASE HandleExpired
      BY <1>7 DEF HandleExpired
<1>8. CASE SessionFails
      BY <1>8 DEF SessionFails, Backoff, Delay, Up
<1>9. CASE SessionEnds
      BY <1>9 DEF SessionEnds
<1>10. CASE Disconnect
      BY <1>10 DEF Disconnect
<1>11. CASE ExpireKey
      BY <1>11 DEF ExpireKey
<1>12. CASE Tick
      BY <1>12 DEF Tick
<1>13. CASE UNCHANGED vars
      BY <1>13 DEF vars
<1> QED
      BY <1>1, <1>2, <1>3, <1>4, <1>5, <1>6, <1>7, <1>8, <1>9, <1>10, <1>11,
         <1>12, <1>13 DEF Next, MainLoop

(* A session that worked is never held against the next: every delay is    *)
(* explained by failures after it (_reconnect_attempt, _backoff_delay).    *)
THEOREM BackoffIsFresh == Spec => []DelayCountsFailures
<1>1. Init => BackoffInv
      BY DEF Init, BackoffInv
<1>2. BackoffInv => DelayCountsFailures
      BY DEF BackoffInv, DelayCountsFailures
<1>3. QED
      BY <1>1, <1>2, InitTypes, TypeStep, BackoffStep, PTL DEF Spec
=============================================================================
