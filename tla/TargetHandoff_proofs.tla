-------------------------- MODULE TargetHandoff_proofs --------------------------
(***************************************************************************)
(* Theorems about TargetHandoff, for every length of a day, list of times, *)
(* interval, wave and duration of the calculations.                        *)
(***************************************************************************)
EXTENDS TargetHandoff, TLAPS, WellFoundedInduction

LEMMA Bounds == /\ Day \in Nat /\ Interval \in Nat /\ Near \in Nat /\ Wave \in Nat
                /\ Period \in Nat /\ Offset \in Nat
                /\ MinCalc \in Nat /\ MaxCalc \in Nat /\ MaxNow \in Nat
                /\ Day > 0 /\ Wave > 0 /\ Wave <= Period /\ MinCalc <= MaxCalc
                /\ Starts \subseteq 1..MaxNow
                /\ Times # {} /\ Times \subseteq 0..(Day - 1)
  BY TimeAssumption

-----------------------------------------------------------------------------
(* Arithmetic.                                                             *)

LEMMA Division ==
    ASSUME NEW n \in Int, NEW k \in Nat, k > 0
    PROVE  n \div k \in Int /\ n = k * (n \div k) + (n % k) /\ n % k \in 0..(k - 1)
  OBVIOUS

LEMMA Multiples ==
    ASSUME NEW k \in Nat, NEW p \in Int, NEW q \in Int, p <= q
    PROVE  k * p <= k * q
  OBVIOUS

LEMMA RemainderUnique ==
    ASSUME NEW k \in Nat, k > 0, NEW n \in Int, NEW q \in Int, NEW r \in 0..(k - 1), n = k * q + r
    PROVE  n % k = r
<1> DEFINE p == n \div k
           s == n % k
<1>1. p \in Int /\ n = k * p + s /\ s \in 0..(k - 1)
      BY Division
<1> HIDE DEF p, s
<1>2. ~(q + 1 <= p)
  <2>1. SUFFICES ASSUME q + 1 <= p PROVE FALSE
        OBVIOUS
  <2>2. k * (q + 1) <= k * p
        BY <1>1, <2>1, Multiples
  <2>3. k * (q + 1) = k * q + k
        OBVIOUS
  <2> QED
        BY <1>1, <2>2, <2>3
<1>3. ~(p + 1 <= q)
  <2>1. SUFFICES ASSUME p + 1 <= q PROVE FALSE
        OBVIOUS
  <2>2. k * (p + 1) <= k * q
        BY <1>1, <2>1, Multiples
  <2>3. k * (p + 1) = k * p + k
        BY <1>1
  <2> QED
        BY <1>1, <2>2, <2>3
<1>4. p = q
      BY <1>1, <1>2, <1>3
<1>5. s = r
      BY <1>1, <1>4
<1> QED
    BY <1>5 DEF s

LEMMA HasMin == ASSUME NEW S, S \subseteq Nat, S # {}
                PROVE  Min(S) \in S /\ \A y \in S : Min(S) <= y
<1> DEFINE R == OpToRel(<, Nat)
<1>1. IsWellFoundedOn(R, Nat)
      BY NatLessThanWellFounded
<1>2. \A x, y \in Nat : x < y => <<x, y>> \in R
      BY DEF OpToRel
<1> HIDE DEF R
<1>3. PICK x \in S : \A y \in S : ~ (<<y, x>> \in R)
      BY <1>1, WFMin
<1>4. \A y \in S : x <= y
  <2> SUFFICES ASSUME NEW y \in S PROVE x <= y
      OBVIOUS
  <2>1. x \in Nat /\ y \in Nat
        OBVIOUS
  <2>2. ~(y < x)
        BY <1>2, <1>3, <2>1
  <2> QED
        BY <2>1, <2>2
<1>5. \E m \in S : \A y \in S : m <= y
      BY <1>4
<1> QED
      BY <1>5 DEF Min

LEMMA MaxOfTwo == ASSUME NEW n \in Int PROVE Max({0, n}) \in Nat
<1>1. \E m \in {0, n} : \A y \in {0, n} : m >= y
      OBVIOUS
<1>2. Max({0, n}) \in {0, n} /\ Max({0, n}) >= 0
      BY <1>1 DEF Max
<1> QED
    BY <1>2

(* next_closest_time: the first of the times from t on, if one is less     *)
(* than a day away.                                                        *)
LEMMA OccurrencesAre == Occurrences \subseteq Nat
  BY Bounds DEF Occurrences

LEMMA ReoptTimesAre ==
    ReoptTimes \subseteq Nat /\ ReoptTimes \subseteq Scheduled /\ Scheduled \subseteq Nat
<1>1. Scheduled \subseteq Nat
      BY Bounds, OccurrencesAre DEF Scheduled
<1>2. ReoptTimes \subseteq Scheduled
      BY DEF Scheduled, ReoptTimes
<1> QED
    BY <1>1, <1>2

(* The list reaches from the offset after the start to two days further.   *)
LEMMA ReoptTimesReach ==
    ASSUME booted \in Nat
    PROVE  /\ \A t \in Scheduled : booted + Offset < t /\ t <= booted + 2 * Day + Offset => t \in ReoptTimes
           /\ \A t \in ReoptTimes : t <= booted + 2 * Day + Offset
<1>1. ASSUME NEW t \in Scheduled, booted + Offset < t, t <= booted + 2 * Day + Offset
      PROVE  t \in ReoptTimes
  <2>1. PICK u \in Occurrences : t = u + Offset
        BY DEF Scheduled
  <2>2. u \in Nat
        BY OccurrencesAre
  <2>3. booted < u /\ u <= booted + 2 * Day
        BY <1>1, <2>1, <2>2, Bounds
  <2> QED
      BY <2>1, <2>3 DEF ReoptTimes
<1>2. ASSUME NEW t \in ReoptTimes
      PROVE  t <= booted + 2 * Day + Offset
  <2>1. PICK u \in Occurrences : t = u + Offset /\ u <= booted + 2 * Day
        BY <1>2 DEF ReoptTimes
  <2>2. u \in Nat
        BY OccurrencesAre
  <2> QED
      BY <2>1, <2>2, Bounds
<1> QED
    BY <1>1, <1>2

LEMMA NextClosestIs ==
    ASSUME NEW t \in Nat
    PROVE  /\ NextClosest(t) \in Nat \union {None}
           /\ NextClosest(t) # None =>
                 /\ NextClosest(t) \in ReoptTimes /\ t <= NextClosest(t)
                 /\ \A u \in ReoptTimes : t <= u => NextClosest(t) <= u
           /\ NextClosest(t) = None => \A u \in ReoptTimes : t <= u => t + Day <= u
<1> DEFINE ahead == {u \in ReoptTimes : t <= u /\ u - t < Day}
<1>1. ahead \subseteq Nat /\ ReoptTimes \subseteq Nat
      BY ReoptTimesAre
<1>2. CASE ahead = {}
  <2>1. NextClosest(t) = None
        BY <1>2 DEF NextClosest
  <2>2. \A u \in ReoptTimes : t <= u => t + Day <= u
        BY <1>1, <1>2, Bounds
  <2> QED
        BY <2>1, <2>2
<1>3. CASE ahead # {}
  <2>1. NextClosest(t) = Min(ahead)
        BY <1>3 DEF NextClosest
  <2>2. Min(ahead) \in ahead /\ \A u \in ahead : Min(ahead) <= u
        BY <1>1, <1>3, HasMin
  <2> DEFINE m == Min(ahead)
  <2>3. m \in Nat /\ m \in ReoptTimes /\ t <= m /\ m - t < Day /\ \A u \in ahead : m <= u
        BY <1>1, <2>2
  <2> HIDE DEF m
  <2>4. ASSUME NEW u \in ReoptTimes, t <= u
        PROVE  m <= u
    <3>1. u \in Nat
          BY <1>1
    <3>2. CASE u - t < Day
          BY <2>3, <2>4, <3>2
    <3>3. CASE ~(u - t < Day)
          BY <2>3, <3>1, <3>3, Bounds
    <3> QED
          BY <3>2, <3>3
  <2>5. m # None
        BY <2>3 DEF None
  <2>6. NextClosest(t) = m
        BY <2>1 DEF m
  <2> QED
        BY <2>3, <2>4, <2>5, <2>6
<1> QED
    BY <1>2, <1>3

-----------------------------------------------------------------------------
(* Types.                                                                  *)
ClockTyped == now \in Nat /\ since \in 0..now /\ booted \in 0..now /\ asof \in 0..now /\ loadedAt \in 0..now
Places == {"boot", "loop", "opt", "left", "st", "dumpopt", "dumpst", "wait", "sleep", "nap", "down"}
ServerTyped == /\ spc \in Places /\ next \in Nat \union {None} /\ left \in 0..Day
               /\ optimized \in Nat \union {None}
FilesTyped == latest \in File /\ latestOpt \in File
TraderTyped == targets \in File /\ tpc \in {"up", "dead"} /\ lastTs \in Int
FlagsTyped == failed \in BOOLEAN /\ hidden \in BOOLEAN /\ startUp \in BOOLEAN

LEMMA TypeParts == TypeOK <=> ClockTyped /\ ServerTyped /\ FilesTyped /\ TraderTyped /\ FlagsTyped
  BY DEF TypeOK, ClockTyped, ServerTyped, FilesTyped, TraderTyped, FlagsTyped, Places

LEMMA TypePartsNext ==
    ASSUME ClockTyped', ServerTyped', FilesTyped', TraderTyped', FlagsTyped'
    PROVE  TypeOK'
  BY DEF TypeOK, ClockTyped, ServerTyped, FilesTyped, TraderTyped, FlagsTyped, Places

LEMMA InitTypes == Init => TypeOK
<1> SUFFICES ASSUME Init PROVE TypeOK
    OBVIOUS
<1>1. ClockTyped
      BY Bounds DEF Init, ClockTyped
<1>2. NoFile \in File
      BY DEF NoFile, File, None
<1>3. latestOpt \in File
  <2>1. \A ts \in Nat : [ts |-> ts, mtime |-> ts + 1, opt |-> TRUE, whole |-> TRUE, traded |-> TRUE] \in File
        BY DEF File
  <2> QED
      BY <1>2, <2>1 DEF Init
<1>4. FilesTyped
      BY <1>3 DEF Init, FilesTyped
<1>5. TraderTyped
      BY <1>2 DEF Init, TraderTyped, None
<1>6. now \in Nat
      BY Bounds DEF Init
<1>7. NextClosest(now) \in Nat \union {None}
      BY <1>6, NextClosestIs
<1>8. next \in Nat \union {None}
      BY <1>7 DEF Init
<1>9. ServerTyped
      BY <1>8, Bounds DEF Init, ServerTyped, Places
<1>10. FlagsTyped
      BY DEF Init, FlagsTyped
<1> QED
    BY <1>1, <1>4, <1>5, <1>9, <1>10, TypeParts

(* How long a sleep is, from what was left and what has elapsed.           *)
LEMMA SleepIs ==
    ASSUME TypeOK, NEW elapsed \in {now - asof, Max({0, now - asof - 1})}, WaitTicks(elapsed) > 0
    PROVE  WaitTicks(elapsed) \in 0..Day /\ WaitTicks(elapsed) <= Wave
<1>1. now \in Nat /\ asof \in 0..now /\ left \in 0..Day
      BY TypeParts DEF ClockTyped, ServerTyped
<1>2. elapsed \in Nat
  <2>1. now - asof \in Nat
        BY <1>1
  <2>2. Max({0, now - asof - 1}) \in Nat
        BY <1>1, MaxOfTwo
  <2> QED
        BY <2>1, <2>2
<1>3. Min({left, Wave}) \in Nat /\ Min({left, Wave}) <= left /\ Min({left, Wave}) <= Wave
  <2>1. {left, Wave} \subseteq Nat /\ {left, Wave} # {}
        BY <1>1, Bounds
  <2>2. Min({left, Wave}) \in {left, Wave} /\ \A y \in {left, Wave} : Min({left, Wave}) <= y
        BY <2>1, HasMin
  <2> QED
        BY <2>1, <2>2
<1> QED
    BY <1>1, <1>2, <1>3, Bounds DEF WaitTicks

LEMMA TypeStep == TypeOK /\ [Next]_vars => TypeOK'
<1> SUFFICES ASSUME TypeOK, [Next]_vars PROVE TypeOK'
    OBVIOUS
<1>0. ClockTyped /\ ServerTyped /\ FilesTyped /\ TraderTyped /\ FlagsTyped
      BY TypeParts
<1>1. CASE Tick
  <2>1. ClockTyped'
        BY <1>0, <1>1 DEF Tick, ClockTyped, serverVars, traderVars
  <2>2. UNCHANGED <<serverVars, fileVars, traderVars, historyVars>>
        BY <1>1 DEF Tick
  <2>3. ServerTyped' /\ FilesTyped' /\ TraderTyped' /\ FlagsTyped'
        BY <1>0, <2>2 DEF ServerTyped, FilesTyped, TraderTyped, FlagsTyped, serverVars, fileVars, traderVars, historyVars
  <2> QED
      BY <2>1, <2>3, TypePartsNext
<1>2. CASE Server
  <2>1. ClockTyped'
        BY <1>0, <1>2 DEF Server, Boot, Optimize, Continue, ReadTimeLeft, UpdateFails, OpenFile, CloseFile,
                          StartSleep, WakeUp, Nap, Kill, Restart, Goto, ClockTyped, traderVars
  <2>2. UNCHANGED traderVars
        BY <1>2 DEF Server, Boot, Optimize, Continue, ReadTimeLeft, UpdateFails, OpenFile, CloseFile,
                    StartSleep, WakeUp, Nap, Kill, Restart
  <2>3. TraderTyped' /\ startUp' \in BOOLEAN
        BY <1>0, <2>2 DEF TraderTyped, FlagsTyped, traderVars
  <2>4. ServerTyped'
    <3>1. CASE Boot \/ Optimize \/ Continue \/ WakeUp \/ Nap \/ Kill \/ UpdateFails \/ OpenFile
          BY <1>0, <3>1 DEF Boot, Optimize, Continue, WakeUp, Nap, Kill, UpdateFails, OpenFile, Goto,
                            ServerTyped, Places, historyVars
    <3>2. CASE ReadTimeLeft
      <4>1. next - now \in Int
            BY <1>0 DEF ClockTyped, ServerTyped, None
      <4>2. (next - now) % Day \in 0..(Day - 1)
            BY <4>1, Bounds, Division
      <4>3. left' \in 0..Day
            BY <3>2, <4>2, Bounds DEF ReadTimeLeft
      <4> QED
          BY <1>0, <3>2, <4>3 DEF ReadTimeLeft, Goto, ServerTyped, Places, historyVars
    <3>3. CASE CloseFile
      <4>1. asof \in Nat
            BY <1>0 DEF ClockTyped
      <4>2. NextClosest(asof) \in Nat \union {None}
            BY <4>1, NextClosestIs
      <4>3. CASE spc = "dumpopt"
            BY <1>0, <3>3, <4>1, <4>2, <4>3 DEF CloseFile, Goto, ServerTyped, Places
      <4>4. CASE spc = "dumpst"
            BY <1>0, <3>3, <4>4 DEF CloseFile, Goto, ServerTyped, Places, historyVars
      <4> QED
          BY <3>3, <4>3, <4>4 DEF CloseFile
    <3>4. CASE StartSleep
      <4>1. left' \in 0..Day
            BY <1>0, <3>4, SleepIs DEF StartSleep, ServerTyped
      <4> QED
          BY <1>0, <3>4, <4>1 DEF StartSleep, Goto, ServerTyped, Places, historyVars
    <3>5. CASE Restart
          BY <1>0, <3>5, Bounds DEF Restart, Goto, ServerTyped, Places
    <3> QED
        BY <1>2, <3>1, <3>2, <3>3, <3>4, <3>5 DEF Server
  <2>5. FilesTyped'
    <3>1. CASE OpenFile
      <4>1. PICK traded \in BOOLEAN :
               latest' = [ts |-> since - 1, mtime |-> now, opt |-> spc = "opt", whole |-> FALSE, traded |-> traded]
            BY <3>1 DEF OpenFile
      <4>2. since - 1 \in Int /\ now \in Int
            BY <1>0 DEF ClockTyped
      <4>3. latest' \in File
            BY <4>1, <4>2 DEF File
      <4> QED
          BY <1>0, <3>1, <4>3 DEF OpenFile, FilesTyped
    <3>2. CASE CloseFile
      <4>1. latest' = [latest EXCEPT !.mtime = now, !.whole = TRUE]
            BY <3>2 DEF CloseFile
      <4>2. latest \in File /\ latestOpt \in File /\ now \in Int
            BY <1>0 DEF FilesTyped, ClockTyped
      <4>3. latest' \in File
            BY <4>1, <4>2 DEF File
      <4>4. latestOpt' = latest' \/ latestOpt' = latestOpt
            BY <3>2 DEF CloseFile
      <4> QED
          BY <4>2, <4>3, <4>4 DEF FilesTyped
    <3>3. CASE ~OpenFile /\ ~CloseFile
      <4>1. UNCHANGED fileVars
            BY <1>2, <3>3 DEF Server, Boot, Optimize, Continue, ReadTimeLeft, UpdateFails,
                              StartSleep, WakeUp, Nap, Kill, Restart
      <4> QED
          BY <1>0, <4>1 DEF FilesTyped, fileVars
    <3> QED
        BY <3>1, <3>2, <3>3
  <2>6. failed' \in BOOLEAN /\ hidden' \in BOOLEAN
        BY <1>0, <1>2 DEF Server, Boot, Optimize, Continue, ReadTimeLeft, UpdateFails, OpenFile, CloseFile,
                          StartSleep, WakeUp, Nap, Kill, Restart, FlagsTyped, historyVars
  <2> QED
      BY <2>1, <2>3, <2>4, <2>5, <2>6, TypePartsNext DEF FlagsTyped
<1>3. CASE Trader
  <2>1. UNCHANGED <<now, serverVars, fileVars, historyVars>>
        BY <1>3 DEF Trader, LoadTargets, ReuseTargets, FailToParse, RestartTrader
  <2>2. ServerTyped' /\ FilesTyped' /\ failed' \in BOOLEAN /\ hidden' \in BOOLEAN
        BY <1>0, <2>1 DEF ServerTyped, FilesTyped, FlagsTyped, serverVars, fileVars, historyVars
  <2>3. loadedAt' \in {now, loadedAt}
        BY <1>3 DEF Trader, LoadTargets, ReuseTargets, FailToParse, RestartTrader
  <2>4. ClockTyped'
        BY <1>0, <2>1, <2>3 DEF ClockTyped, serverVars
  <2>5. Candidate \in File /\ NoFile \in File
        BY <1>0 DEF Candidate, FilesTyped, NoFile, File, None
  <2>6. Candidate.ts \in Int
        BY <2>5 DEF File
  <2>7. startUp' \in BOOLEAN
        BY <1>0, <1>3 DEF Trader, LoadTargets, ReuseTargets, FailToParse, RestartTrader, FlagsTyped
  <2>8. targets' \in File
        BY <1>0, <1>3, <2>5 DEF Trader, LoadTargets, ReuseTargets, FailToParse, RestartTrader, TraderTyped
  <2>9. tpc' \in {"up", "dead"}
        BY <1>0, <1>3 DEF Trader, LoadTargets, ReuseTargets, FailToParse, RestartTrader, TraderTyped
  <2>10. lastTs' \in Int
        BY <1>0, <1>3, <2>6 DEF Trader, LoadTargets, ReuseTargets, FailToParse, RestartTrader, TraderTyped, None
  <2> QED
      BY <2>2, <2>4, <2>7, <2>8, <2>9, <2>10, TypePartsNext DEF TraderTyped, FlagsTyped
<1>4. CASE UNCHANGED vars
  <2>1. ClockTyped' /\ ServerTyped' /\ FilesTyped' /\ TraderTyped' /\ FlagsTyped'
        BY <1>0, <1>4 DEF vars, ClockTyped, ServerTyped, FilesTyped, TraderTyped, FlagsTyped,
                          serverVars, fileVars, traderVars, historyVars
  <2> QED
      BY <2>1, TypePartsNext
<1> QED
    BY <1>1, <1>2, <1>3, <1>4 DEF Next

(* Types: in particular what is left of a sleep is never negative nor more *)
(* than a day, for timedelta.seconds wraps.                                *)
THEOREM TypeCorrect == Spec => []TypeOK
  BY InitTypes, TypeStep, PTL DEF Spec

-----------------------------------------------------------------------------
(* The hand-over.                                                          *)

\* The newest opt file, and what the trader remembers of it: the file with
\* short-term alphas never replaces it, and it is always newer than the bars
\* of the file the trader loaded, so that it is read again.
FilesInv == /\ latest.opt => latest = latestOpt
            /\ spc = "dumpst" => ~latest.opt
            /\ spc = "dumpopt" => latest.opt
            /\ latestOpt # NoFile => /\ latestOpt.opt
                                     /\ latestOpt.ts < latestOpt.mtime
                                     /\ latestOpt.mtime <= now
            /\ lastTs # None => latestOpt # NoFile /\ lastTs < latestOpt.mtime

\* The trader looks once in every period.
LooksInTime == tpc = "up" => now <= loadedAt + Period

\* What it has looked at it trades on, and what it would no longer see, unless
\* that was hidden before it could look.
SeenIsTraded == (/\ tpc = "up" /\ ~startUp /\ ~hidden
                 /\ latestOpt.whole /\ latestOpt.traded
                 /\ loadedAt > latestOpt.mtime \/ latest # latestOpt)
                => targets = latestOpt

HandoverInv == TypeOK /\ FilesInv /\ LooksInTime /\ SeenIsTraded

LEMMA FileFacts ==
    /\ NoFile.opt = FALSE /\ NoFile.whole = FALSE
    /\ \A f \in File : f.ts \in Int /\ f.mtime \in Int
  BY DEF NoFile, File, None

LEMMA InitHandover == Init => HandoverInv
<1> SUFFICES ASSUME Init PROVE HandoverInv
    OBVIOUS
<1>1. TypeOK
      BY InitTypes
<1>2. FilesInv
  <2>1. CASE latestOpt = NoFile
        BY <2>1, FileFacts DEF Init, FilesInv
  <2>2. CASE \E ts \in {t \in 0..(now - 1) : now - t < Interval} :
               latestOpt = [ts |-> ts, mtime |-> ts + 1, opt |-> TRUE, whole |-> TRUE, traded |-> TRUE]
    <3>1. PICK ts \in 0..(now - 1) :
               latestOpt = [ts |-> ts, mtime |-> ts + 1, opt |-> TRUE, whole |-> TRUE, traded |-> TRUE]
          BY <2>2
    <3>2. latestOpt.opt /\ latestOpt.ts = ts /\ latestOpt.mtime = ts + 1
          BY <3>1
    <3>3. now \in Nat /\ ts \in Nat /\ ts + 1 <= now
          BY <1>1, TypeParts DEF ClockTyped
    <3> QED
        BY <3>2, <3>3 DEF Init, FilesInv
  <2> QED
        BY <2>1, <2>2 DEF Init
<1>3. LooksInTime
      BY Bounds DEF Init, LooksInTime
<1>4. SeenIsTraded
      BY DEF Init, SeenIsTraded
<1> QED
    BY <1>1, <1>2, <1>3, <1>4 DEF HandoverInv

LEMMA FilesStep == HandoverInv /\ [Next]_vars => FilesInv'
<1> SUFFICES ASSUME HandoverInv, [Next]_vars PROVE FilesInv'
    OBVIOUS
<1>0. FilesInv /\ TypeOK /\ ClockTyped /\ FilesTyped /\ lastTs \in Int
      BY TypeParts DEF HandoverInv, TraderTyped
<1>a. /\ now \in Int /\ since \in Int /\ since <= now
      /\ latest \in File /\ latestOpt \in File
      /\ latestOpt.ts \in Int /\ latestOpt.mtime \in Int /\ latest.ts \in Int /\ latest.mtime \in Int
      BY <1>0, FileFacts DEF ClockTyped, FilesTyped
<1>1. CASE Tick
      BY <1>0, <1>1, <1>a DEF Tick, FilesInv, serverVars, fileVars, traderVars
<1>2. CASE UNCHANGED <<fileVars, traderVars>> /\ UNCHANGED now /\ spc' \notin {"dumpst", "dumpopt"}
      BY <1>0, <1>2, <1>a DEF FilesInv, fileVars, traderVars
<1>3. CASE Server /\ ~OpenFile /\ ~CloseFile
  <2>1. UNCHANGED <<now, fileVars, traderVars>>
        BY <1>3 DEF Server, Boot, Optimize, Continue, ReadTimeLeft, UpdateFails,
                    StartSleep, WakeUp, Nap, Kill, Restart, Goto
  <2>2. spc' \notin {"dumpst", "dumpopt"}
        BY <1>3 DEF Server, Boot, Optimize, Continue, ReadTimeLeft, UpdateFails,
                    StartSleep, WakeUp, Nap, Kill, Restart, Goto
  <2> QED
      BY <1>2, <2>1, <2>2
<1>4. CASE OpenFile
  <2>1. PICK traded \in BOOLEAN :
           latest' = [ts |-> since - 1, mtime |-> now, opt |-> spc = "opt", whole |-> FALSE, traded |-> traded]
        BY <1>4 DEF OpenFile
  <2>2. latest'.ts = since - 1 /\ latest'.mtime = now /\ latest'.opt = (spc = "opt")
        BY <2>1
  <2>3. UNCHANGED <<now, lastTs>>
        BY <1>4 DEF OpenFile, traderVars
  <2>4. CASE spc = "opt"
    <3>1. latestOpt' = latest' /\ spc' = "dumpopt" /\ latest'.opt
          BY <1>4, <2>2, <2>4 DEF OpenFile, Goto
    <3>2. latestOpt' # NoFile
          BY <3>1, FileFacts
    <3>3. lastTs # None => lastTs < now
          BY <1>0, <1>a DEF FilesInv
    <3> QED
        BY <1>a, <2>2, <2>3, <3>1, <3>2, <3>3 DEF FilesInv
  <2>5. CASE spc = "st"
    <3>1. latestOpt' = latestOpt /\ spc' = "dumpst" /\ ~latest'.opt
          BY <1>4, <2>2, <2>5 DEF OpenFile, Goto
    <3> QED
        BY <1>0, <2>3, <3>1 DEF FilesInv
  <2> QED
      BY <1>4, <2>4, <2>5 DEF OpenFile
<1>5. CASE CloseFile
  <2>1. latest' = [latest EXCEPT !.mtime = now, !.whole = TRUE]
        BY <1>5 DEF CloseFile
  <2>2. latest'.ts = latest.ts /\ latest'.mtime = now /\ latest'.opt = latest.opt
        BY <1>a, <2>1 DEF File
  <2>3. UNCHANGED <<now, lastTs>>
        BY <1>5 DEF CloseFile, traderVars
  <2>4. CASE spc = "dumpopt"
    <3>1. latestOpt' = latest' /\ spc' = "loop" /\ latest.opt
          BY <1>0, <1>5, <2>4 DEF CloseFile, Goto, FilesInv
    <3>2. latest = latestOpt /\ latestOpt # NoFile /\ latestOpt' # NoFile
          BY <1>0, <2>2, <3>1, FileFacts DEF FilesInv
    <3>3. latestOpt.ts < latestOpt.mtime /\ latestOpt.mtime <= now
          BY <1>0, <3>2 DEF FilesInv
    <3>4. lastTs # None => lastTs < now
          BY <1>0, <1>a, <3>3 DEF FilesInv
    <3>5. latestOpt'.opt
          BY <2>2, <3>1
    <3>6. latestOpt'.ts < latestOpt'.mtime /\ latestOpt'.mtime <= now' /\ (lastTs' # None => lastTs' < latestOpt'.mtime)
          BY <1>a, <2>2, <2>3, <3>1, <3>2, <3>3, <3>4
    <3> QED
        BY <2>3, <3>1, <3>2, <3>5, <3>6 DEF FilesInv
  <2>5. CASE spc = "dumpst"
    <3>1. latestOpt' = latestOpt /\ spc' = "wait" /\ ~latest'.opt
          BY <1>0, <1>5, <2>2, <2>5 DEF CloseFile, Goto, FilesInv
    <3> QED
        BY <1>0, <2>3, <3>1 DEF FilesInv
  <2> QED
      BY <1>5, <2>4, <2>5 DEF CloseFile
<1>6. CASE Trader
  <2>1. UNCHANGED <<now, spc, since, fileVars>>
        BY <1>6 DEF Trader, LoadTargets, ReuseTargets, FailToParse, RestartTrader, serverVars
  <2>2. lastTs' # None => latestOpt # NoFile /\ lastTs' < latestOpt.mtime
    <3>1. CASE LoadTargets
      <4>1. Candidate = latestOpt /\ latestOpt # NoFile
            BY <1>0, <3>1, FileFacts DEF LoadTargets, Newer, Candidate, FilesInv
      <4>2. lastTs' \in {lastTs, latestOpt.ts}
            BY <3>1, <4>1 DEF LoadTargets
      <4> QED
          BY <1>0, <4>1, <4>2 DEF FilesInv
    <3>2. CASE ~LoadTargets
      <4>1. lastTs' \in {lastTs, None}
            BY <1>6, <3>2 DEF Trader, ReuseTargets, FailToParse, RestartTrader
      <4> QED
          BY <1>0, <4>1 DEF FilesInv
    <3> QED
        BY <3>1, <3>2
  <2> QED
      BY <1>0, <2>1, <2>2 DEF FilesInv, fileVars
<1>7. CASE UNCHANGED vars
      BY <1>0, <1>7 DEF vars, FilesInv, serverVars, fileVars, traderVars
<1> QED
    BY <1>1, <1>3, <1>4, <1>5, <1>6, <1>7 DEF Next

LEMMA LooksStep == HandoverInv /\ [Next]_vars => LooksInTime'
<1> SUFFICES ASSUME HandoverInv, [Next]_vars PROVE LooksInTime'
    OBVIOUS
<1>0. LooksInTime /\ now \in Nat /\ loadedAt \in Nat
      BY TypeParts DEF HandoverInv, ClockTyped
<1>1. CASE Tick
      BY <1>0, <1>1, Bounds DEF Tick, LooksInTime, traderVars
<1>2. CASE Server
  <2>1. UNCHANGED <<now, traderVars>>
        BY <1>2 DEF Server, Boot, Optimize, Continue, ReadTimeLeft, UpdateFails, OpenFile, CloseFile,
                    StartSleep, WakeUp, Nap, Kill, Restart
  <2> QED
      BY <1>0, <2>1 DEF LooksInTime, traderVars
<1>3. CASE Trader
      BY <1>0, <1>3, Bounds DEF Trader, LoadTargets, ReuseTargets, FailToParse, RestartTrader, LooksInTime
<1>4. CASE UNCHANGED vars
      BY <1>0, <1>4 DEF vars, LooksInTime, traderVars
<1> QED
    BY <1>1, <1>2, <1>3, <1>4 DEF Next

LEMMA SeenStep ==
    ASSUME HandoverInv, [Next]_vars
    PROVE  SeenIsTraded'
<1>0. FilesInv /\ SeenIsTraded /\ LooksInTime /\ ClockTyped /\ FilesTyped /\ lastTs \in Int
      BY TypeParts DEF HandoverInv, TraderTyped
<1>a. /\ now \in Int /\ since \in Int /\ loadedAt \in Int /\ loadedAt <= now
      /\ latest \in File /\ latestOpt \in File /\ latestOpt.mtime \in Int
      BY <1>0, FileFacts DEF ClockTyped, FilesTyped
<1>1. CASE UNCHANGED <<fileVars, traderVars, hidden>>
      BY <1>0, <1>1 DEF SeenIsTraded, fileVars, traderVars
<1>2. CASE Tick \/ UNCHANGED vars \/ (Server /\ ~OpenFile /\ ~CloseFile)
  <2>1. UNCHANGED <<fileVars, traderVars, hidden>>
        BY <1>2 DEF Tick, vars, historyVars, Server, Boot, Optimize, Continue, ReadTimeLeft, UpdateFails,
                    StartSleep, WakeUp, Nap, Kill, Restart
  <2> QED
      BY <1>1, <2>1
<1>3. CASE OpenFile
  <2>1. CASE spc = "opt"
    <3>1. latestOpt' = latest' /\ latest'.whole = FALSE
          BY <1>3, <2>1 DEF OpenFile
    <3> QED
        BY <3>1 DEF SeenIsTraded
  <2>2. CASE spc = "st"
    <3>1. /\ UNCHANGED <<tpc, startUp, latestOpt, loadedAt, targets>>
          /\ hidden' = (hidden \/ now <= latestOpt.mtime + Period)
          BY <1>3, <2>2 DEF OpenFile, traderVars
    <3>2. SUFFICES ASSUME tpc = "up", ~startUp, ~hidden, ~(now <= latestOpt.mtime + Period),
                          latestOpt.whole, latestOpt.traded
                   PROVE  targets = latestOpt
          BY <3>1, Zenon DEF SeenIsTraded
    <3>3. now > latestOpt.mtime + Period
          BY <1>a, <3>2, Bounds
    <3>4. now <= loadedAt + Period
          BY <1>0, <3>2 DEF LooksInTime
    <3>5. loadedAt > latestOpt.mtime
          BY <1>a, <3>1, <3>3, <3>4, Bounds
    <3> QED
        BY <1>0, <3>2, <3>5 DEF SeenIsTraded
  <2> QED
      BY <1>3, <2>1, <2>2 DEF OpenFile
<1>4. CASE CloseFile
  <2>1. /\ latest' = [latest EXCEPT !.mtime = now, !.whole = TRUE]
        /\ UNCHANGED <<tpc, startUp, loadedAt, targets, hidden>>
        BY <1>4 DEF CloseFile, traderVars, historyVars
  <2>2. CASE spc = "dumpopt"
    <3>1. latestOpt' = latest' /\ latest'.mtime = now
          BY <1>4, <1>a, <2>1, <2>2 DEF CloseFile, File
    <3> QED
        BY <1>a, <2>1, <3>1 DEF SeenIsTraded
  <2>3. CASE spc = "dumpst"
    <3>1. latestOpt' = latestOpt /\ ~latest.opt
          BY <1>0, <1>4, <2>3 DEF CloseFile, FilesInv
    <3>2. latestOpt.whole => latest # latestOpt
          BY <1>0, <3>1, FileFacts DEF FilesInv
    <3> QED
        BY <1>0, <2>1, <3>1, <3>2 DEF SeenIsTraded
  <2> QED
      BY <1>4, <2>2, <2>3 DEF CloseFile
<1>5. CASE LoadTargets
  <2>1. Candidate = latestOpt /\ (~startUp => latest = latestOpt)
        BY <1>0, <1>5, FileFacts DEF LoadTargets, Newer, Candidate, FilesInv
  <2>2. UNCHANGED <<latest, latestOpt, hidden>>
        BY <1>5 DEF LoadTargets, fileVars, historyVars
  <2>3. CASE (Candidate.whole => ~Candidate.traded) /\ UNCHANGED <<startUp, lastTs, targets>>
        BY <2>1, <2>2, <2>3 DEF SeenIsTraded
  <2>4. CASE targets' = Candidate
        BY <2>1, <2>2, <2>4 DEF SeenIsTraded
  <2> QED
      BY <1>5, <2>3, <2>4 DEF LoadTargets
<1>6. CASE ReuseTargets
  <2>1. UNCHANGED <<tpc, startUp, latest, latestOpt, targets, lastTs, hidden>>
        BY <1>6 DEF ReuseTargets, fileVars, historyVars
  <2>2. SUFFICES ASSUME tpc = "up", ~startUp, ~hidden, latestOpt.whole, latestOpt.traded
                 PROVE  targets = latestOpt
        BY <2>1 DEF SeenIsTraded
  <2>3. latestOpt # NoFile
        BY <2>2, FileFacts
  <2>4. CASE latest = latestOpt
    <3>1. latestOpt.opt /\ Candidate = latestOpt
          BY <1>0, <2>2, <2>3, <2>4 DEF FilesInv, Candidate
    <3>2. ~Newer(latestOpt)
          BY <1>6, <3>1 DEF ReuseTargets
    <3>3. lastTs # None /\ ~(latestOpt.mtime > lastTs)
          BY <2>3, <3>2 DEF Newer
    <3>4. lastTs < latestOpt.mtime
          BY <1>0, <3>3 DEF FilesInv
    <3> QED
        BY <1>0, <1>a, <3>3, <3>4
  <2>5. CASE latest # latestOpt
        BY <1>0, <2>2, <2>5 DEF SeenIsTraded
  <2> QED
      BY <2>4, <2>5
<1>7. CASE FailToParse \/ RestartTrader
      BY <1>7 DEF FailToParse, RestartTrader, SeenIsTraded
<1> QED
    BY <1>2, <1>3, <1>4, <1>5, <1>6, <1>7 DEF Next, Trader

(* TargetsHandedOver: a complete opt file is traded on, whole, a period of *)
(* the trader after it was closed, even if it was read half written,       *)
(* unless a file with alphas only came within that period.                 *)
THEOREM HandedOver == Spec => []TargetsHandedOver
<1>1. HandoverInv /\ [Next]_vars => HandoverInv'
      BY TypeStep, FilesStep, LooksStep, SeenStep DEF HandoverInv
<1>2. HandoverInv => TargetsHandedOver
  <2> SUFFICES ASSUME HandoverInv, tpc = "up", ~startUp, ~hidden, latestOpt.whole, latestOpt.traded,
                      now > latestOpt.mtime + Period
               PROVE  targets = latestOpt
      BY DEF TargetsHandedOver
  <2>1. now \in Int /\ loadedAt \in Int /\ latestOpt.mtime \in Int
        BY TypeParts, FileFacts DEF HandoverInv, ClockTyped, FilesTyped
  <2>2. now <= loadedAt + Period
        BY DEF HandoverInv, LooksInTime
  <2>3. loadedAt > latestOpt.mtime
        BY <2>1, <2>2, Bounds
  <2> QED
      BY <2>3 DEF HandoverInv, SeenIsTraded
<1> QED
    BY InitHandover, <1>1, <1>2, PTL DEF Spec

-----------------------------------------------------------------------------
(* The schedule.                                                           *)

\* The clock, and the time the loop runs on: the bars of an optimization are
\* those of the clock when it was decided, and next is computed from them.
ClockInv == /\ 1 <= now /\ now <= MaxNow /\ 1 <= booted /\ booted <= asof
            /\ spc = "opt" => asof = since
            /\ spc = "dumpopt" => asof + MinCalc <= now
            /\ optimized # None => booted <= optimized /\ optimized + MinCalc <= now
            /\ optimized # None => next = NextClosest(optimized)

ScheduleInv == TypeOK /\ ClockInv /\ OnScheduleFirstDay

\* The times depend on the server's start alone.
LEMMA TimesKept == ASSUME booted' = booted
                   PROVE  ReoptTimes' = ReoptTimes /\ \A t : NextClosest(t)' = NextClosest(t)
  BY DEF ReoptTimes, Scheduled, NextClosest

(* Some scheduled time comes within the day that starts at t, and not      *)
(* within the offset.                                                      *)
LEMMA TimeWithinDay ==
    ASSUME OftenEnough, NEW t \in Nat, 1 <= t, t <= MaxNow
    PROVE  \E u \in Scheduled : t + Offset < u /\ u < t + Day
<1>1. PICK tau \in Times : tau \in 0..(Day - 1) /\ (tau + Offset - t) % Day > Offset
  <2>1. t \in 1..MaxNow
        BY Bounds
  <2>2. PICK tau \in Times : (tau + Offset - t) % Day > Offset
        BY <2>1 DEF OftenEnough
  <2> QED
      BY <2>2, Bounds
<1> DEFINE d == (tau + Offset - t) % Day
           q == (tau + Offset - t) \div Day
<1>2. q \in Int /\ tau + Offset - t = Day * q + d /\ d \in 0..(Day - 1) /\ d > Offset
      BY <1>1, Bounds, Division
<1> HIDE DEF d, q
<1>3. t + d - Offset = Day * (-q) + tau
  <2>1. Day * (-q) = -(Day * q)
        BY <1>2, Bounds
  <2> QED
      BY <1>1, <1>2, <2>1, Bounds
<1>4. (t + d - Offset) % Day = tau
  <2>1. t + d - Offset \in Int /\ -q \in Int
        BY <1>2, Bounds
  <2> QED
      BY <1>1, <1>3, <2>1, Bounds, RemainderUnique
<1>5. t + d - Offset \in 1..(MaxNow + 3 * Day) /\ t + Offset < t + d /\ t + d < t + Day
      BY <1>2, Bounds
<1>6. t + d - Offset \in Occurrences
      BY <1>1, <1>4, <1>5 DEF Occurrences
<1>7. t + d = (t + d - Offset) + Offset
      BY <1>2, Bounds
<1>8. t + d \in Scheduled
      BY <1>6, <1>7 DEF Scheduled
<1> QED
    BY <1>5, <1>8

LEMMA InitSchedule == Init => ScheduleInv
<1> SUFFICES ASSUME Init PROVE ScheduleInv
    OBVIOUS
<1>1. ClockInv
      BY Bounds DEF Init, ClockInv
<1>2. OnScheduleFirstDay
      BY DEF Init, OnScheduleFirstDay, OnSchedule
<1> QED
    BY <1>1, <1>2, InitTypes DEF ScheduleInv

LEMMA ClockStep == TypeOK /\ ClockInv /\ [Next]_vars => ClockInv'
<1> SUFFICES ASSUME TypeOK, ClockInv, [Next]_vars PROVE ClockInv'
    OBVIOUS
<1>0. /\ ClockInv /\ now \in Nat /\ booted \in Nat /\ asof \in Nat /\ since \in Nat
      /\ since <= now /\ asof <= now /\ booted <= now
      /\ next \in Nat \union {None} /\ optimized \in Nat \union {None}
      BY TypeParts DEF ClockTyped, ServerTyped
<1>1. CASE Tick
  <2>1. UNCHANGED <<serverVars, historyVars>> /\ now' = now + 1 /\ now' <= MaxNow
        BY <1>0, <1>1, Bounds DEF Tick
  <2>2. booted' = booted
        BY <2>1 DEF serverVars
  <2> QED
      BY <1>0, <2>1, <2>2, Bounds, TimesKept DEF ClockInv, serverVars, historyVars
<1>2. CASE Optimize \/ Continue
  <2>1. /\ UNCHANGED <<now, booted, next, historyVars>> /\ asof' = now /\ since' = now
        /\ spc' \in {"opt", "left"}
        BY <1>2 DEF Optimize, Continue, Goto
  <2> QED
      BY <1>0, <2>1, TimesKept DEF ClockInv, historyVars
<1>3. CASE Boot \/ ReadTimeLeft \/ UpdateFails \/ StartSleep \/ WakeUp \/ Nap \/ Kill
  <2>1. UNCHANGED <<now, booted, asof, next, optimized>> /\ spc' \notin {"opt", "dumpopt"}
        BY <1>3 DEF Boot, ReadTimeLeft, UpdateFails, StartSleep, WakeUp, Nap, Kill, Goto, historyVars
  <2> QED
      BY <1>0, <2>1, TimesKept DEF ClockInv
<1>4. CASE OpenFile
  <2>1. UNCHANGED <<now, booted, asof, next, optimized>> /\ now >= since + MinCalc
        BY <1>4 DEF OpenFile
  <2>2. spc' # "opt" /\ (spc' = "dumpopt" => spc = "opt")
        BY <1>4 DEF OpenFile, Goto
  <2> QED
      BY <1>0, <2>1, <2>2, Bounds, TimesKept DEF ClockInv, historyVars
<1>5. CASE CloseFile
  <2>1. UNCHANGED <<now, booted, asof>> /\ spc' \notin {"opt", "dumpopt"}
        BY <1>5 DEF CloseFile, Goto
  <2>2. CASE spc = "dumpopt"
    <3>1. optimized' = asof /\ next' = NextClosest(asof)
          BY <1>5, <2>2 DEF CloseFile
    <3> QED
        BY <1>0, <2>1, <2>2, <3>1, TimesKept DEF ClockInv
  <2>3. CASE spc = "dumpst"
    <3>1. UNCHANGED <<next, optimized>>
          BY <1>5, <2>3 DEF CloseFile, historyVars
    <3> QED
        BY <1>0, <2>1, <3>1, TimesKept DEF ClockInv
  <2> QED
      BY <1>5, <2>2, <2>3 DEF CloseFile
<1>6. CASE Restart
      BY <1>0, <1>6 DEF Restart, Goto, ClockInv
<1>7. CASE Trader \/ UNCHANGED vars
  <2>1. UNCHANGED <<now, serverVars, historyVars>>
        BY <1>7 DEF Trader, LoadTargets, ReuseTargets, FailToParse, RestartTrader, vars
  <2> QED
      BY <1>0, <2>1, TimesKept DEF ClockInv, serverVars, historyVars
<1> QED
    BY <1>1, <1>2, <1>3, <1>4, <1>5, <1>6, <1>7 DEF Next, Server

LEMMA ScheduleStep ==
    ASSUME OftenEnough, ScheduleInv, [Next]_vars
    PROVE  OnScheduleFirstDay'
<1>0. /\ ClockInv /\ OnScheduleFirstDay /\ now \in Nat /\ booted \in Nat /\ asof \in Nat /\ booted <= now
      /\ next \in Nat \union {None} /\ optimized \in Nat \union {None}
      BY TypeParts DEF ScheduleInv, ClockTyped, ServerTyped
<1>1. CASE Optimize
  <2>1. UNCHANGED <<now, booted, optimized>> /\ asof' = now /\ (next = None \/ now > next)
        BY <1>1 DEF Optimize, historyVars
  <2>2. SUFFICES ASSUME optimized # None, now <= booted + Day
                 PROVE  \E t \in Scheduled : optimized <= t /\ t < now
        BY <2>1 DEF OnScheduleFirstDay, OnSchedule, Scheduled
  <2>3. /\ booted <= optimized /\ optimized <= now /\ optimized \in Nat /\ 1 <= optimized
        /\ optimized <= MaxNow /\ 1 <= booted
        BY <1>0, <2>2, Bounds DEF ClockInv
  <2>4. next = NextClosest(optimized)
        BY <1>0, <2>2 DEF ClockInv
  <2>5. CASE next # None
    <3>1. next \in ReoptTimes /\ optimized <= next
          BY <2>3, <2>4, <2>5, NextClosestIs
    <3> QED
        BY <2>1, <2>5, <3>1, ReoptTimesAre
  <2>6. CASE next = None
    <3>1. \A u \in ReoptTimes : optimized <= u => optimized + Day <= u
          BY <2>3, <2>4, <2>6, NextClosestIs
    <3>2. PICK u \in Scheduled : optimized + Offset < u /\ u < optimized + Day
          BY <2>3, TimeWithinDay
    <3>3. u \in Nat
          BY ReoptTimesAre
    <3>4. booted + Offset < u /\ u <= booted + 2 * Day + Offset
          BY <1>0, <2>2, <2>3, <3>2, <3>3, Bounds
    <3>5. u \in ReoptTimes
          BY <1>0, <3>4, ReoptTimesReach
    <3> QED
        BY <2>3, <3>1, <3>2, <3>3, <3>5, Bounds
  <2> QED
      BY <2>5, <2>6
<1>2. CASE ~Optimize
  <2>1. spc' = "opt" => UNCHANGED <<spc, booted, asof, optimized>>
        BY <1>2 DEF Next, Tick, Server, Boot, Continue, ReadTimeLeft, UpdateFails, OpenFile, CloseFile,
                    StartSleep, WakeUp, Nap, Kill, Restart, Goto, Trader, LoadTargets, ReuseTargets,
                    FailToParse, RestartTrader, vars, serverVars, historyVars
  <2>2. CASE spc' # "opt"
        BY <2>2 DEF OnScheduleFirstDay, OnSchedule
  <2>3. CASE spc' = "opt"
        BY <1>0, <2>1, <2>3 DEF OnScheduleFirstDay, OnSchedule, Scheduled
  <2> QED
      BY <2>2, <2>3
<1> QED
    BY <1>1, <1>2

(* OnScheduleFirstDay: in the first day after its start, a server that has *)
(* optimized does so again only when a scheduled time has passed, if the   *)
(* list has a time more than the offset and less than a day ahead of any   *)
(* other (every four hours and three minutes: the shipped values).         *)
THEOREM ScheduledFirstDay == ASSUME OftenEnough PROVE Spec => []OnScheduleFirstDay
<1>1. ScheduleInv /\ [Next]_vars => ScheduleInv'
      BY TypeStep, ClockStep, ScheduleStep DEF ScheduleInv
<1>2. ScheduleInv => OnScheduleFirstDay
      BY DEF ScheduleInv
<1> QED
    BY InitSchedule, <1>1, <1>2, PTL DEF Spec

-----------------------------------------------------------------------------
(* The pace of the loop.                                                   *)

\* No scheduled time since the last optimization comes before the next time,
\* if it is of the list the server has.
NextIsFirst == next # None => /\ next \in ReoptTimes
                              /\ \A t \in ReoptTimes : LastOptimized < t => next <= t

\* How far after the next time the clock can be at each place of the loop.
Pace == /\ spc = "boot" => since <= next /\ now <= since + MaxCalc
        /\ spc = "loop" => now <= next + Slack
        /\ spc = "left" => since <= next /\ now <= since + 1
        /\ spc = "st" => since <= next + 1 /\ now <= since + MaxCalc
        /\ spc \in {"dumpst", "wait"} => now <= next + 1 + MaxCalc
        /\ spc = "sleep" => since <= next + 1 + MaxCalc /\ left <= Wave /\ now <= since + left
        /\ spc = "nap" => since <= next + 1 + MaxCalc + Wave /\ now <= since + 1

KeepsPace == next # None /\ ~failed => Pace

\* An optimization runs on the time it was decided at.
CalcTime == /\ spc = "opt" => now <= since + MaxCalc
            /\ spc = "dumpopt" => now <= asof + MaxCalc

PaceInv == TypeOK /\ ClockInv /\ NextIsFirst /\ KeepsPace /\ CalcTime

LEMMA PaceFacts == ASSUME TypeOK
                   PROVE  /\ now \in Nat /\ since \in Nat /\ booted \in Nat /\ asof \in Nat /\ left \in Nat
                          /\ since <= now /\ next \in Nat \union {None} /\ optimized \in Nat \union {None}
  BY TypeParts, Bounds DEF ClockTyped, ServerTyped

LEMMA InitPace == Init => PaceInv
<1> SUFFICES ASSUME Init PROVE PaceInv
    OBVIOUS
<1>1. TypeOK /\ ClockInv
      BY InitTypes, Bounds DEF Init, ClockInv
<1>2. now \in Nat /\ LastOptimized = now /\ booted = now
      BY Bounds DEF Init, LastOptimized
<1>3. NextIsFirst
  <2>1. next # None => next = NextClosest(now)
        BY DEF Init
  <2>3. next # None => next \in ReoptTimes
        BY <1>2, <2>1, NextClosestIs
  <2> SUFFICES ASSUME next # None, NEW t \in ReoptTimes, now < t PROVE next <= t
      BY <1>2, <2>3 DEF NextIsFirst
  <2>2. t \in Nat
        BY ReoptTimesAre
  <2> QED
      BY <1>2, <2>1, <2>2, NextClosestIs
<1>4. KeepsPace
  <2> SUFFICES ASSUME next # None PROVE Pace
      BY DEF KeepsPace
  <2>1. spc = "boot" /\ next = NextClosest(now)
        BY DEF Init
  <2>2. now <= next
        BY <1>2, <2>1, NextClosestIs
  <2> QED
      BY <1>2, <2>1, <2>2, Bounds DEF Pace, Init
<1>5. CalcTime
      BY DEF Init, CalcTime
<1> QED
    BY <1>1, <1>3, <1>4, <1>5 DEF PaceInv

LEMMA NextIsFirstStep == PaceInv /\ [Next]_vars => NextIsFirst'
<1> SUFFICES ASSUME PaceInv, [Next]_vars PROVE NextIsFirst'
    OBVIOUS
<1>0. NextIsFirst /\ asof \in Nat
      BY PaceFacts DEF PaceInv
<1>1. CASE CloseFile /\ spc = "dumpopt"
  <2>1. booted' = booted /\ next' = NextClosest(asof) /\ optimized' = asof
        BY <1>1 DEF CloseFile
  <2>2. LastOptimized' = asof
        BY <1>0, <2>1 DEF LastOptimized, None
  <2>4. next' # None => next' \in ReoptTimes
        BY <1>0, <2>1, NextClosestIs
  <2> SUFFICES ASSUME next' # None, NEW t \in ReoptTimes, asof < t PROVE next' <= t
      BY <2>1, <2>2, <2>4, TimesKept DEF NextIsFirst
  <2>3. t \in Nat /\ NextClosest(asof) # None
        BY <2>1, ReoptTimesAre
  <2> QED
      BY <1>0, <2>1, <2>3, NextClosestIs
<1>2. CASE Restart
      BY <1>2 DEF Restart, NextIsFirst
<1>3. CASE ~Restart /\ ~(CloseFile /\ spc = "dumpopt")
  <2>1. UNCHANGED <<booted, next, optimized>>
        BY <1>3 DEF Next, Tick, Server, Boot, Optimize, Continue, ReadTimeLeft, UpdateFails, OpenFile, CloseFile,
                    StartSleep, WakeUp, Nap, Kill, Trader, LoadTargets, ReuseTargets,
                    FailToParse, RestartTrader, vars, serverVars, historyVars
  <2> QED
      BY <1>0, <2>1, TimesKept DEF NextIsFirst, LastOptimized
<1> QED
    BY <1>1, <1>2, <1>3

LEMMA PaceStep == PaceInv /\ [Next]_vars => KeepsPace'
<1> SUFFICES ASSUME PaceInv, [Next]_vars, next' # None, ~failed' PROVE Pace'
    BY DEF KeepsPace
<1>0. /\ KeepsPace /\ ClockInv /\ CalcTime /\ now \in Nat /\ since \in Nat /\ asof \in Nat /\ left \in Nat
      /\ since <= now /\ next \in Nat \union {None}
      /\ Wave \in Nat /\ MinCalc \in Nat /\ MaxCalc \in Nat /\ Slack = MaxCalc + Wave + 2
      BY PaceFacts, Bounds DEF PaceInv, Slack
<1>1. CASE CloseFile /\ spc = "dumpopt"
  <2>1. next' = NextClosest(asof) /\ spc' = "loop" /\ now' = now
        BY <1>1 DEF CloseFile, Goto
  <2>2. next' \in Nat /\ asof <= next'
        BY <1>0, <2>1, NextClosestIs
  <2>3. now <= asof + MaxCalc
        BY <1>0, <1>1 DEF CalcTime
  <2> QED
      BY <1>0, <2>1, <2>2, <2>3 DEF Pace, Slack
<1>2. CASE Restart
      BY <1>2 DEF Restart
<1>3. CASE ~Restart /\ ~(CloseFile /\ spc = "dumpopt")
  <2>a. next' = next
        BY <1>3 DEF Next, Tick, Server, Boot, Optimize, Continue, ReadTimeLeft, UpdateFails, OpenFile, CloseFile,
                    StartSleep, WakeUp, Nap, Kill, Trader, LoadTargets, ReuseTargets,
                    FailToParse, RestartTrader, vars, serverVars
  <2>b. ~failed
    <3>1. CASE UpdateFails
          BY <3>1, Zenon DEF UpdateFails
    <3>2. CASE ~UpdateFails
      <4>1. failed' = failed
            BY <1>3, <3>2 DEF Next, Tick, Server, Boot, Optimize, Continue, ReadTimeLeft, OpenFile, CloseFile,
                        StartSleep, WakeUp, Nap, Kill, Trader, LoadTargets, ReuseTargets,
                        FailToParse, RestartTrader, vars, historyVars
      <4> QED
          BY <4>1, Zenon
    <3> QED
        BY <3>1, <3>2
  <2>0. UNCHANGED <<next>> /\ ~failed
        BY <2>a, <2>b
  <2>1. Pace /\ next \in Nat
        BY <1>0, <2>0 DEF KeepsPace
  <2>2. CASE Tick
    <3>1. now' = now + 1 /\ now < since + StayMax /\ UNCHANGED <<spc, since, left>>
          BY <2>2 DEF Tick, serverVars
    <3>2. CASE spc \in {"boot", "opt", "st"}
          BY <1>0, <2>0, <2>1, <3>1, <3>2 DEF Pace, StayMax
    <3>3. CASE spc = "sleep"
          BY <1>0, <2>0, <2>1, <3>1, <3>3 DEF Pace, StayMax
    <3>4. CASE spc \in {"left", "nap"}
          BY <1>0, <2>0, <2>1, <3>1, <3>4 DEF Pace, StayMax
    <3>5. CASE spc = "down"
          BY <3>1, <3>5 DEF Pace
    <3>6. CASE spc \notin {"boot", "opt", "st", "sleep", "left", "nap", "down"}
      <4>1. StayMax = 0
            BY <3>6 DEF StayMax
      <4> QED
          BY <1>0, <3>1, <4>1
    <3> QED
        BY <3>2, <3>3, <3>4, <3>5, <3>6
  <2>3. CASE Boot \/ Optimize \/ Continue \/ Nap \/ Kill
        BY <1>0, <2>0, <2>1, <2>3 DEF Boot, Optimize, Continue, Nap, Kill, Goto, Pace, Slack
  <2>4. CASE ReadTimeLeft
        BY <1>0, <2>0, <2>1, <2>4 DEF ReadTimeLeft, Goto, Pace
  <2>5. CASE UpdateFails
    <3>1. spc = "st"
          BY <2>5 DEF UpdateFails
    <3> QED
        BY <1>0, <2>0, <2>1, <2>5, <3>1 DEF UpdateFails, Goto, Pace
  <2>6. CASE OpenFile
    <3>1. now' = now /\ ((spc' = "dumpst" /\ spc = "st") \/ spc' = "dumpopt")
          BY <2>6 DEF OpenFile, Goto
    <3> QED
        BY <1>0, <2>0, <2>1, <3>1 DEF Pace
  <2>7. CASE CloseFile /\ spc = "dumpst"
    <3>1. now' = now /\ spc' = "wait"
          BY <2>7 DEF CloseFile, Goto
    <3> QED
        BY <1>0, <2>0, <2>1, <2>7, <3>1 DEF Pace
  <2>8. CASE StartSleep
    <3>1. now' = now /\ since' = now /\ spc = "wait" /\ spc' \in {"sleep", "nap"}
          BY <2>8 DEF StartSleep, Goto
    <3>2. spc' = "sleep" => left' \in Nat /\ left' <= Wave
      <4>1. TypeOK
            BY DEF PaceInv
      <4> QED
          BY <2>8, <4>1, SleepIs, Bounds DEF StartSleep, Goto
    <3> QED
        BY <1>0, <2>0, <2>1, <3>1, <3>2 DEF Pace
  <2>9. CASE WakeUp
        BY <1>0, <2>0, <2>1, <2>9 DEF WakeUp, Goto, Pace
  <2>10. CASE Trader \/ UNCHANGED vars
    <3>1. UNCHANGED <<now, spc, since, left>>
          BY <2>10 DEF Trader, LoadTargets, ReuseTargets, FailToParse, RestartTrader, vars, serverVars
    <3> QED
        BY <2>0, <2>1, <3>1 DEF Pace, Slack
  <2> QED
      BY <1>3, <2>2, <2>3, <2>4, <2>5, <2>6, <2>7, <2>8, <2>9, <2>10 DEF Next, Server, CloseFile
<1> QED
    BY <1>1, <1>2, <1>3

LEMMA CalcStep == PaceInv /\ [Next]_vars => CalcTime'
<1> SUFFICES ASSUME PaceInv, [Next]_vars PROVE CalcTime'
    OBVIOUS
<1>0. /\ CalcTime /\ ClockInv /\ now \in Nat /\ since \in Nat /\ asof \in Nat
      /\ since <= now /\ MinCalc \in Nat /\ MaxCalc \in Nat
      BY PaceFacts, Bounds DEF PaceInv
<1>1. CASE Tick
  <2>1. now' = now + 1 /\ now < since + StayMax /\ UNCHANGED <<spc, since, asof>>
        BY <1>1 DEF Tick, serverVars
  <2>2. spc = "opt" => StayMax = MaxCalc
        BY DEF StayMax
  <2>3. spc = "dumpopt" => StayMax = 0
        BY DEF StayMax
  <2> QED
      BY <1>0, <2>1, <2>2, <2>3 DEF CalcTime
<1>2. CASE Optimize
      BY <1>0, <1>2 DEF Optimize, Goto, CalcTime
<1>3. CASE OpenFile
      BY <1>0, <1>3 DEF OpenFile, Goto, CalcTime, ClockInv
<1>4. CASE ~Tick /\ ~Optimize /\ ~OpenFile
  <2>1. spc' \in {"opt", "dumpopt"} => UNCHANGED <<now, spc, since, asof>>
        BY <1>4 DEF Next, Server, Boot, Continue, ReadTimeLeft, UpdateFails, CloseFile,
                    StartSleep, WakeUp, Nap, Kill, Restart, Goto, Trader, LoadTargets, ReuseTargets,
                    FailToParse, RestartTrader, vars, serverVars
  <2> QED
      BY <1>0, <2>1 DEF CalcTime
<1> QED
    BY <1>1, <1>2, <1>3, <1>4

(* OptimizedInTime: a server that knows its next time does not let a       *)
(* scheduled time go by for longer than an update, a sleep and a nap, if   *)
(* the time is more than the offset after its start.                       *)
THEOREM ScheduledInTime == Spec => []OptimizedInTime
<1>1. PaceInv /\ [Next]_vars => PaceInv'
      BY TypeStep, ClockStep, NextIsFirstStep, PaceStep, CalcStep DEF PaceInv
<1>2. PaceInv => OptimizedInTime
  <2> SUFFICES ASSUME PaceInv, next # None, ~failed, spc \notin {"opt", "dumpopt", "down"},
                      NEW t \in Scheduled, booted + Offset < t, LastOptimized < t
               PROVE  now <= t + Slack
      BY DEF OptimizedInTime, Knowing, InTime
  <2>0. next \in ReoptTimes /\ (t \in ReoptTimes => next <= t) /\ Pace
        BY DEF PaceInv, NextIsFirst, KeepsPace
  <2>1. next <= t /\ Pace
    <3>1. CASE t <= booted + 2 * Day + Offset
          BY <2>0, <3>1, ReoptTimesReach, PaceFacts DEF PaceInv
    <3>2. CASE ~(t <= booted + 2 * Day + Offset)
      <4>1. next \in Nat /\ next <= booted + 2 * Day + Offset /\ t \in Nat /\ booted \in Nat
            BY <2>0, ReoptTimesAre, ReoptTimesReach, PaceFacts DEF PaceInv
      <4>2. next <= t
            BY <3>2, <4>1, Bounds
      <4> QED
          BY <2>0, <4>2
    <3> QED
        BY <3>1, <3>2
  <2>2. /\ now \in Nat /\ since \in Nat /\ left \in Nat /\ next \in Nat /\ t \in Nat
        /\ Wave \in Nat /\ MaxCalc \in Nat
        BY PaceFacts, ReoptTimesAre, Bounds DEF PaceInv
  <2>3. spc \in Places
        BY TypeParts DEF PaceInv, ServerTyped
  <2>4. now <= next + Slack
        BY <2>1, <2>2, <2>3 DEF Pace, Slack, Places
  <2> QED
      BY <2>1, <2>2, <2>4 DEF Slack
<1> QED
    BY InitPace, <1>1, <1>2, PTL DEF Spec
=============================================================================
