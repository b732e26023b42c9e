---------------------------- MODULE TargetHandoff ----------------------------
(***************************************************************************)
(* Target files, from the server's loop (lib/server/server.py,             *)
(* AlphaServer.loop) to the trader (lib/trader/trader.py,                  *)
(* get_latest_targets).  The server optimizes at the scheduled times and   *)
(* writes an opt file; in between it writes files with short-term alphas   *)
(* only.  The trader takes the newest file by modification time.           *)
(*                                                                         *)
(* Both run on one clock.  The files live on disk: neither process tells   *)
(* the other anything else, and a file can be read while it is written.    *)
(***************************************************************************)
EXTENDS Integers, FiniteSetsExt

CONSTANTS Day,          \* ticks of a day
          Times,        \* REOPT_TIMES, as ticks of a day
          Interval,     \* reoptimize_interval_mins
          Near,         \* 20 minutes
          Wave,         \* wave_interval_seconds, of the server's sleep
          Period,       \* longest time between two looks of the trader: a wave and its work
          Offset,       \* OPT_OFFSET_MINS
          Starts,       \* bound: clock values the server may be started at first
          MinCalc, MaxCalc, \* external: how long update and generate_targets take
          MaxNow        \* bound: the clock stops there

ASSUME TimeAssumption == /\ Times \subseteq 0..(Day - 1) /\ Times # {}
                         /\ {Day, Interval, Near, Wave, Period, Offset, MinCalc, MaxCalc, MaxNow} \subseteq Nat
                         /\ Day > 0 /\ Wave > 0 /\ Wave <= Period /\ MinCalc <= MaxCalc
                         /\ Starts \subseteq 1..MaxNow

VARIABLES now,
          spc,        \* where the server's loop is
          since,      \* clock when it got there
          booted,     \* clock at the server's start, for reopt_times
          asof,       \* now of the loop
          next,       \* next_reoptimize, None when None
          left,       \* next_reopt_secs
          latest,     \* the newest file by modification time
          latestOpt,  \* the newest opt file
          tpc,        \* the trader: "up" or "dead"
          loadedAt,   \* clock of its last get_latest_targets
          startUp,    \* start_up
          lastTs,     \* last_target_file_ts
          targets,    \* what current_target_df holds: a file as it was read
          optimized,  \* history: asof of the server's last optimization
          failed,     \* history: an optimization was skipped since then
          hidden      \* history: an alpha file came within a period of the latest opt file

serverVars == <<spc, since, booted, asof, next, left>>
fileVars == <<latest, latestOpt>>
traderVars == <<tpc, loadedAt, startUp, lastTs, targets>>
historyVars == <<optimized, failed, hidden>>
vars == <<now, serverVars, fileVars, traderVars, historyVars>>

None == -1

\* A file: the time of its bars, its modification time, whether it is an opt
\* file, written to the end, and whether its portfolio is not zero.
File == [ts : Int, mtime : Int, opt : BOOLEAN, whole : BOOLEAN, traded : BOOLEAN]
NoFile == [ts |-> None, mtime |-> None, opt |-> FALSE, whole |-> FALSE, traded |-> FALSE]

\* Every occurrence of the times, and when the optimization is due.
Occurrences == {t \in 1..(MaxNow + 3 * Day) : t % Day \in Times}
Scheduled == {t + Offset : t \in Occurrences}

\* extract_reopt_times: the next occurrence of every time and the one after,
\* and only then the offset.
ReoptTimes == {t + Offset : t \in {u \in Occurrences : booted < u /\ u <= booted + 2 * Day}}

\* Mutant of NextClosest: times that have passed are not skipped.
NextAlsoPassed(t) == LET near == {u \in ReoptTimes : u - t < Day}
                     IN  IF near = {} THEN None ELSE Min(near)

\* Mutant of NextClosest: the last of the times is taken.
NextFarthest(t) == LET ahead == {u \in ReoptTimes : t <= u /\ u - t < Day}
                   IN  IF ahead = {} THEN None ELSE Max(ahead)

\* next_closest_time
NextClosest(t) == LET ahead == {u \in ReoptTimes : t <= u /\ u - t < Day}
                  IN  IF ahead = {} THEN None ELSE Min(ahead)

\* The server starts with an optimization, or finds a recent opt file, updates
\* all its horizons and waits for the next scheduled time.
Init == /\ now \in Starts /\ since = now /\ booted = now /\ asof = now /\ left = 0
        /\ \/ latestOpt = NoFile /\ next = None /\ spc = "loop"
           \/ /\ spc = "boot" /\ next = NextClosest(now)
              /\ \E ts \in {t \in 0..(now - 1) : now - t < Interval} :
                    latestOpt = [ts |-> ts, mtime |-> ts + 1, opt |-> TRUE, whole |-> TRUE, traded |-> TRUE]
        /\ latest = latestOpt
        /\ tpc = "up" /\ loadedAt = now /\ startUp = TRUE /\ lastTs = None /\ targets = NoFile
        /\ optimized = None /\ failed = FALSE /\ hidden = FALSE

-----------------------------------------------------------------------------
(* The clock.                                                              *)

\* update and generate_targets take their time, a sleep lasts until its end, a
\* nap a tick at most, and the clock may move between the two readings of it
\* at the top of the loop.
StayMax == CASE spc \in {"boot", "opt", "st"} -> MaxCalc
             [] spc = "sleep" -> left
             [] spc = "down" -> MaxNow
             [] spc \in {"left", "nap"} -> 1
             [] OTHER -> 0

Tick == /\ now < MaxNow
        /\ now < since + StayMax
        /\ tpc = "up" => now < loadedAt + Period
        /\ now' = now + 1
        /\ UNCHANGED <<serverVars, fileVars, traderVars, historyVars>>

-----------------------------------------------------------------------------
(* The server's loop.                                                      *)

Goto(p) == spc' = p /\ since' = now

Boot == /\ spc = "boot"
        /\ Goto("loop")
        /\ UNCHANGED <<now, booted, asof, next, left, fileVars, traderVars, historyVars>>

\* The top of the loop.
Optimize == /\ spc = "loop" /\ (next = None \/ now > next)
            /\ asof' = now
            /\ Goto("opt")
            /\ UNCHANGED <<now, booted, next, left, fileVars, traderVars, historyVars>>

Continue == /\ spc = "loop" /\ next # None /\ now <= next
            /\ asof' = now
            /\ Goto("left")
            /\ UNCHANGED <<now, booted, next, left, fileVars, traderVars, historyVars>>

\* Mutant of ReadTimeLeft: a negative difference stays negative.
ReadTimeSigned == /\ spc = "left"
                  /\ left' = next - now
                  /\ Goto(IF left' > Near THEN "st" ELSE "nap")
                  /\ UNCHANGED <<now, booted, asof, next, fileVars, traderVars, historyVars>>

\* The clock is read again; timedelta.seconds wraps at a day when the
\* difference is negative.
ReadTimeLeft == /\ spc = "left"
                /\ left' = (next - now) % Day
                /\ Goto(IF left' > Near THEN "st" ELSE "nap")
                /\ UNCHANGED <<now, booted, asof, next, fileVars, traderVars, historyVars>>

\* update() found no new bars.
UpdateFails == /\ spc \in {"opt", "st"}
               /\ Goto(IF spc = "opt" THEN "loop" ELSE "wait")
               /\ failed' = (failed \/ spc = "opt")
               /\ UNCHANGED <<now, booted, asof, next, left, fileVars, traderVars, optimized, hidden>>

\* dump_targets opens the file and writes into it, in place.
OpenFile == /\ spc \in {"opt", "st"} /\ now >= since + MinCalc
            /\ \E traded \in BOOLEAN :
                   latest' = [ts |-> since - 1, mtime |-> now, opt |-> spc = "opt",
                              whole |-> FALSE, traded |-> traded]
            /\ latestOpt' = IF spc = "opt" THEN latest' ELSE latestOpt
            /\ Goto(IF spc = "opt" THEN "dumpopt" ELSE "dumpst")
            /\ hidden' = (spc = "st" /\ (hidden \/ now <= latestOpt.mtime + Period))
            /\ UNCHANGED <<now, booted, asof, next, left, traderVars, optimized, failed>>

CloseFile == /\ spc \in {"dumpopt", "dumpst"}
             /\ latest' = [latest EXCEPT !.mtime = now, !.whole = TRUE]
             /\ IF spc = "dumpopt"
                THEN /\ latestOpt' = latest'
                     /\ next' = NextClosest(asof)
                     /\ optimized' = asof /\ failed' = FALSE /\ UNCHANGED hidden
                     /\ Goto("loop")
                ELSE /\ Goto("wait")
                     /\ UNCHANGED <<latestOpt, next, historyVars>>
             /\ UNCHANGED <<now, booted, asof, left, traderVars>>

\* wait_secs, after `elapsed` of update and generate_targets.
WaitTicks(elapsed) == Min({left, Wave}) - elapsed

\* The elapsed time counts from after the second reading of the clock.
StartSleep == /\ spc = "wait"
              /\ \E elapsed \in {now - asof, Max({0, now - asof - 1})} :
                    IF WaitTicks(elapsed) > 0
                    THEN left' = WaitTicks(elapsed) /\ Goto("sleep")
                    ELSE Goto("nap") /\ UNCHANGED left
              /\ UNCHANGED <<now, booted, asof, next, fileVars, traderVars, historyVars>>

WakeUp == /\ spc = "sleep" /\ now = since + left
          /\ Goto("nap")
          /\ UNCHANGED <<now, booted, asof, next, left, fileVars, traderVars, historyVars>>

\* time.sleep(30)
Nap == /\ spc = "nap"
       /\ Goto("loop")
       /\ UNCHANGED <<now, booted, asof, next, left, fileVars, traderVars, historyVars>>

\* check_kill_file exits the process wherever it is; the server is restarted
\* with --trade-on-start.
Kill == /\ spc # "down"
        /\ Goto("down")
        /\ UNCHANGED <<now, booted, asof, next, left, fileVars, traderVars, historyVars>>

Restart == /\ spc = "down"
           /\ Goto("loop")
           /\ booted' = now /\ asof' = now /\ next' = None /\ left' = 0
           /\ optimized' = None /\ failed' = FALSE
           /\ UNCHANGED <<now, fileVars, traderVars, hidden>>

Server == \/ Boot \/ Optimize \/ Continue \/ ReadTimeLeft \/ UpdateFails \/ OpenFile \/ CloseFile
          \/ StartSleep \/ WakeUp \/ Nap \/ Kill \/ Restart

-----------------------------------------------------------------------------
(* The trader, once in every wave.                                         *)

\* The file get_latest_targets considers: only opt files before the first.
Candidate == IF startUp THEN latestOpt ELSE latest

\* Mutant of Newer: files are compared with the one loaded last, not its bars.
NewerThanLoaded(f) == f # NoFile /\ (lastTs = None \/ f.mtime > loadedAt)

Newer(f) == f # NoFile /\ (lastTs = None \/ f.mtime > lastTs)

\* New targets; a file whose portfolio is zero is refused.  A file read half
\* written can look either way.
LoadTargets == /\ tpc = "up" /\ Newer(Candidate) /\ Candidate.opt
               /\ loadedAt' = now
               /\ \/ /\ Candidate.whole => ~Candidate.traded
                     /\ UNCHANGED <<startUp, lastTs, targets>>
                  \/ /\ Candidate.whole => Candidate.traded
                     /\ targets' = Candidate
                     /\ lastTs' = Candidate.ts
                     /\ startUp' = FALSE
               /\ UNCHANGED <<now, tpc, serverVars, fileVars, historyVars>>

\* Alphas only, or nothing new: the targets are re-sent.
ReuseTargets == /\ tpc = "up" /\ ~(Newer(Candidate) /\ Candidate.opt)
                /\ loadedAt' = now
                /\ UNCHANGED <<now, tpc, startUp, lastTs, targets, serverVars, fileVars, historyVars>>

\* A file read while it is being written may not parse.
FailToParse == /\ tpc = "up" /\ Newer(Candidate) /\ ~Candidate.whole
               /\ tpc' = "dead"
               /\ UNCHANGED <<now, loadedAt, startUp, lastTs, targets, serverVars, fileVars, historyVars>>

\* After a crash, or by update.sh.
RestartTrader == /\ tpc' = "up" /\ loadedAt' = now /\ startUp' = TRUE
                 /\ lastTs' = None /\ targets' = NoFile
                 /\ UNCHANGED <<now, serverVars, fileVars, historyVars>>

Trader == LoadTargets \/ ReuseTargets \/ FailToParse \/ RestartTrader

Next == Tick \/ Server \/ Trader

Spec == Init /\ [][Next]_vars

-----------------------------------------------------------------------------
TypeOK == /\ now \in Nat /\ {since, booted, asof, loadedAt} \subseteq 0..now
          /\ spc \in {"boot", "loop", "opt", "left", "st", "dumpopt", "dumpst", "wait", "sleep", "nap", "down"}
          /\ next \in Nat \union {None} /\ left \in 0..Day
          /\ latest \in File /\ latestOpt \in File /\ targets \in File
          /\ tpc \in {"up", "dead"} /\ startUp \in BOOLEAN /\ lastTs \in Int
          /\ optimized \in Nat \union {None} /\ failed \in BOOLEAN /\ hidden \in BOOLEAN

\* Once an opt file is complete for longer than the trader's period the trader
\* trades on it, whole, even if it read the file half written:
\* get_latest_targets compares with the time of the bars, so the file is read
\* again.  Unless a file with alphas only came in the meantime: the trader
\* takes the newest file alone, and would not see the opt file behind it.
TargetsHandedOver ==
    (/\ tpc = "up" /\ ~startUp /\ ~hidden
     /\ latestOpt.whole /\ latestOpt.traded /\ now > latestOpt.mtime + Period)
    => targets = latestOpt

\* A server that knows its next time does not let a scheduled time go by: the
\* optimization has started within an update, a sleep and a nap, whatever the
\* sleeps, the updates in between and the wrap of timedelta.seconds, unless an
\* update failed.  Except for a time of which the server was started within
\* the offset: its list of times does not have it.
Slack == MaxCalc + Wave + 2
LastOptimized == IF optimized = None THEN booted ELSE optimized
InTime(t) == LastOptimized < t => now <= t + Slack
Knowing == next # None /\ ~failed /\ spc \notin {"opt", "dumpopt", "down"}
OptimizedInTime == Knowing => \A t \in Scheduled : booted + Offset < t => InTime(t)

\* "Major reoptimizations at scheduled times": a server that has optimized
\* does so again only when a scheduled time has passed.
OnSchedule == (spc = "opt" /\ optimized # None) =>
    \E t \in Scheduled : optimized <= t /\ t < asof

\* So it is for the first day after the server's start.
OnScheduleFirstDay == asof <= booted + Day => OnSchedule

\* Some scheduled time is more than the offset and less than a day away,
\* whenever one looks.
OftenEnough == \A t \in 1..MaxNow : \E tau \in Times : (tau + Offset - t) % Day > Offset
=============================================================================
