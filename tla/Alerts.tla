------------------------------- MODULE Alerts -------------------------------
(***************************************************************************)
(* One alert: what lib/pnl/fill_counter.py asks of lib/util/opsgenie.py.   *)
(* A process raises its alert in every round of a condition (no fills for  *)
(* a while) and clears it once when the condition is over.  Each call runs *)
(* two coroutines side by side for thirty seconds at most: one reads which *)
(* alerts are open, from a file that the processes share or, when the file *)
(* is old, from OpsGenie; the other raises or clears.  The first call of a *)
(* process runs a second reader, which stays suspended between calls if it *)
(* has not ended.                                                          *)
(*                                                                         *)
(* Of the sets of keys only this one is kept; of the other processes what  *)
(* their calls do to it in the file.  A file is written and read whole.    *)
(* Requests run in threads: what a cancelled coroutine asked for may be    *)
(* done all the same, later.                                               *)
(***************************************************************************)
EXTENDS Naturals

CONSTANTS StaleTicks,   \* minutes after which the file is not trusted
          MaxRestarts   \* bound: how often the process is restarted

ASSUME StaleAssumption == StaleTicks \in Nat \ {0}
ASSUME RestartsAssumption == MaxRestarts \in Nat

Readers == {"init", "call"}

VARIABLES
    opened,     \* OpsGenie: the alert is open
    late,       \* requests nobody waits for any more
    file,       \* active_alerts.json: whether it has the key, age of last_update
    peer,       \* where another process is in a call of its own
    view,       \* and whether it takes the alert for open
    silent,     \* no fills for too long
    restarts,
    flag,       \* no_fill_alert
    call,       \* "raise" or "clear" while in such a call
    reader,     \* where the coroutines bootstrap_from_local are
    answer,     \* what OpsGenie lists: this alert, others only, or nothing
    job,        \* where the coroutine raise_alert or clear_alert is
    active,     \* the key is in active_alert_keys
    booted,     \* bootstrapped
    known,      \* the key is in alert_key_to_last_priority
    raised,     \* what is left of the minute after last_raise_tstamp
    cleared     \* what is left of the minute after last_clear_tstamp

peerVars == <<peer, view>>
service == <<opened, late>>
caller == <<silent, restarts, flag>>
throttle == <<raised, cleared>>
memory == <<active, booted, known>>
vars == <<service, file, peerVars, caller, call, reader, answer, job, memory, throttle>>

NewReader == [init |-> "new", call |-> "done"]
NoAnswer == [r \in Readers |-> "nothing"]

Init == /\ opened = FALSE /\ late = {}
        /\ file = [has |-> FALSE, age |-> StaleTicks]
        /\ peer = "idle" /\ view = FALSE
        /\ silent = FALSE /\ restarts \in 0..MaxRestarts
        /\ flag = FALSE /\ call = "none" /\ job = "done"
        /\ reader = NewReader /\ answer = NoAnswer
        /\ active = FALSE /\ booted = FALSE /\ known = FALSE
        /\ raised = 0 /\ cleared = 0

Fresh == file.age < StaleTicks

\* Mutant of Save: the file counts as read from OpsGenie.
SaveAsRead(has) == file' = [has |-> has, age |-> 0]

\* The file of update_alert_dict, with the time of the last bootstrap ...
Save(has) == file' = [file EXCEPT !.has = has]

\* ... and the file after a bootstrap.
SaveRead(has) == file' = [has |-> has, age |-> 0]

-----------------------------------------------------------------------------
(* A round of the monitor, and the call it makes.                          *)

\* Each reader begins with the file.
Load == LET place == IF Fresh THEN "done" ELSE "list" IN
        /\ active' = (Fresh /\ file.has)
        /\ booted' = (booted \/ Fresh)
        /\ reader' = [call |-> place,
                      init |-> IF reader.init = "new" THEN place ELSE reader.init]

\* Tasks start in the order in which they were made, the readers first.
Begin == /\ call = "none"
         /\ \/ silent /\ call' = "raise"
            \/ ~silent /\ flag /\ call' = "clear"
         /\ Load
         /\ job' = "start"
         /\ UNCHANGED <<service, file, peerVars, caller, answer, known, throttle>>

\* run_until_complete is over; a time-out or an exception is logged only.
Return == /\ call # "none" /\ job = "done" /\ reader.call = "done"
          /\ flag' = (call = "raise")
          /\ call' = "none"
          /\ UNCHANGED <<service, file, peerVars, silent, restarts, reader, answer, job, memory, throttle>>

-----------------------------------------------------------------------------
(* bootstrap_from_local                                                    *)

GoTo(r, place) == reader' = [reader EXCEPT ![r] = place]

\* An empty answer leaves active_alert_keys as they are.
HandleList(r) ==
    /\ call # "none" /\ reader[r] = "listed"
    /\ active' = IF answer[r] = "nothing" THEN active ELSE answer[r] = "alert"
    /\ booted' = TRUE
    /\ SaveRead(active')
    /\ GoTo(r, "done")
    /\ answer' = [answer EXCEPT ![r] = "nothing"]
    /\ UNCHANGED <<service, peerVars, caller, call, job, known, throttle>>

\* Without an answer it sleeps for a minute, unless a bootstrap succeeded
\* before: then the keys are saved as if they had been read.
HandleNoList(r) ==
    /\ call # "none" /\ reader[r] = "failed"
    /\ IF booted THEN SaveRead(active) /\ GoTo(r, "done")
                 ELSE GoTo(r, "nap") /\ UNCHANGED file
    /\ UNCHANGED <<service, peerVars, caller, call, answer, job, memory, throttle>>

\* The reader left over from the first call goes on when the loop next runs.
Wake == /\ call # "none" /\ reader.init = "awake"
        /\ GoTo("init", "list")
        /\ UNCHANGED <<service, file, peerVars, caller, call, answer, job, memory, throttle>>

\* Mutant of SaveUnread: wait_for_initial_bootstrap has no deadline.
SaveUnreadLater == /\ reader.call = "cancelled" /\ booted
                   /\ SaveRead(active)
                   /\ GoTo("call", "done")
                   /\ UNCHANGED <<service, peerVars, caller, call, answer, job, memory, throttle>>

\* Cancelled in its sleep a reader takes the loop for ended and, after half a
\* minute at most, saves the keys as if they had been read.
SaveUnread == /\ reader.call = "cancelled"
              /\ booted' = TRUE
              /\ SaveRead(active)
              /\ GoTo("call", "done")
              /\ UNCHANGED <<service, peerVars, caller, call, answer, job, active, known, throttle>>

-----------------------------------------------------------------------------
(* raise_alert and clear_alert                                             *)

\* A key that is taken for open is described anew, after its priority if this
\* process has not set one.
Raise == IF active THEN /\ job' = IF known THEN "describe" ELSE "priority"
                        /\ UNCHANGED <<active, known>>
                   ELSE job' = "create" /\ active' = TRUE /\ known' = TRUE

Clear == /\ job' = IF active THEN "close" ELSE "done"
         /\ UNCHANGED <<active, known>>

\* Less than a minute after the last call; 1 is what may be less.
Throttled == /\ job = "start"
             /\ \/ call = "raise" /\ raised > 0
                \/ call = "clear" /\ cleared > 0
             /\ job' = "done"
             /\ UNCHANGED <<service, file, peerVars, caller, call, reader, answer, memory, throttle>>

\* The job is not suspended if a bootstrap has ever succeeded.
StartRaise ==
    /\ call = "raise" /\ job = "start"
    /\ raised < 2 /\ raised' = 2
    /\ IF booted THEN Raise /\ cleared' = 0
                 ELSE job' = "wait" /\ UNCHANGED <<active, known, cleared>>
    /\ UNCHANGED <<service, file, peerVars, caller, call, reader, answer, booted>>

StartClear ==
    /\ call = "clear" /\ job = "start"
    /\ cleared < 2 /\ cleared' = 2
    /\ IF booted THEN Clear
                 ELSE job' = "wait" /\ UNCHANGED <<active, known>>
    /\ UNCHANGED <<service, file, peerVars, caller, call, reader, answer, booted, raised>>

\* Bootstrapped, or half a minute is over.
EndWait == /\ job = "wait"
           /\ booted' = TRUE
           /\ \/ call = "raise" /\ Raise /\ cleared' = 0
              \/ call = "clear" /\ Clear /\ UNCHANGED cleared
           /\ UNCHANGED <<service, file, peerVars, caller, call, reader, answer, raised>>

EndPriority == /\ job = "priority"
               /\ active' = TRUE /\ known' = TRUE
               /\ job' = "describe"
               /\ UNCHANGED <<service, file, peerVars, caller, call, reader, answer, booted, throttle>>

\* Whether the alert was created or described is not looked at.
EndRaise == /\ call = "raise" /\ job \in {"describe", "answered", "refused"}
            /\ Save(active)
            /\ job' = "done"
            /\ UNCHANGED <<service, peerVars, caller, call, reader, answer, memory, throttle>>

EndClear == /\ call = "clear"
            /\ \/ job = "answered" /\ active' = FALSE /\ raised' = 0 /\ Save(FALSE)
               \/ job = "refused" /\ UNCHANGED <<active, raised, file>>
            /\ job' = "done"
            /\ UNCHANGED <<service, peerVars, caller, call, reader, answer, booted, known, cleared>>

\* The loop has nothing to run before an answer comes or half a minute is over.
Waiting ==
    /\ call # "none" /\ {job, reader.call} # {"done"}
    /\ \/ job \in {"priority", "create", "describe", "close", "done"}
       \/ job = "wait" /\ ~booted
    /\ \A r \in Readers : reader[r] \notin {"listed", "failed", "awake"}

\* Bound: one abandoned request at a time.
Abandon(kind) == late = {} /\ late' = {kind}

\* wait_for cancels both coroutines; a request that a thread has begun goes on.
Timeout == /\ Waiting /\ reader.call # "cancelled"
           /\ job' = "done"
           /\ GoTo("call", IF reader.call = "nap" THEN "cancelled" ELSE "done")
           /\ \/ UNCHANGED late
              \/ job \in {"create", "close"} /\ Abandon(job)
           /\ UNCHANGED <<opened, file, peerVars, caller, call, answer, memory, throttle>>

Loop == \/ Begin \/ Return
        \/ \E r \in Readers : HandleList(r) \/ HandleNoList(r)
        \/ Wake \/ SaveUnread
        \/ Throttled \/ StartRaise \/ StartClear \/ EndWait
        \/ EndPriority \/ EndRaise \/ EndClear

-----------------------------------------------------------------------------
(* OpsGenie and the threads of the requests.                               *)

Do(kind) == opened' = (kind = "create")

Serve(kind) == /\ job = kind
               /\ Do(kind)
               /\ job' = "answered"
               /\ UNCHANGED <<late, file, peerVars, caller, call, reader, answer, memory, throttle>>

\* execute_call_with_retry ends with the first failure.  What failed may be the
\* answer only.
Fail(kind) == /\ job = kind
              /\ Do(kind) \/ UNCHANGED opened
              /\ job' = "refused"
              /\ UNCHANGED <<late, file, peerVars, caller, call, reader, answer, memory, throttle>>

ServeLate(kind) == /\ kind \in late /\ late' = late \ {kind}
                   /\ Do(kind)
                   /\ UNCHANGED <<file, peerVars, caller, call, reader, answer, job, memory, throttle>>

Listings == IF opened THEN {"alert"} ELSE {"others", "nothing"}

ServeList(r) == /\ reader[r] = "list"
                /\ \E a \in Listings : answer' = [answer EXCEPT ![r] = a]
                /\ GoTo(r, "listed")
                /\ UNCHANGED <<service, file, peerVars, caller, call, job, memory, throttle>>

FailList(r) == /\ reader[r] = "list"
               /\ GoTo(r, "failed")
               /\ UNCHANGED <<service, file, peerVars, caller, call, answer, job, memory, throttle>>

Threads == \/ \E kind \in {"create", "close"} : Serve(kind) \/ Fail(kind)
           \/ \E r \in Readers : ServeList(r) \/ FailList(r)

-----------------------------------------------------------------------------
(* Other processes, whose calls for their own alerts write the same file.  *)

\* Bound: they are followed after the last restart only.
PeerLoad == /\ peer = "idle" /\ restarts = MaxRestarts
            /\ view' = (Fresh /\ file.has)
            /\ peer' = IF Fresh THEN "job" ELSE "list"
            /\ UNCHANGED <<service, file, caller, call, reader, answer, job, memory, throttle>>

\* An answer, an empty one or none.
PeerList == /\ peer = "list" /\ peer' = "job"
            /\ view' \in {view, opened}
            /\ SaveRead(view')
            /\ UNCHANGED <<service, caller, call, reader, answer, job, memory, throttle>>

PeerSave == /\ peer = "job"
            /\ Save(view)
            /\ UNCHANGED <<service, peerVars, caller, call, reader, answer, job, memory, throttle>>

PeerReturn == /\ peer # "idle" /\ peer' = "idle" /\ view' = FALSE
              /\ UNCHANGED <<service, file, caller, call, reader, answer, job, memory, throttle>>

Peer == PeerLoad \/ PeerList \/ PeerSave \/ PeerReturn

-----------------------------------------------------------------------------
(* Fills, restarts and the clock.                                          *)

\* Silence begins, or ends with a fill or with the day.
Turn == /\ call = "none"
        /\ silent' = ~silent
        /\ UNCHANGED <<service, file, peerVars, restarts, flag, call, reader, answer, job, memory, throttle>>

Restart == /\ restarts < MaxRestarts /\ restarts' = restarts + 1
           /\ flag' = FALSE /\ call' = "none" /\ job' = "done"
           /\ reader' = NewReader /\ answer' = NoAnswer
           /\ active' = FALSE /\ booted' = FALSE /\ known' = FALSE
           /\ raised' = 0 /\ cleared' = 0
           /\ \/ UNCHANGED late
              \/ job \in {"create", "close"} /\ Abandon(job)
           /\ UNCHANGED <<opened, file, peerVars, silent>>

\* A minute, which is longer than a call.
Tick == /\ call = "none"
        /\ file' = [file EXCEPT !.age = IF Fresh THEN @ + 1 ELSE @]
        /\ raised' = IF raised > 0 THEN raised - 1 ELSE 0
        /\ cleared' = IF cleared > 0 THEN cleared - 1 ELSE 0
        /\ GoTo("init", IF reader.init = "nap" THEN "awake" ELSE reader.init)
        /\ UNCHANGED <<service, peerVars, caller, call, answer, job, memory>>

Next == \/ Loop \/ Timeout \/ Threads \/ \E kind \in late : ServeLate(kind)
        \/ Peer \/ Turn \/ Restart \/ Tick

Spec == Init /\ [][Next]_vars

\* The monitor and the event loop run, time passes, deadlines end, and OpsGenie
\* does not refuse for ever to list alerts and to create one.
FairSpec == /\ Spec
            /\ WF_vars(Loop) /\ WF_vars(Timeout)
            /\ SF_vars(Tick)
            /\ SF_vars(Serve("create")) /\ SF_vars(\E r \in Readers : ServeList(r))

-----------------------------------------------------------------------------
\* A lasting condition is reported for good, although a key enters the set of
\* open alerts before its alert is created, is not created while it is in the
\* set, and is brought back into it by the file: after fifteen minutes the file
\* is not believed any more.  (It takes that the other processes come to rest:
\* one that writes back what it has read into every reading may keep the key in
\* the file for ever.)
ConditionReported == <>[](silent /\ peer = "idle") => <>[]opened

\* Calls return, whatever OpsGenie does: the monitor does not wait for it for
\* ever.
CallsReturn == call # "none" ~> call = "none"
=============================================================================
