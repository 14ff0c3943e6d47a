------------------------------ MODULE BridgeLoop ------------------------------
(***************************************************************************)
(* The loop of the daemon (runtime.run_bridge_loop), its signal handler    *)
(* (main.run_daemon) and systemd around it, in whole seconds.              *)
(*                                                                         *)
(* A step between two blocking calls takes no time: Tick is possible only  *)
(* in a call, in a wait, and while systemd waits before a restart.  What a *)
(* prepare cycle does is in MatchBridge; here it takes up to CycleTime.    *)
(* A definition marked "mutant" is not part of the model: it is a bug that *)
(* the definition after it must not have (see README.md).                  *)
(***************************************************************************)
EXTENDS Naturals

CONSTANTS
    Interval,          \* HEARTBEAT_INTERVAL_SECONDS
    IdlePoll,          \* IDLE_POLL_INTERVAL_SECONDS
    BackoffInitial,    \* BACKOFF_INITIAL_SECONDS
    BackoffMax,        \* BACKOFF_MAX_SECONDS
    CallTime,          \* longest request to Central
    RconTime,          \* RCON_SUBPROCESS_TIMEOUT_SECONDS
    VerifyTime,        \* VERIFICATION_TIMEOUT_SECONDS and one poll interval
    BusyTime,          \* longest an operation of the journal waits for its file
    RestartDelay,      \* RestartSec of the unit
    Faults

FaultKinds == {"network",      \* ConnectionError: back off
               "refusal",      \* any other exception: the process exits
               "crash",        \* the process is killed
               "window"}       \* a signal arrives while a wait holds stop_event's lock

ASSUME LoopConstants ==
    /\ Interval \in Nat \ {0} /\ IdlePoll \in Nat
    /\ BackoffInitial \in Nat \ {0} /\ BackoffMax \in Nat
    /\ BackoffInitial <= BackoffMax
    /\ CallTime \in Nat /\ RconTime \in Nat /\ VerifyTime \in Nat
    /\ BusyTime \in Nat /\ RestartDelay \in Nat
    /\ Faults \subseteq FaultKinds

(* Each operation of the journal begins with BEGIN IMMEDIATE, which waits  *)
(* while another process, such as `check` or sqlite3, writes the file      *)
(* (journal.py:60).  The longest cycle: claim, observe, mark_applying,     *)
(* matchzy_loadmatch, the wait for evidence with the inspection that       *)
(* starts just before its deadline, mark_succeeded, and the result.        *)
JournalTime == 3 * BusyTime

CycleTime ==
    CallTime + RconTime + (VerifyTime + 2 * RconTime) + CallTime + JournalTime

(* The backoffs that occur while heartbeats succeed: the initial one and   *)
(* its doublings that fit into an interval, since before it waits for k    *)
(* seconds the loop has waited k - BackoffInitial since the heartbeat.     *)
Waits == BackoffInitial .. (Interval + BackoffInitial - 1)

Doubling(S) ==
    /\ BackoffInitial \in S
    /\ \A k \in S : 2 * k \in Waits => 2 * k \in S

TameBackoffs == {k \in Waits : \A S \in SUBSET Waits : Doubling(S) => k \in S}

(* What may keep the loop from its next heartbeat after a cycle.           *)
Pauses == TameBackoffs \cup {IdlePoll, RestartDelay}

LongestPause == CHOOSE k \in Pauses : \A j \in Pauses : j <= k

(* A cycle is begun within the interval, or right after the heartbeat.     *)
LastClaim == IF CallTime < Interval THEN Interval - 1 ELSE CallTime

MaxSilence == LastClaim + CycleTime + LongestPause + CallTime

VARIABLES
    pc,         \* where the loop is
    spent,      \* seconds in the current call or wait
    wait,       \* seconds the current wait is to last
    backoff,    \* current_backoff
    heard,      \* this process had a heartbeat answered
    since,      \* seconds since the last heartbeat that succeeded was begun
    failed,     \* since then one failed, or the process was killed
    stop,       \* stop_event is set
    late        \* seconds since the signal

vars == <<pc, spent, wait, backoff, heard, since, failed, stop, late>>

Labels == {"top", "heartbeat", "gate", "cycle", "entering", "waiting", "leaving",
           "down", "stopped", "hung"}
Running == pc \notin {"down", "stopped", "hung"}

(* Seconds are counted up to Horizon, which says "longer than expected".   *)
Horizon == MaxSilence + 1

TypeOK ==
    /\ pc \in Labels
    /\ spent \in Nat /\ wait \in Nat /\ since \in Nat /\ late \in Nat
    /\ backoff \in BackoffInitial..BackoffMax
    /\ heard \in BOOLEAN /\ failed \in BOOLEAN /\ stop \in BOOLEAN

(* The process has just been started.                                      *)
Init ==
    /\ pc = "top" /\ spent = 0 /\ wait = 0
    /\ backoff = BackoffInitial
    /\ heard = FALSE /\ since = 0 /\ failed = FALSE
    /\ stop = FALSE /\ late = 0

May(fault) == fault \in Faults

Fresh ==
    /\ pc' = "top" /\ spent' = 0 /\ wait' = 0
    /\ backoff' = BackoffInitial
    /\ heard' = FALSE
    /\ stop' = FALSE /\ late' = 0

Goto(label) == pc' = label /\ spent' = 0 /\ wait' = 0

(* An exception leaves run_bridge_loop and main returns 1 or 2.  systemd   *)
(* restarts the unit unless it is the one who asked it to stop.            *)
Exit == Goto(IF stop THEN "stopped" ELSE "down")

(* stop_event.wait(seconds).                                               *)
Pause(seconds) == pc' = "entering" /\ spent' = 0 /\ wait' = seconds

DoubledUncapped == 2 * backoff                                 \* mutant

Doubled == IF 2 * backoff > BackoffMax THEN BackoffMax ELSE 2 * backoff

-----------------------------------------------------------------------------
(* One round of the loop.                                                  *)
Due == heard => since >= Interval

TopUnchecked ==                                                \* mutant
    /\ pc = "top"
    /\ Goto(IF Due THEN "heartbeat" ELSE "gate")
    /\ UNCHANGED <<backoff, heard, since, failed, stop, late>>

Top ==
    /\ pc = "top"
    /\ Goto(IF stop THEN "stopped" ELSE IF Due THEN "heartbeat" ELSE "gate")
    /\ UNCHANGED <<backoff, heard, since, failed, stop, late>>

(* last_heartbeat_time is the time before the call.                        *)
HeartbeatOkUnreset ==                                          \* mutant
    /\ pc = "heartbeat"
    /\ heard' = TRUE /\ since' = spent /\ failed' = FALSE
    /\ Goto("gate")
    /\ UNCHANGED <<backoff, stop, late>>

HeartbeatOk ==
    /\ pc = "heartbeat"
    /\ heard' = TRUE /\ since' = spent /\ failed' = FALSE
    /\ backoff' = BackoffInitial
    /\ Goto("gate")
    /\ UNCHANGED <<stop, late>>

HeartbeatUnreachableGoesOn ==                                  \* mutant
    /\ pc = "heartbeat"
    /\ May("network")
    /\ failed' = TRUE
    /\ Goto("gate") /\ backoff' = Doubled
    /\ UNCHANGED <<heard, since, stop, late>>

(* `continue`: nothing is claimed until a heartbeat is answered.           *)
HeartbeatUnreachable ==
    /\ pc = "heartbeat"
    /\ May("network")
    /\ failed' = TRUE
    /\ Pause(backoff) /\ backoff' = Doubled
    /\ UNCHANGED <<heard, since, stop, late>>

HeartbeatRefused ==
    /\ pc = "heartbeat"
    /\ May("refusal")
    /\ failed' = TRUE
    /\ Exit
    /\ UNCHANGED <<backoff, heard, since, stop, late>>

GateUnchecked ==                                               \* mutant
    /\ pc = "gate"
    /\ Goto("cycle")
    /\ UNCHANGED <<backoff, heard, since, failed, stop, late>>

Gate ==
    /\ pc = "gate"
    /\ Goto(IF stop THEN "stopped" ELSE "cycle")
    /\ UNCHANGED <<backoff, heard, since, failed, stop, late>>

(* prepare_one_cycle returns: with NO_WORK the loop waits, otherwise it    *)
(* claims again at once.                                                   *)
CycleReturns ==
    /\ pc = "cycle"
    /\ backoff' = BackoffInitial
    /\ Pause(IdlePoll) \/ Goto("top")
    /\ UNCHANGED <<heard, since, failed, stop, late>>

CycleUnreachable ==
    /\ pc = "cycle"
    /\ May("network")
    /\ Pause(backoff) /\ backoff' = Doubled
    /\ UNCHANGED <<heard, since, failed, stop, late>>

CycleRaises ==
    /\ pc = "cycle"
    /\ May("refusal")
    /\ Exit
    /\ UNCHANGED <<backoff, heard, since, failed, stop, late>>

-----------------------------------------------------------------------------
(* threading.Event.wait: it takes the event's lock, which is not           *)
(* reentrant, looks at the flag, and gives the lock back only while it     *)
(* sleeps.                                                                 *)
WaitEnters ==
    /\ pc = "entering"
    /\ pc' = IF stop THEN "leaving" ELSE "waiting"
    /\ UNCHANGED <<spent, wait, backoff, heard, since, failed, stop, late>>

WaitEnds ==
    /\ pc = "waiting"
    /\ spent = wait \/ stop
    /\ Goto("leaving")
    /\ UNCHANGED <<backoff, heard, since, failed, stop, late>>

WaitReturns ==
    /\ pc = "leaving"
    /\ Goto("top")
    /\ UNCHANGED <<backoff, heard, since, failed, stop, late>>

-----------------------------------------------------------------------------
(* Signals, the end of the process and its next start, time.               *)

(* SIGTERM or SIGINT: _signal_handler runs between two steps of the one    *)
(* thread and sets stop_event.                                             *)
Signal ==
    /\ Running /\ ~stop
    /\ stop' = TRUE
    /\ UNCHANGED <<pc, spent, wait, backoff, heard, since, failed, late>>

(* Event.set takes the lock too: if the interrupted wait holds it, the     *)
(* handler waits for its own thread.                                       *)
SignalInWait ==
    /\ pc \in {"entering", "leaving"}
    /\ May("window")
    /\ Goto("hung")
    /\ stop' = TRUE
    /\ UNCHANGED <<backoff, heard, since, failed, late>>

(* Only SIGKILL ends it then: systemd's, when its patience is over.        *)
Killed ==
    /\ pc = "hung"
    /\ Goto("stopped")
    /\ UNCHANGED <<backoff, heard, since, failed, stop, late>>

Crash ==
    /\ Running
    /\ May("crash")
    /\ failed' = TRUE
    /\ Exit
    /\ UNCHANGED <<backoff, heard, since, stop, late>>

(* Restart=on-failure, RestartSec.                                         *)
Restart ==
    /\ pc = "down" /\ spent = RestartDelay
    /\ Fresh
    /\ UNCHANGED <<since, failed>>

(* The operator starts the service again; the count begins anew.           *)
Start ==
    /\ pc = "stopped"
    /\ Fresh /\ since' = 0 /\ failed' = FALSE

(* A wait wakes up as soon as the flag is set.                             *)
Blocking ==
    \/ pc = "heartbeat" /\ spent < CallTime
    \/ pc = "cycle" /\ spent < CycleTime
    \/ pc = "waiting" /\ spent < wait /\ ~stop
    \/ pc = "down" /\ spent < RestartDelay

Tick ==
    /\ Blocking
    /\ spent' = spent + 1
    /\ since' = IF since < Horizon THEN since + 1 ELSE since
    /\ late' = IF stop THEN late + 1 ELSE late
    /\ UNCHANGED <<pc, wait, backoff, heard, failed, stop>>

-----------------------------------------------------------------------------
(* What the loop and systemd do by themselves.                             *)
Proceed ==
    \/ Top \/ HeartbeatOk \/ Gate \/ CycleReturns
    \/ WaitEnters \/ WaitEnds \/ WaitReturns
    \/ Restart

Next ==
    \/ Proceed
    \/ HeartbeatUnreachable \/ HeartbeatRefused \/ CycleUnreachable \/ CycleRaises
    \/ Signal \/ SignalInWait \/ Killed \/ Crash \/ Start
    \/ Tick

Spec == Init /\ [][Next]_vars

(* The process runs, and time passes.                                      *)
FairSpec == Spec /\ WF_vars(Proceed) /\ WF_vars(Tick)

-----------------------------------------------------------------------------
(* A process claims nothing before a heartbeat of its own was answered,    *)
(* not after a restart either, and nothing when the last answered one is   *)
(* older than the interval, or the call that told it; however heartbeats   *)
(* and cycles fail in between (runtime.py:41 and :60).                     *)
ClaimsAreAnnounced ==
    [][pc # "cycle" /\ pc' = "cycle" =>
          heard' /\ (since' < Interval \/ since' <= CallTime)]_vars

(* As long as heartbeats do not fail, two of them are at most MaxSilence   *)
(* apart, whatever the cycles in between do and how long they take: the    *)
(* heartbeat resets the backoff, which therefore stays below its maximum   *)
(* (runtime.py:51).                                                        *)
HeartbeatCadence == failed \/ since <= MaxSilence

(* After a signal the process is busy for one call or one cycle at most    *)
(* (runtime.py:63, the second check of stop_event).                        *)
StopLatency == late <= CallTime \/ late <= CycleTime

(* A signal is heeded, even if Central cannot be reached ever again: the   *)
(* loop ends, unless the handler blocks it.                                *)
StopIsHeeded == stop ~> pc \in {"stopped", "hung"}

(* The loop runs until stop_event is set, and then ends (runtime.py:32).   *)
StopEnds == stop ~> pc = "stopped"
=============================================================================
