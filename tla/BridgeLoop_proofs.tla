-------------------------- MODULE BridgeLoop_proofs --------------------------
(***************************************************************************)
(* For all intervals, delays and durations: the loop's variables keep      *)
(* their types, a signal is heeded within one call or cycle, a process     *)
(* claims nothing before Central has answered a heartbeat of its own, and  *)
(* as long as heartbeats do not fail they are no further apart than        *)
(* MaxSilence.                                                             *)
(***************************************************************************)
EXTENDS BridgeLoop, Integers, WellFoundedInduction, TLAPS

(* What each blocking call has used up, of its own time and of the time    *)
(* since the signal: a call that began before the signal is the last one.  *)
Durations ==
    /\ pc = "heartbeat" => spent <= CallTime /\ late <= spent
    /\ pc = "cycle" => spent <= CycleTime /\ late <= spent
    /\ ~stop => late = 0
    /\ pc = "down" => ~stop

(* Beyond the heartbeat, this process had one answered lately.             *)
Announced == pc = "gate" => heard /\ (since < Interval \/ since <= CallTime)

(* The backoff is one that fits: the loop has waited all the shorter ones  *)
(* since the heartbeat, d seconds ago.                                     *)
Earned(d) ==
    \E k \in TameBackoffs : /\ k <= d + BackoffInitial
                            /\ backoff = k \/ (backoff = BackoffMax /\ BackoffMax <= k)

(* Where the next heartbeat is not due, the loop may fail and wait again.  *)
Grown(d) == d < Interval => Earned(d)

(* Since a heartbeat that was answered: how long ago it was, ...           *)
Silence ==
    ~failed =>
        /\ pc = "gate" => since <= LastClaim
        /\ pc = "cycle" => since <= LastClaim + spent
        /\ pc \in {"entering", "waiting"} =>
               since <= LastClaim + CycleTime + spent /\ spent <= wait /\ wait <= LongestPause
        /\ pc = "down" => since <= LastClaim + CycleTime + spent /\ spent <= RestartDelay
        /\ pc \in {"leaving", "top"} => since <= LastClaim + CycleTime + LongestPause
        /\ pc = "heartbeat" => since <= LastClaim + CycleTime + LongestPause + spent
        /\ pc \in {"stopped", "hung"} => since <= MaxSilence

(* ... and what the backoff has come to, unless the loop is to end.        *)
Backoffs ==
    ~failed =>
        /\ pc \in {"gate", "cycle"} => Earned(since)
        /\ pc = "entering" => spent = 0
        /\ pc \in {"entering", "waiting"} /\ ~stop => Grown(since - spent + wait)
        /\ pc \in {"leaving", "top"} /\ ~stop => Grown(since)

LoopInv == TypeOK /\ Durations /\ Announced /\ StopLatency /\ Silence /\ Backoffs

LEMMA CycleTimeType == CycleTime \in Nat
  BY LoopConstants DEF LoopConstants, CycleTime, JournalTime

-----------------------------------------------------------------------------
(* The backoffs below an interval.                                         *)

LEMMA TameBackoff ==
    /\ TameBackoffs \subseteq Nat
    /\ BackoffInitial \in TameBackoffs
    /\ \A k \in TameBackoffs :
           2 * k < Interval + BackoffInitial => 2 * k \in TameBackoffs
<1> USE LoopConstants DEF LoopConstants
<1>1. BackoffInitial \in Waits /\ Waits \subseteq Nat
  BY DEF Waits
<1>2. BackoffInitial \in TameBackoffs /\ TameBackoffs \subseteq Waits
  BY <1>1, Zenon DEF TameBackoffs, Doubling
<1>3. ASSUME NEW k \in TameBackoffs, 2 * k < Interval + BackoffInitial
      PROVE  2 * k \in TameBackoffs
  <2>1. 2 * k \in Waits
    BY <1>2, <1>3 DEF Waits
  <2>2. ASSUME NEW S \in SUBSET Waits, Doubling(S)
        PROVE  2 * k \in S
    BY <2>1, <2>2 DEF TameBackoffs, Doubling
  <2>3. QED
    BY <2>1, <2>2, Zenon DEF TameBackoffs
<1>4. QED
  BY <1>1, <1>2, <1>3

(* A set of numbers with a bound has a greatest one.                       *)
LEMMA Greatest ==
    ASSUME NEW S, S # {}, S \subseteq Nat, NEW bound \in Nat, \A k \in S : k <= bound
    PROVE  \E k \in S : \A j \in S : j <= k
<1> DEFINE Gaps == {bound - k : k \in S}
           Less == {pair \in Nat \X Nat : pair[1] < pair[2]}
<1>1. Gaps \subseteq Nat /\ Gaps # {}
  <2>1. \A k \in S : bound - k \in Nat
    OBVIOUS
  <2>2. PICK k \in S : TRUE
    OBVIOUS
  <2>3. bound - k \in Gaps
    OBVIOUS
  <2>4. QED
    BY <2>1, <2>3
<1>2. IsWellFoundedOn(Less, Nat)
  BY NatLessThanWellFounded DEF OpToRel
<1>3. PICK gap \in Gaps : \A other \in Gaps : <<other, gap>> \notin Less
  <2> HIDE DEF Gaps, Less
  <2>1. QED
    BY <1>1, <1>2, WFMin
<1>4. \A other \in Gaps : ~(other < gap)
  BY <1>1, <1>3
<1>5. PICK k \in S : gap = bound - k
  OBVIOUS
<1>6. \A j \in S : j <= k
  BY <1>4, <1>5
<1>7. QED
  BY <1>6

LEMMA LongestPauseIsLongest ==
    /\ LongestPause \in Nat
    /\ \A k \in Pauses : k <= LongestPause
<1> USE LoopConstants DEF LoopConstants
<1> DEFINE bound == Interval + BackoffInitial + IdlePoll + RestartDelay
<1>1. Pauses \subseteq Nat /\ Pauses # {} /\ bound \in Nat
  BY TameBackoff DEF Pauses
<1>2. \A k \in Pauses : k <= bound
  BY TameBackoff DEF Pauses, TameBackoffs, Waits
<1>3. \E k \in Pauses : \A j \in Pauses : j <= k
  <2> HIDE DEF bound
  <2>1. QED
    BY <1>1, <1>2, Greatest
<1>4. LongestPause \in Pauses /\ \A j \in Pauses : j <= LongestPause
  BY <1>3 DEF LongestPause
<1>5. QED
  BY <1>1, <1>4

LEMMA Pausing ==
    /\ LongestPause \in Nat /\ LastClaim \in Nat
    /\ MaxSilence \in Nat /\ Horizon = MaxSilence + 1
    /\ MaxSilence = LastClaim + CycleTime + LongestPause + CallTime
    /\ Interval - 1 <= LastClaim /\ CallTime <= LastClaim
    /\ IdlePoll <= LongestPause /\ RestartDelay <= LongestPause
    /\ \A k \in TameBackoffs : k <= LongestPause
<1>1. LongestPause \in Nat /\ LastClaim \in Nat /\ MaxSilence \in Nat
  BY LoopConstants, CycleTimeType, LongestPauseIsLongest
     DEF LoopConstants, LastClaim, MaxSilence
<1>2. Interval - 1 <= LastClaim /\ CallTime <= LastClaim
  BY LoopConstants DEF LoopConstants, LastClaim
<1>3. QED
  BY <1>1, <1>2, LongestPauseIsLongest DEF Pauses, Horizon, MaxSilence

LEMMA InitLoop == Init => LoopInv
<1> SUFFICES ASSUME Init PROVE LoopInv
  OBVIOUS
<1> USE LoopConstants DEF LoopConstants, Init
<1>1. TypeOK
  <2>1. pc \in Labels
    BY DEF Labels
  <2>2. backoff \in BackoffInitial..BackoffMax
    OBVIOUS
  <2>3. heard \in BOOLEAN /\ failed \in BOOLEAN /\ stop \in BOOLEAN
    OBVIOUS
  <2>4. QED
    BY <2>1, <2>2, <2>3 DEF TypeOK
<1>2. Durations /\ Announced /\ StopLatency
  BY DEF Durations, Announced, StopLatency
<1>3. Silence
  BY Pausing, CycleTimeType DEF Silence
<1>4. Backoffs
  <2>1. Earned(since)
    BY TameBackoff DEF Earned
  <2>2. QED
    BY <2>1 DEF Backoffs, Grown
<1>5. QED
  BY <1>1, <1>2, <1>3, <1>4 DEF LoopInv

LEMMA DoubledType == TypeOK => Doubled \in BackoffInitial..BackoffMax
  BY LoopConstants DEF LoopConstants, TypeOK, Doubled

LEMMA TypeStep == TypeOK /\ [Next]_vars => TypeOK'
<1> SUFFICES ASSUME TypeOK, [Next]_vars PROVE TypeOK'
  OBVIOUS
<1> USE LoopConstants
    DEF LoopConstants, TypeOK, Next, Proceed, vars, Top, HeartbeatOk, Gate, CycleReturns,
        WaitEnters, WaitEnds, WaitReturns, Restart, Goto, Pause, Fresh,
        HeartbeatUnreachable, CycleUnreachable, HeartbeatRefused, CycleRaises, Crash,
        Exit, Signal, SignalInWait, Killed, Start, Tick
<1>1. pc' \in Labels
  BY DEF Labels
<1>2. spent' \in Nat /\ wait' \in Nat
  OBVIOUS
<1>3. since' \in Nat /\ late' \in Nat
  OBVIOUS
<1>4. backoff' \in BackoffInitial..BackoffMax
  BY DoubledType
<1>5. heard' \in BOOLEAN /\ failed' \in BOOLEAN /\ stop' \in BOOLEAN
  OBVIOUS
<1>6. QED
  BY <1>1, <1>2, <1>3, <1>4, <1>5

LEMMA DurationsStep ==
    ASSUME TypeOK, Durations, StopLatency, [Next]_vars
    PROVE  Durations' /\ StopLatency'
<1> USE LoopConstants, CycleTimeType DEF LoopConstants, TypeOK, Durations, StopLatency
<1>1. CASE UNCHANGED vars
  BY <1>1 DEF vars, CycleTime, JournalTime
<1>2. CASE Proceed
  BY <1>2 DEF Proceed, Top, HeartbeatOk, Gate, CycleReturns, WaitEnters, WaitEnds,
              WaitReturns, Restart, Goto, Pause, Fresh
<1>3. CASE HeartbeatUnreachable \/ CycleUnreachable
  BY <1>3 DEF HeartbeatUnreachable, CycleUnreachable, Pause
<1>4. CASE HeartbeatRefused \/ CycleRaises \/ Crash
  <2>1. pc' \in {"stopped", "down"} /\ (stop => pc' = "stopped") /\ UNCHANGED <<stop, late>>
    BY <1>4, Zenon DEF HeartbeatRefused, CycleRaises, Crash, Exit, Goto
  <2>2. QED
    BY <2>1
<1>5. CASE Signal \/ SignalInWait \/ Killed \/ Start
  BY <1>5 DEF Signal, Running, SignalInWait, Killed, Start, Goto, Fresh
<1>6. CASE Tick
  BY <1>6 DEF Tick, Blocking
<1>7. QED
  BY <1>1, <1>2, <1>3, <1>4, <1>5, <1>6 DEF Next

LEMMA AnnouncedStep ==
    ASSUME TypeOK, Durations, Announced, [Next]_vars
    PROVE  Announced'
<1> USE LoopConstants DEF LoopConstants, TypeOK, Announced
<1>1. CASE UNCHANGED vars
  BY <1>1 DEF vars
<1>2. CASE Top
  BY <1>2 DEF Top, Goto, Due
<1>3. CASE HeartbeatOk
  BY <1>3 DEF HeartbeatOk, Goto, Durations
<1>4. CASE Signal \/ Tick
  BY <1>4 DEF Signal, Tick, Blocking
<1>5. CASE pc' # "gate"
  BY <1>5
<1>6. pc' = "gate" => UNCHANGED vars \/ Top \/ HeartbeatOk \/ Signal \/ Tick
  BY DEF Next, Proceed, Gate, CycleReturns, WaitEnters, WaitEnds, WaitReturns, Restart,
         Goto, Pause, Fresh, HeartbeatUnreachable, CycleUnreachable, HeartbeatRefused,
         CycleRaises, Crash, Exit, SignalInWait, Killed, Start
<1>7. QED
  BY <1>1, <1>2, <1>3, <1>4, <1>5, <1>6

(* How long ago the last heartbeat was, by the place the loop is at: each  *)
(* call and wait adds its own duration at most.                            *)
LEMMA SilenceStep ==
    ASSUME TypeOK, Durations, Announced, Silence, Backoffs, [Next]_vars
    PROVE  Silence'
<1> SUFFICES ASSUME ~failed' PROVE Silence'
  BY DEF Silence
<1> USE LoopConstants, CycleTimeType, Pausing DEF LoopConstants, TypeOK, Silence
<1>1. CASE UNCHANGED vars
  BY <1>1 DEF vars
<1>2. CASE Top
  BY <1>2 DEF Top, Goto, Due
<1>3. CASE HeartbeatOk
  BY <1>3 DEF HeartbeatOk, Goto, Durations
<1>4. CASE Gate
  BY <1>4 DEF Gate, Goto
<1>5. CASE CycleReturns
  BY <1>5 DEF CycleReturns, Goto, Pause, Durations
<1>6. CASE CycleUnreachable
  <2>1. backoff <= LongestPause
    BY <1>6, TameBackoff DEF CycleUnreachable, Backoffs, Earned
  <2>2. QED
    BY <1>6, <2>1 DEF CycleUnreachable, Pause, Durations
<1>7. CASE CycleRaises
  <2>1. pc' \in {"stopped", "down"} /\ spent' = 0
    BY <1>7, Zenon DEF CycleRaises, Exit, Goto
  <2>2. QED
    BY <1>7, <2>1 DEF CycleRaises, Durations
<1>8. CASE WaitEnters
  BY <1>8 DEF WaitEnters
<1>9. CASE WaitEnds \/ WaitReturns
  BY <1>9 DEF WaitEnds, WaitReturns, Goto
<1>10. CASE Restart
  BY <1>10 DEF Restart, Fresh
<1>11. CASE HeartbeatUnreachable \/ HeartbeatRefused \/ Crash
  BY <1>11 DEF HeartbeatUnreachable, HeartbeatRefused, Crash
<1>12. CASE Signal \/ Killed \/ Start
  BY <1>12 DEF Signal, Killed, Start, Goto, Fresh
<1>13. CASE SignalInWait
  BY <1>13 DEF SignalInWait, Goto
<1>14. CASE Tick
  BY <1>14 DEF Tick, Blocking
<1>15. QED
  BY <1>1, <1>2, <1>3, <1>4, <1>5, <1>6, <1>7, <1>8, <1>9, <1>10, <1>11, <1>12, <1>13,
     <1>14 DEF Next, Proceed

(* A wait of the length of the backoff makes up for its doubling.          *)
LEMMA Repaid ==
    ASSUME TypeOK, Earned(since)
    PROVE  since + backoff < Interval =>
               \E k \in TameBackoffs :
                   /\ k <= since + backoff + BackoffInitial
                   /\ Doubled = k \/ (Doubled = BackoffMax /\ BackoffMax <= k)
<1> USE LoopConstants, TameBackoff DEF LoopConstants, TypeOK
<1> SUFFICES ASSUME since + backoff < Interval
             PROVE  \E k \in TameBackoffs :
                        /\ k <= since + backoff + BackoffInitial
                        /\ Doubled = k \/ (Doubled = BackoffMax /\ BackoffMax <= k)
  OBVIOUS
<1>1. PICK k \in TameBackoffs :
          /\ k <= since + BackoffInitial
          /\ backoff = k \/ (backoff = BackoffMax /\ BackoffMax <= k)
  BY DEF Earned
<1> k \in Nat
  OBVIOUS
<1>2. CASE backoff = k
  <2>1. 2 * k <= since + backoff + BackoffInitial
    BY <1>1, <1>2
  <2>2. 2 * k \in TameBackoffs
    BY <2>1
  <2>3. Doubled = 2 * k \/ (Doubled = BackoffMax /\ BackoffMax <= 2 * k)
    BY <1>2 DEF Doubled
  <2>4. QED
    BY <2>1, <2>2, <2>3
<1>3. CASE backoff = BackoffMax /\ BackoffMax <= k
  <2>1. Doubled = BackoffMax
    BY <1>3 DEF Doubled
  <2>2. k <= since + backoff + BackoffInitial
    BY <1>1
  <2>3. QED
    BY <1>3, <2>1, <2>2
<1>4. QED
  BY <1>1, <1>2, <1>3

(* The backoff a heartbeat or a finished cycle resets fits at any time.    *)
LEMMA Reset ==
    ASSUME TypeOK', backoff' = BackoffInitial
    PROVE  Earned(since)' /\ (pc' = "entering" /\ spent' = 0 => Grown(since - spent + wait)')
<1>1. since' \in Nat /\ spent' \in Nat /\ wait' \in Nat
  BY DEF TypeOK
<1>2. ASSUME NEW d \in Nat
      PROVE  BackoffInitial <= d + BackoffInitial
  BY LoopConstants DEF LoopConstants
<1>3. ASSUME NEW ago \in Nat, NEW rest \in Nat
      PROVE  ago - 0 + rest \in Nat
  OBVIOUS
<1>4. QED
  BY <1>1, <1>2, <1>3, TameBackoff DEF Earned, Grown

LEMMA BackoffsStep ==
    ASSUME TypeOK, TypeOK', Durations, Silence, Backoffs, [Next]_vars
    PROVE  Backoffs'
<1> SUFFICES ASSUME ~failed' PROVE Backoffs'
  BY DEF Backoffs
<1> USE DEF Backoffs
<1>1. CASE UNCHANGED vars
  BY <1>1 DEF vars, Earned, Grown
<1>2. CASE Top
  <2>1. UNCHANGED <<backoff, since, failed, stop>>
    BY <1>2 DEF Top
  <2>2. pc' = "gate" => since < Interval /\ ~stop
    BY <1>2, LoopConstants DEF Top, Goto, Due, TypeOK, LoopConstants
  <2>3. pc' \in {"stopped", "heartbeat", "gate"}
    BY <1>2, Zenon DEF Top, Goto
  <2>4. QED
    BY <1>2, <2>1, <2>2, <2>3 DEF Top, Earned, Grown
<1>3. CASE HeartbeatOk
  BY <1>3, Reset DEF HeartbeatOk, Goto
<1>4. CASE Gate
  BY <1>4 DEF Gate, Goto, Earned
<1>5. CASE CycleReturns
  BY <1>5, Reset DEF CycleReturns, Goto, Pause, Grown
<1>6. CASE CycleUnreachable
  <2>1. /\ pc' = "entering" /\ spent' = 0 /\ wait' = backoff /\ backoff' = Doubled
        /\ UNCHANGED since /\ Earned(since)
    BY <1>6 DEF CycleUnreachable, Pause
  <2>2. since - 0 + backoff = since + backoff
    BY LoopConstants DEF TypeOK, LoopConstants
  <2>3. Grown(since - spent + wait)'
    BY <2>1, <2>2, Repaid DEF Grown, Earned
  <2>4. QED
    BY <2>1, <2>3
<1>7. CASE CycleRaises \/ SignalInWait \/ Killed
  <2>1. pc' \in {"stopped", "down", "hung"}
    BY <1>7, Zenon DEF CycleRaises, SignalInWait, Killed, Exit, Goto
  <2>2. QED
    BY <2>1
<1>8. CASE WaitEnters
  BY <1>8 DEF WaitEnters, Grown, Earned
<1>9. CASE WaitEnds
  <2>1. pc' = "leaving" /\ UNCHANGED <<backoff, since, failed, stop>>
    BY <1>9 DEF WaitEnds, Goto
  <2>2. ~stop => since - spent + wait = since
    BY <1>9 DEF WaitEnds, TypeOK
  <2>3. QED
    BY <1>9, <2>1, <2>2 DEF WaitEnds, Grown, Earned
<1>10. CASE WaitReturns
  BY <1>10 DEF WaitReturns, Goto, Grown, Earned
<1>11. CASE Restart \/ Start
  BY <1>11, Reset DEF Restart, Start, Fresh, Grown
<1>12. CASE HeartbeatUnreachable \/ HeartbeatRefused \/ Crash
  BY <1>12 DEF HeartbeatUnreachable, HeartbeatRefused, Crash
<1>13. CASE Signal
  BY <1>13 DEF Signal, Earned
<1>14. CASE Tick
  <2>1. /\ spent' = spent + 1 /\ UNCHANGED <<pc, wait, backoff, failed, stop>>
        /\ pc \in {"heartbeat", "cycle", "waiting", "down"}
    BY <1>14 DEF Tick, Blocking
  <2>2. since' = since + 1
    BY <1>14, Pausing, CycleTimeType, LoopConstants
       DEF Tick, Blocking, Silence, TypeOK, LoopConstants
  <2>3. pc = "cycle" => Earned(since)'
    BY <2>1, <2>2, TameBackoff, LoopConstants DEF Earned, TypeOK, LoopConstants
  <2>4. since' - spent' + wait' = since - spent + wait
    BY <2>1, <2>2 DEF TypeOK
  <2>5. pc = "waiting" /\ ~stop => Grown(since - spent + wait)'
    BY <2>1, <2>4 DEF Grown, Earned
  <2>6. QED
    BY <2>1, <2>3, <2>5
<1>15. QED
  BY <1>1, <1>2, <1>3, <1>4, <1>5, <1>6, <1>7, <1>8, <1>9, <1>10, <1>11, <1>12, <1>13,
     <1>14 DEF Next, Proceed

LEMMA LoopInvariant == Spec => []LoopInv
<1>1. LoopInv /\ [Next]_vars => LoopInv'
  BY TypeStep, DurationsStep, AnnouncedStep, SilenceStep, BackoffsStep DEF LoopInv
<1>2. QED
  BY <1>1, InitLoop, PTL DEF Spec

(* The backoff stays between its bounds, and every count is a number of    *)
(* seconds.                                                                *)
THEOREM LoopTypeCorrect == Spec => []TypeOK
<1>1. LoopInv => TypeOK
  BY DEF LoopInv
<1>2. QED
  BY <1>1, LoopInvariant, PTL

(* A signal is heeded at the end of the call or cycle it interrupts: no    *)
(* other begins.                                                           *)
THEOREM StopWaitsForOneCall == Spec => []StopLatency
<1>1. LoopInv => StopLatency
  BY DEF LoopInv
<1>2. QED
  BY <1>1, LoopInvariant, PTL

(* As long as heartbeats do not fail, Central hears of the bridge at least *)
(* every MaxSilence seconds, for any durations, intervals and backoffs.    *)
THEOREM HeartbeatsKeepTheirCadence == Spec => []HeartbeatCadence
<1>1. LoopInv => HeartbeatCadence
  BY Pausing, CycleTimeType, LoopConstants
     DEF LoopConstants, LoopInv, TypeOK, Labels, Durations, Silence, HeartbeatCadence
<1>2. QED
  BY <1>1, LoopInvariant, PTL

(* A process claims nothing unless a heartbeat of its own was answered     *)
(* within the interval.                                                    *)
THEOREM HeartbeatBeforeClaim == Spec => ClaimsAreAnnounced
<1>1. LoopInv /\ [Next]_vars =>
        [pc # "cycle" /\ pc' = "cycle" =>
            heard' /\ (since' < Interval \/ since' <= CallTime)]_vars
  <2>1. SUFFICES ASSUME LoopInv, [Next]_vars, pc # "cycle", pc' = "cycle"
                 PROVE  heard' /\ (since' < Interval \/ since' <= CallTime)
    OBVIOUS
  <2>2. Gate
    BY <2>1 DEF Next, Proceed, vars, Top, HeartbeatOk, CycleReturns, WaitEnters, WaitEnds,
                WaitReturns, Restart, Goto, Pause, Fresh, HeartbeatUnreachable,
                CycleUnreachable, HeartbeatRefused, CycleRaises, Crash, Exit, Signal,
                SignalInWait, Killed, Start, Tick
  <2>3. QED
    BY <2>1, <2>2 DEF Gate, LoopInv, Announced
<1>2. QED
  BY <1>1, LoopInvariant, PTL DEF Spec, ClaimsAreAnnounced
=============================================================================
