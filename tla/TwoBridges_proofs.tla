-------------------------- MODULE TwoBridges_proofs --------------------------
(***************************************************************************)
(* Two bridges on one journal, for every set of commands, offers, servers  *)
(* and faults: each step is a step of one of them or of the environment,   *)
(* and MatchBridge_proofs says what such a step leaves of the other one.  *)
(***************************************************************************)
EXTENDS TwoBridges, TLAPS

PA == INSTANCE MatchBridge_proofs
        WITH pc <- pcA, claim <- claimA, polls <- pollsA, result <- resultA
PB == INSTANCE MatchBridge_proofs
        WITH pc <- pcB, claim <- claimB, polls <- pollsB, result <- resultB

(* At most two launches of a command, the ones still owed included.        *)
Budget == \A c \in Commands : launches[c] + PA!Pending(c) + PB!Pending(c) <= 2

(* Only a process that is about to write a file can be overtaken.          *)
AboutToWrite ==
    /\ overtaken \subseteq {"A", "B"}
    /\ "A" \in overtaken => pcA = "materialize"
    /\ "B" \in overtaken => pcB = "materialize"

Inductive ==
    /\ PA!TypeOK /\ PB!TypeOK
    /\ PA!Working /\ PB!Working /\ PA!Shared
    /\ Budget /\ AboutToWrite

-----------------------------------------------------------------------------
(* A and PA are instances of one module under one substitution, as are B   *)
(* and PB: expanding the definitions shows that the operators are the same.*)
LEMMA ConstantsA == PA!BridgeConstants
  BY TwoConstants DEF A!BridgeConstants, PA!BridgeConstants, A!OfferRecord, PA!OfferRecord,
                      A!FaultKinds, PA!FaultKinds

LEMMA ConstantsB == PB!BridgeConstants
  BY TwoConstants DEF A!BridgeConstants, PB!BridgeConstants, A!OfferRecord, PB!OfferRecord,
                      A!FaultKinds, PB!FaultKinds

LEMMA StepOfA ==
    ASSUME \/ A!Restart
           \/ \E o \in Offers : A!Claim(o)
           \/ A!Proceed
           \/ A!Fail
    PROVE  PA!Next
  BY DEF PA!Next, A!Restart, PA!Restart, A!Claim, PA!Claim, A!Claimable, PA!Claimable,
         A!Proceed, PA!Proceed, A!Fail, PA!Fail, A!Leave, PA!Leave, A!Goto, PA!Goto,
         A!Record, PA!Record, A!Launch, PA!Launch, A!Conclude, PA!Conclude,
         A!Message, PA!Message, A!Accept, PA!Accept, A!May, PA!May,
         A!Identity, PA!Identity, A!Config, PA!Config, A!OnDisk, PA!OnDisk,
         A!Refused, PA!Refused, A!Dispatch, PA!Dispatch, A!NotAllowed, PA!NotAllowed,
         A!EvidenceMissing, PA!EvidenceMissing, A!central, PA!central, A!host, PA!host,
         A!bridge, PA!bridge, A!ObserveRefused, PA!ObserveRefused, A!Observe, PA!Observe,
         A!MarkApplying, PA!MarkApplying, A!WriteConfig, PA!WriteConfig,
         A!ReuseConfig, PA!ReuseConfig, A!MaterializeFails, PA!MaterializeFails,
         A!LoadSent, PA!LoadSent, A!ReadArtifact, PA!ReadArtifact,
         A!ReadStatus, PA!ReadStatus, A!ReadGet5, PA!ReadGet5,
         A!InspectAgain, PA!InspectAgain, A!GiveUp, PA!GiveUp,
         A!MarkSucceeded, PA!MarkSucceeded, A!MarkFailed, PA!MarkFailed,
         A!SubmitResult, PA!SubmitResult, A!SubmitRefused, PA!SubmitRefused,
         A!ClaimResponseLost, PA!ClaimResponseLost, A!JournalRaises, PA!JournalRaises,
         A!TempFileDenied, PA!TempFileDenied, A!LoadUncertain, PA!LoadUncertain,
         A!LoadNotLaunched, PA!LoadNotLaunched,
         A!LoadReplyUndecodable, PA!LoadReplyUndecodable,
         A!CrashWhileLoading, PA!CrashWhileLoading,
         A!SubmitUnanswered, PA!SubmitUnanswered, A!Crash, PA!Crash,
         A!Conflicts, PA!Conflicts, A!Observed, PA!Observed, A!MayApply, PA!MayApply,
         A!Applied, PA!Applied, A!MayComplete, PA!MayComplete, A!Completed, PA!Completed,
         A!Terminal, PA!Terminal

LEMMA DeniedOfA ==
    ASSUME pcA = "materialize", DeniedA
    PROVE  PA!Denied
  BY DEF DeniedA, PA!Denied, outside, A!Leave, PA!Leave, PA!central, PA!host

LEMMA OverwriteOfA ==
    ASSUME pcA = "materialize", OverwriteA
    PROVE  PA!Overwrite
  BY DEF OverwriteA, PA!Overwrite, outside, A!Config, PA!Config, A!Goto, PA!Goto

LEMMA StepOfB ==
    ASSUME \/ B!Restart
           \/ \E o \in Offers : B!Claim(o)
           \/ B!Proceed
           \/ B!Fail
    PROVE  PB!Next
  BY DEF PB!Next, B!Restart, PB!Restart, B!Claim, PB!Claim, B!Claimable, PB!Claimable,
         B!Proceed, PB!Proceed, B!Fail, PB!Fail, B!Leave, PB!Leave, B!Goto, PB!Goto,
         B!Record, PB!Record, B!Launch, PB!Launch, B!Conclude, PB!Conclude,
         B!Message, PB!Message, B!Accept, PB!Accept, B!May, PB!May,
         B!Identity, PB!Identity, B!Config, PB!Config, B!OnDisk, PB!OnDisk,
         B!Refused, PB!Refused, B!Dispatch, PB!Dispatch, B!NotAllowed, PB!NotAllowed,
         B!EvidenceMissing, PB!EvidenceMissing, B!central, PB!central, B!host, PB!host,
         B!bridge, PB!bridge, B!ObserveRefused, PB!ObserveRefused, B!Observe, PB!Observe,
         B!MarkApplying, PB!MarkApplying, B!WriteConfig, PB!WriteConfig,
         B!ReuseConfig, PB!ReuseConfig, B!MaterializeFails, PB!MaterializeFails,
         B!LoadSent, PB!LoadSent, B!ReadArtifact, PB!ReadArtifact,
         B!ReadStatus, PB!ReadStatus, B!ReadGet5, PB!ReadGet5,
         B!InspectAgain, PB!InspectAgain, B!GiveUp, PB!GiveUp,
         B!MarkSucceeded, PB!MarkSucceeded, B!MarkFailed, PB!MarkFailed,
         B!SubmitResult, PB!SubmitResult, B!SubmitRefused, PB!SubmitRefused,
         B!ClaimResponseLost, PB!ClaimResponseLost, B!JournalRaises, PB!JournalRaises,
         B!TempFileDenied, PB!TempFileDenied, B!LoadUncertain, PB!LoadUncertain,
         B!LoadNotLaunched, PB!LoadNotLaunched,
         B!LoadReplyUndecodable, PB!LoadReplyUndecodable,
         B!CrashWhileLoading, PB!CrashWhileLoading,
         B!SubmitUnanswered, PB!SubmitUnanswered, B!Crash, PB!Crash,
         B!Conflicts, PB!Conflicts, B!Observed, PB!Observed, B!MayApply, PB!MayApply,
         B!Applied, PB!Applied, B!MayComplete, PB!MayComplete, B!Completed, PB!Completed,
         B!Terminal, PB!Terminal

LEMMA DeniedOfB ==
    ASSUME pcB = "materialize", DeniedB
    PROVE  PB!Denied
  BY DEF DeniedB, PB!Denied, outside, B!Leave, PB!Leave, PB!central, PB!host

LEMMA OverwriteOfB ==
    ASSUME pcB = "materialize", OverwriteB
    PROVE  PB!Overwrite
  BY DEF OverwriteB, PB!Overwrite, outside, B!Config, PB!Config, B!Goto, PB!Goto

LEMMA StepOfEnvironment ==
    ASSUME Environment
    PROVE  PA!Next /\ UNCHANGED <<bridgeA, bridgeB, overtaken>>
  BY DEF Environment, PA!Next, PA!Environment, bridgeA, bridgeB, A!AtWork, PA!AtWork,
         A!central, PA!central, A!host, PA!host, A!bridge, PA!bridge, A!LeaseExpires,
         PA!LeaseExpires, A!DeliverLate, PA!DeliverLate, A!ServerLoads, PA!ServerLoads,
         A!ServerDropsLoad, PA!ServerDropsLoad, A!ServerChangesMap, PA!ServerChangesMap,
         A!ServerWritesNames, PA!ServerWritesNames, A!ServerResets, PA!ServerResets,
         A!Accept, PA!Accept

(* What does not mention the process is the same for both.                 *)
LEMMA SentForBoth ==
    ASSUME NEW s, NEW m
    PROVE  (PA!Sent(s, m) <=> PB!Sent(s, m)) /\ (PA!Sent(s, m)' <=> PB!Sent(s, m)')
  BY DEF PA!Sent, PB!Sent, PA!LaunchedFor, PB!LaunchedFor

LEMMA MovesForBoth == ASSUME NEW c PROVE PA!Moves(c) <=> PB!Moves(c)
  BY DEF PA!Moves, PB!Moves, PA!Terminal, PB!Terminal

LEMMA SharedForBoth == (PA!Shared <=> PB!Shared) /\ (PA!Shared' <=> PB!Shared')
<1>1. /\ PA!IntentBeforeEffect <=> PB!IntentBeforeEffect
      /\ PA!IntentBeforeEffect' <=> PB!IntentBeforeEffect'
  BY DEF PA!IntentBeforeEffect, PB!IntentBeforeEffect, PA!Terminal, PB!Terminal
<1>2. /\ PA!OneTruth <=> PB!OneTruth
      /\ PA!OneTruth' <=> PB!OneTruth'
  BY DEF PA!OneTruth, PB!OneTruth, PA!Told, PB!Told
<1>3. ASSUME NEW i PROVE /\ PA!LaunchedFor(i) <=> PB!LaunchedFor(i)
                         /\ PA!LaunchedFor(i)' <=> PB!LaunchedFor(i)'
  BY DEF PA!LaunchedFor, PB!LaunchedFor
<1>4. ASSUME NEW c
      PROVE  /\ PA!LaunchedFor(journal[c].identity)
                 <=> PB!LaunchedFor(journal[c].identity)
             /\ PA!LaunchedFor(journal[c].identity)'
                 <=> PB!LaunchedFor(journal[c].identity)'
  BY DEF PA!LaunchedFor, PB!LaunchedFor
<1>5. QED
  BY <1>1, <1>2, <1>4, SentForBoth DEF PA!Shared, PB!Shared

-----------------------------------------------------------------------------
LEMMA InitTwo == Init => Inductive
<1> SUFFICES ASSUME Init PROVE Inductive
  OBVIOUS
<1>1. PA!Init
  BY DEF Init, A!Init, PA!Init, A!NoRow, PA!NoRow
<1>2. PB!Init
  BY DEF Init, B!Init, PB!Init, B!NoRow, PB!NoRow
<1>3. /\ PA!TypeOK /\ PA!Working /\ PA!Shared
      /\ \A c \in Commands : launches[c] + PA!Pending(c) = 0
  BY <1>1, ConstantsA, PA!InitShared
<1>4. PB!TypeOK /\ PB!Working
  BY <1>2, ConstantsB, PB!InitShared
<1>5. Budget
  <2>1. \A c \in Commands : PB!Pending(c) \in {0, 1}
    BY DEF PB!Pending
  <2>2. QED
    BY <1>3, <2>1 DEF Budget, PA!TypeOK, PA!Pending
<1>6. AboutToWrite
  BY DEF Init, AboutToWrite
<1>7. QED
  BY <1>3, <1>4, <1>5, <1>6 DEF Inductive

LEMMA PendingIsSmall ==
    ASSUME NEW c
    PROVE  /\ PA!Pending(c) \in {0, 1} /\ PA!Pending(c)' \in {0, 1}
           /\ PB!Pending(c) \in {0, 1} /\ PB!Pending(c)' \in {0, 1}
  BY DEF PA!Pending, PB!Pending

(* A step of one process, seen from the other: it keeps the invariant.     *)
LEMMA OrderlyA ==
    ASSUME Inductive, PA!Orderly, UNCHANGED bridgeB
    PROVE  PA!TypeOK' /\ PB!TypeOK' /\ PA!Working' /\ PB!Working' /\ PA!Shared' /\ Budget'
<1>1. /\ \A c \in Commands : PB!Moves(c)
      /\ \A s \in Servers, m \in Matches : PB!Sent(s, m) => PB!Sent(s, m)'
      /\ \A s \in Servers, m \in Matches : files[s][m] # Null => files'[s][m] # Null
  BY MovesForBoth, SentForBoth DEF PA!Orderly
<1>2. UNCHANGED PB!bridge
  BY DEF bridgeB, PB!bridge
<1>3. PB!Working' /\ \A c \in Commands : PB!Pending(c)' = PB!Pending(c)
  BY <1>1, <1>2, ConstantsB, PB!OtherIsHarmless DEF Inductive
<1>4. PB!TypeOK'
  BY <1>2
     DEF Inductive, PA!Orderly, PA!TypeOK, PB!TypeOK, PB!bridge, PA!Labels, PB!Labels,
         PA!Outcomes, PB!Outcomes, PA!Identities, PB!Identities, PA!Codes, PB!Codes,
         PA!Configs, PB!Configs, PA!Rows, PB!Rows, PA!NoRow, PB!NoRow,
         PA!Terminal, PB!Terminal
<1>5. Budget'
  <2>1. SUFFICES ASSUME NEW c \in Commands
                 PROVE  launches'[c] + PA!Pending(c)' + PB!Pending(c)' <= 2
    BY DEF Budget
  <2>2. launches'[c] = 0 \/ launches'[c] + PA!Pending(c)' <= launches[c] + PA!Pending(c)
    BY DEF PA!Orderly
  <2>3. launches[c] \in Nat /\ launches'[c] \in Nat
    BY DEF Inductive, PA!Orderly, PA!TypeOK
  <2>4. launches[c] + PA!Pending(c) + PB!Pending(c) <= 2
    BY DEF Inductive, Budget
  <2>5. QED
    BY <1>3, <2>2, <2>3, <2>4, PendingIsSmall
<1>6. QED
  BY <1>3, <1>4, <1>5 DEF PA!Orderly

LEMMA OrderlyB ==
    ASSUME Inductive, PB!Orderly, UNCHANGED bridgeA
    PROVE  PA!TypeOK' /\ PB!TypeOK' /\ PA!Working' /\ PB!Working' /\ PA!Shared' /\ Budget'
<1>1. /\ \A c \in Commands : PA!Moves(c)
      /\ \A s \in Servers, m \in Matches : PA!Sent(s, m) => PA!Sent(s, m)'
      /\ \A s \in Servers, m \in Matches : files[s][m] # Null => files'[s][m] # Null
  BY MovesForBoth, SentForBoth DEF PB!Orderly
<1>2. UNCHANGED PA!bridge
  BY DEF bridgeA, PA!bridge
<1>3. PA!Working' /\ \A c \in Commands : PA!Pending(c)' = PA!Pending(c)
  BY <1>1, <1>2, ConstantsA, PA!OtherIsHarmless DEF Inductive
<1>4. PA!TypeOK'
  BY <1>2
     DEF Inductive, PB!Orderly, PA!TypeOK, PB!TypeOK, PA!bridge, PA!Labels, PB!Labels,
         PA!Outcomes, PB!Outcomes, PA!Identities, PB!Identities, PA!Codes, PB!Codes,
         PA!Configs, PB!Configs, PA!Rows, PB!Rows, PA!NoRow, PB!NoRow,
         PA!Terminal, PB!Terminal
<1>5. Budget'
  <2>1. SUFFICES ASSUME NEW c \in Commands
                 PROVE  launches'[c] + PA!Pending(c)' + PB!Pending(c)' <= 2
    BY DEF Budget
  <2>2. launches'[c] = 0 \/ launches'[c] + PB!Pending(c)' <= launches[c] + PB!Pending(c)
    BY DEF PB!Orderly
  <2>3. launches[c] \in Nat /\ launches'[c] \in Nat
    BY DEF Inductive, PB!Orderly, PB!TypeOK
  <2>4. launches[c] + PA!Pending(c) + PB!Pending(c) <= 2
    BY DEF Inductive, Budget
  <2>5. QED
    BY <1>3, <2>2, <2>3, <2>4, PendingIsSmall
<1>6. PA!Shared'
  BY SharedForBoth DEF PB!Orderly
<1>7. QED
  BY <1>3, <1>4, <1>5, <1>6 DEF PB!Orderly

(* Whose step it is.                                                       *)
LEMMA EveryStepIsOrderly ==
    ASSUME Inductive, [Next]_vars
    PROVE  \/ PA!Orderly /\ UNCHANGED bridgeB
           \/ PB!Orderly /\ UNCHANGED bridgeA
<1>1. ASSUME [PA!Next]_(PA!vars) PROVE PA!Orderly
  BY <1>1, ConstantsA, PA!StepIsOrderly DEF Inductive
<1>2. ASSUME PB!Next PROVE PB!Orderly
  BY <1>2, ConstantsB, SharedForBoth, PB!StepIsOrderly DEF Inductive
<1>3. CASE UNCHANGED vars
  <2>1. UNCHANGED PA!vars /\ UNCHANGED bridgeB
    BY <1>3 DEF vars, bridgeA, bridgeB, outside, PA!vars, PA!bridge, PA!central, PA!host
  <2>2. QED
    BY <1>1, <2>1
<1>4. CASE StepA
  <2>1. CASE OverwriteA
    <3>1. pcA = "materialize"
      BY <2>1 DEF OverwriteA, Inductive, AboutToWrite
    <3>2. PA!Orderly
      BY <2>1, <3>1, ConstantsA, OverwriteOfA, PA!OverwriteIsOrderly DEF Inductive
    <3>3. QED
      BY <1>4, <3>2 DEF StepA
  <2>2. CASE DeniedA
    <3>1. pcA = "materialize"
      BY <2>2 DEF DeniedA, Inductive, AboutToWrite
    <3>2. PA!Orderly
      BY <2>2, <3>1, ConstantsA, DeniedOfA, PA!DeniedIsOrderly DEF Inductive
    <3>3. QED
      BY <1>4, <3>2 DEF StepA
  <2>3. CASE ~OverwriteA /\ ~DeniedA
    <3>1. PA!Next
      BY <1>4, <2>3, StepOfA DEF StepA
    <3>2. QED
      BY <1>1, <1>4, <3>1 DEF StepA
  <2>4. QED
    BY <2>1, <2>2, <2>3
<1>5. CASE StepB
  <2>1. CASE OverwriteB
    <3>1. pcB = "materialize"
      BY <2>1 DEF OverwriteB, Inductive, AboutToWrite
    <3>2. PB!Orderly
      BY <2>1, <3>1, ConstantsB, OverwriteOfB, SharedForBoth,
         PB!OverwriteIsOrderly DEF Inductive
    <3>3. QED
      BY <1>5, <3>2 DEF StepB
  <2>2. CASE DeniedB
    <3>1. pcB = "materialize"
      BY <2>2 DEF DeniedB, Inductive, AboutToWrite
    <3>2. PB!Orderly
      BY <2>2, <3>1, ConstantsB, DeniedOfB, SharedForBoth, PB!DeniedIsOrderly DEF Inductive
    <3>3. QED
      BY <1>5, <3>2 DEF StepB
  <2>3. CASE ~OverwriteB /\ ~DeniedB
    <3>1. PB!Next
      BY <1>5, <2>3, StepOfB DEF StepB
    <3>2. QED
      BY <1>2, <1>5, <3>1 DEF StepB
  <2>4. QED
    BY <2>1, <2>2, <2>3
<1>6. CASE Environment
  BY <1>1, <1>6, StepOfEnvironment
<1>7. QED
  BY <1>3, <1>4, <1>5, <1>6 DEF Next

LEMMA OvertakenStep ==
    ASSUME AboutToWrite, [Next]_vars
    PROVE  AboutToWrite'
<1>1. CASE UNCHANGED vars
  BY <1>1 DEF vars, bridgeA, bridgeB, AboutToWrite
<1>2. CASE StepA
  BY <1>2 DEF StepA, Overtakes, SameFile, bridgeB, AboutToWrite
<1>3. CASE StepB
  BY <1>3 DEF StepB, Overtakes, SameFile, bridgeA, AboutToWrite
<1>4. CASE Environment
  BY <1>4, StepOfEnvironment DEF bridgeA, bridgeB, AboutToWrite
<1>5. QED
  BY <1>1, <1>2, <1>3, <1>4 DEF Next

LEMMA StepTwo == Inductive /\ [Next]_vars => Inductive'
<1> SUFFICES ASSUME Inductive, [Next]_vars PROVE Inductive'
  OBVIOUS
<1>1. AboutToWrite'
  BY OvertakenStep DEF Inductive
<1>2. PA!TypeOK' /\ PB!TypeOK' /\ PA!Working' /\ PB!Working' /\ PA!Shared' /\ Budget'
  BY EveryStepIsOrderly, OrderlyA, OrderlyB
<1>3. QED
  BY <1>1, <1>2 DEF Inductive

(* Inductive holds in every reachable state of the two bridges.            *)
THEOREM TwoInvariant == Spec => []Inductive
  BY InitTwo, StepTwo, PTL DEF Spec

(* Central never hears two outcomes, even from two processes.              *)
THEOREM TwoTellOneTruth == Spec => []OneTruth
<1>1. Inductive => OneTruth
  BY DEF Inductive, PA!Shared, OneTruth, A!OneTruth, PA!OneTruth, A!Told, PA!Told
<1>2. QED
  BY <1>1, TwoInvariant, PTL

(* No load without a record of the intent, whoever recorded it.            *)
THEOREM TwoRecordIntent == Spec => []IntentBeforeEffect
<1>1. Inductive => IntentBeforeEffect
  BY DEF Inductive, PA!Shared, IntentBeforeEffect, A!IntentBeforeEffect,
         PA!IntentBeforeEffect, A!Terminal, PA!Terminal
<1>2. QED
  BY <1>1, TwoInvariant, PTL

(* Two processes launch the load of a command twice at most, however often *)
(* either is restarted.                                                    *)
THEOREM TwoLaunchTwiceInAll == Spec => []TwoLaunchesInAll
<1>1. Inductive => TwoLaunchesInAll
  <2>1. SUFFICES ASSUME Inductive, NEW c \in Commands PROVE launches[c] <= 2
    BY DEF TwoLaunchesInAll
  <2>2. launches[c] \in Nat /\ launches[c] + PA!Pending(c) + PB!Pending(c) <= 2
    BY <2>1 DEF Inductive, Budget, PA!TypeOK
  <2>3. QED
    BY <2>2, PendingIsSmall
<1>2. QED
  BY <1>1, TwoInvariant, PTL

(* PREPARED goes back to a launch of one of the two.                       *)
THEOREM TwoPrepareLaunched == Spec => []PreparedMeansLaunched
<1>1. Inductive => PreparedMeansLaunched
  BY DEF Inductive, PA!Shared, PreparedMeansLaunched, A!LaunchedFor, PA!LaunchedFor
<1>2. QED
  BY <1>1, TwoInvariant, PTL

(* The journal refuses what a process is about to record only where the    *)
(* command has come to its end meanwhile (journal.py:243, :297): the       *)
(* process that exits leaves an outcome behind that Central will be told.  *)
THEOREM TwoRefuseTheConcluded ==
    Spec => [](/\ claimA # Null /\ A!NotAllowed(journal[claimA.command]) =>
                     journal[claimA.command].state \in A!Terminal
               /\ claimB # Null /\ B!NotAllowed(journal[claimB.command]) =>
                     journal[claimB.command].state \in B!Terminal)
<1>1. Inductive => /\ claimA # Null /\ A!NotAllowed(journal[claimA.command]) =>
                         journal[claimA.command].state \in A!Terminal
                   /\ claimB # Null /\ B!NotAllowed(journal[claimB.command]) =>
                         journal[claimB.command].state \in B!Terminal
  <2>1. SUFFICES ASSUME Inductive
                 PROVE  /\ claimA # Null /\ A!NotAllowed(journal[claimA.command]) =>
                              journal[claimA.command].state \in A!Terminal
                        /\ claimB # Null /\ B!NotAllowed(journal[claimB.command]) =>
                              journal[claimB.command].state \in B!Terminal
    OBVIOUS
  <2>2. ASSUME claimA # Null, A!NotAllowed(journal[claimA.command])
        PROVE  journal[claimA.command].state \in A!Terminal
    <3>1. journal[claimA.command] \in PA!Rows(PA!Identities, PA!Codes)
      BY <2>1, <2>2, ConstantsA, PA!ClaimedCommand DEF Inductive, A!NotAllowed, PA!ClaimedRow
    <3>2. QED
      BY <2>1, <2>2, <3>1, ConstantsA, PA!RowShape
         DEF Inductive, PA!Working, PA!ClaimedRow, PA!Terminal, PA!CommandState,
             A!NotAllowed, A!MayApply, A!MayComplete, A!Terminal
  <2>3. ASSUME claimB # Null, B!NotAllowed(journal[claimB.command])
        PROVE  journal[claimB.command].state \in B!Terminal
    <3>1. journal[claimB.command] \in PB!Rows(PB!Identities, PB!Codes)
      BY <2>1, <2>3, ConstantsB, PB!ClaimedCommand DEF Inductive, B!NotAllowed, PB!ClaimedRow
    <3>2. QED
      BY <2>1, <2>3, <3>1, ConstantsB, PB!RowShape
         DEF Inductive, PB!Working, PB!ClaimedRow, PB!Terminal, PB!CommandState,
             B!NotAllowed, B!MayApply, B!MayComplete, B!Terminal
  <2>4. QED
    BY <2>2, <2>3
<1>2. QED
  BY <1>1, TwoInvariant, PTL

(* The journal both write moves one command at a time.                     *)
LEMMA OneRow ==
    ASSUME Inductive, [Next]_vars
    PROVE  /\ \A c \in Commands : PA!Moves(c)
           /\ \A c, d \in Commands :
                 journal'[c] # journal[c] /\ journal'[d] # journal[d] => c = d
<1>1. ASSUME [PA!Next]_(PA!vars), NEW c \in Commands
      PROVE  PA!Moves(c) /\ (journal'[c] # journal[c] => c = claimA.command)
  BY <1>1, ConstantsA, PA!JournalStep DEF Inductive
<1>2. ASSUME PB!Next, NEW c \in Commands
      PROVE  PA!Moves(c) /\ (journal'[c] # journal[c] => c = claimB.command)
  BY <1>2, ConstantsB, PB!JournalStep, MovesForBoth DEF Inductive
<1>3. CASE UNCHANGED journal
  BY <1>3 DEF PA!Moves
<1>4. CASE StepA /\ ~OverwriteA /\ ~DeniedA
  BY <1>1, <1>4, StepOfA DEF StepA
<1>5. CASE StepB /\ ~OverwriteB /\ ~DeniedB
  BY <1>2, <1>5, StepOfB DEF StepB
<1>6. CASE Environment
  BY <1>1, <1>6, StepOfEnvironment
<1>7. QED
  BY <1>3, <1>4, <1>5, <1>6 DEF Next, vars, OverwriteA, OverwriteB, DeniedA, DeniedB

(* The one journal follows the life cycle of a command.                    *)
THEOREM TwoFollowLifecycle == Spec => ImplementsLifecycle
<1> DEFINE phase == [c \in Commands |-> journal[c].state]
<1>1. Init => A!Lifecycle!Init
  BY DEF Init, A!Init, A!Lifecycle!Init, A!NoRow
<1>2. Inductive /\ [Next]_vars => [A!Lifecycle!Next]_phase
  <2>1. SUFFICES ASSUME Inductive, [Next]_vars PROVE [A!Lifecycle!Next]_phase
    OBVIOUS
  <2>2. CASE journal' = journal
    BY <2>2
  <2>3. CASE journal' # journal
    <3>1. PICK c \in Commands : journal'[c] # journal[c]
      BY <2>1, <2>3, StepTwo DEF Inductive, PA!TypeOK
    <3>2. PA!Moves(c) /\ \A d \in Commands : d # c => journal'[d] = journal[d]
      BY <2>1, <3>1, OneRow
    <3>3. phase' = [phase EXCEPT ![c] = journal'[c].state]
      BY <3>2
    <3>4. A!Lifecycle!Receive(c) \/ A!Lifecycle!Start(c) \/ A!Lifecycle!Finish(c)
      BY <3>1, <3>2, <3>3
         DEF PA!Moves, A!Lifecycle!Receive, A!Lifecycle!Start, A!Lifecycle!Finish,
             A!Lifecycle!Advance, PA!Terminal
    <3>5. QED
      BY <3>4 DEF A!Lifecycle!Next
  <2>4. QED
    BY <2>2, <2>3
<1>3. QED
  BY <1>1, <1>2, TwoInvariant, PTL
     DEF Spec, A!Lifecycle!Spec, ImplementsLifecycle, A!ImplementsLifecycle

-----------------------------------------------------------------------------
(* Where no configuration is replaced.                                     *)

(* What each of the two has read, and what they share.                     *)
TwoKept == PA!Inspected /\ PB!Inspected /\ PA!Kept

LEMMA ManagedForBoth ==
    (PA!ManagedOnly <=> PB!ManagedOnly) /\ (PA!ManagedOnly' <=> PB!ManagedOnly')
  BY DEF PA!ManagedOnly, PB!ManagedOnly

LEMMA PreparedForBoth ==
    /\ PA!PreparedMeansRosterLoaded <=> PB!PreparedMeansRosterLoaded
    /\ PA!PreparedMeansRosterLoaded' <=> PB!PreparedMeansRosterLoaded'
  BY DEF PA!PreparedMeansRosterLoaded, PB!PreparedMeansRosterLoaded,
         PA!LaunchedFor, PB!LaunchedFor, PA!Identity, PB!Identity

LEMMA KeptForBoth == (PA!Kept <=> PB!Kept) /\ (PA!Kept' <=> PB!Kept')
  BY ManagedForBoth, PreparedForBoth DEF PA!Kept, PB!Kept

(* A steady step of one process leaves what the other has read.            *)
LEMMA SteadyA ==
    ASSUME Inductive, TwoKept, PA!Steady, UNCHANGED bridgeB
    PROVE  TwoKept'
<1>1. UNCHANGED PB!bridge
  BY DEF bridgeB, PB!bridge
<1>2. PB!Inspected'
  BY <1>1, ConstantsB, PB!OtherKeepsInspected DEF Inductive, TwoKept, PA!Steady
<1>3. QED
  BY <1>2 DEF TwoKept, PA!Steady

LEMMA SteadyB ==
    ASSUME Inductive, TwoKept, PB!Steady, UNCHANGED bridgeA
    PROVE  TwoKept'
<1>1. UNCHANGED PA!bridge
  BY DEF bridgeA, PA!bridge
<1>2. PA!Inspected'
  BY <1>1, ConstantsA, PA!OtherKeepsInspected DEF Inductive, TwoKept, PB!Steady
<1>3. QED
  BY <1>2, KeptForBoth DEF TwoKept, PB!Steady

LEMMA InitTwoKept == Init => TwoKept
<1>1. Init => PA!Init
  BY DEF Init, A!Init, PA!Init, A!NoRow, PA!NoRow
<1>2. Init => PB!Init
  BY DEF Init, B!Init, PB!Init, B!NoRow, PB!NoRow
<1>3. QED
  BY <1>1, <1>2, ConstantsA, ConstantsB, PA!InitKept, PB!InitKept DEF TwoKept

LEMMA TwoKeptStep ==
    ASSUME Inductive, TwoKept, [Next]_vars, PA!FilesKept
    PROVE  TwoKept'
<1>1. ASSUME [PA!Next]_(PA!vars) PROVE PA!Steady
  BY <1>1, ConstantsA, PA!StepIsSteady DEF Inductive, TwoKept
<1>2. ASSUME PB!Next PROVE PB!Steady
  BY <1>2, ConstantsB, SharedForBoth, KeptForBoth, PB!StepIsSteady DEF Inductive, TwoKept
<1>3. CASE UNCHANGED vars
  <2>1. UNCHANGED PA!vars /\ UNCHANGED bridgeB
    BY <1>3 DEF vars, bridgeA, bridgeB, outside, PA!vars, PA!bridge, PA!central, PA!host
  <2>2. QED
    BY <1>1, <2>1, SteadyA
<1>4. CASE StepA
  <2>1. CASE OverwriteA \/ DeniedA
    <3>1. PA!Overwrite \/ PA!Denied
      BY <2>1, OverwriteOfA, DeniedOfA DEF OverwriteA, DeniedA, Inductive, AboutToWrite
    <3>2. PA!Steady
      BY <3>1, ConstantsA, PA!MaterializerIsSteady DEF Inductive, TwoKept
    <3>3. QED
      BY <1>4, <3>2, SteadyA DEF StepA
  <2>2. CASE ~OverwriteA /\ ~DeniedA
    BY <1>1, <1>4, <2>2, StepOfA, SteadyA DEF StepA
  <2>3. QED
    BY <2>1, <2>2
<1>5. CASE StepB
  <2>1. CASE OverwriteB \/ DeniedB
    <3>1. PB!Overwrite \/ PB!Denied
      BY <2>1, OverwriteOfB, DeniedOfB DEF OverwriteB, DeniedB, Inductive, AboutToWrite
    <3>2. PB!FilesKept
      BY DEF PA!FilesKept, PB!FilesKept
    <3>3. PB!Steady
      BY <3>1, <3>2, ConstantsB, SharedForBoth, KeptForBoth, PB!MaterializerIsSteady
         DEF Inductive, TwoKept
    <3>4. QED
      BY <1>5, <3>3, SteadyB DEF StepB
  <2>2. CASE ~OverwriteB /\ ~DeniedB
    BY <1>2, <1>5, <2>2, StepOfB, SteadyB DEF StepB
  <2>3. QED
    BY <2>1, <2>2
<1>6. CASE Environment
  BY <1>1, <1>6, StepOfEnvironment, SteadyA
<1>7. QED
  BY <1>3, <1>4, <1>5, <1>6 DEF Next

(* Two processes prepare what was asked for, as one does, unless one of    *)
(* them replaces a configuration the other has written: the stale look at  *)
(* the file is all that PreparedMeansRosterLoaded has to fear of a second  *)
(* process.                                                                *)
THEOREM TwoPrepareRosters ==
    Spec /\ A!ConfigNeverRewritten => []A!PreparedMeansRosterLoaded
<1> DEFINE Same == [\A s \in Servers, m \in Matches :
                      files[s][m] # Null => files'[s][m] = files[s][m]]_(A!vars)
<1>1. Inductive /\ TwoKept /\ [Next]_vars /\ Same => TwoKept'
  <2>1. Same => PA!FilesKept
    BY DEF PA!FilesKept, A!vars
  <2>2. QED
    BY <2>1, TwoKeptStep
<1>2. TwoKept => A!PreparedMeansRosterLoaded
  BY DEF TwoKept, PA!Kept, A!PreparedMeansRosterLoaded, PA!PreparedMeansRosterLoaded,
         A!LaunchedFor, PA!LaunchedFor, A!Identity, PA!Identity
<1>3. QED
  BY <1>1, <1>2, InitTwoKept, TwoInvariant, PTL DEF Spec, A!ConfigNeverRewritten
=============================================================================
