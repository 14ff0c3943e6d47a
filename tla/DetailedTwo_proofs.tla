-------------------------- MODULE DetailedTwo_proofs --------------------------
(***************************************************************************)
(* Two bridges that meet at every system call of their materializers       *)
(* implement TwoBridges, for every set of commands, offers, servers and    *)
(* faults: what is proved of TwoBridges holds of them.  Each step of one   *)
(* process is a step of it in TwoBridges, or none (StepOfA, StepOfB), and  *)
(* leaves the other's materializer where it is (JointAfterA, JointAfterB). *)
(***************************************************************************)
EXTENDS DetailedTwo, TLAPS

DA == INSTANCE DetailedBridge_proofs WITH
          This <- "A", pc <- pcA, claim <- claimA, polls <- pollsA, result <- resultA
DB == INSTANCE DetailedBridge_proofs WITH
          This <- "B", pc <- pcB, claim <- claimB, polls <- pollsB, result <- resultB
T == INSTANCE TwoBridges_proofs

-----------------------------------------------------------------------------
(* A and DA are instances of one module under one substitution, as are B   *)
(* and DB, their Bridge and the A and B of Two, and Two and T: expanding   *)
(* the definitions shows that the operators are the same.                  *)

LEMMA FilesOfAll ==
    /\ files = A!files /\ files = B!files /\ files = DA!files /\ files = DB!files
    /\ files' = A!files' /\ files' = B!files' /\ files' = DA!files' /\ files' = DB!files'
  BY DEF files, A!files, B!files, DA!files, DB!files

LEMMA ConstantsDA == DA!DetailedConstants
  BY DetailedTwoConstants DEF A!DetailedConstants, DA!DetailedConstants, Processes,
         A!Store!FileConstants, DA!Store!FileConstants, A!Store!File, DA!Store!File,
         A!Bridge!BridgeConstants, DA!Bridge!BridgeConstants, A!Bridge!OfferRecord,
         DA!Bridge!OfferRecord, A!Bridge!FaultKinds, DA!Bridge!FaultKinds,
         A!Bridge!Configs, DA!Bridge!Configs

LEMMA BridgeOfA ==
    ASSUME \/ A!Bridge!Restart
           \/ \E o \in Offers : A!Bridge!Claim(o)
           \/ A!Bridge!Proceed
           \/ A!Bridge!Fail
    PROVE  \/ Two!A!Restart
           \/ \E o \in Offers : Two!A!Claim(o)
           \/ Two!A!Proceed
           \/ Two!A!Fail
  BY Zenon DEF files, A!Bridge!Leave, Two!A!Leave, A!Bridge!Goto, Two!A!Goto,
         A!Bridge!Record, Two!A!Record, A!Bridge!Launch, Two!A!Launch,
         A!Bridge!Conclude, Two!A!Conclude, A!Bridge!Message, Two!A!Message,
         A!Bridge!Accept, Two!A!Accept, A!Bridge!May, Two!A!May, A!Bridge!Identity,
         Two!A!Identity, A!Bridge!Config, Two!A!Config, A!Bridge!OnDisk, Two!A!OnDisk,
         A!Bridge!Refused, Two!A!Refused, A!Bridge!Dispatch, Two!A!Dispatch,
         A!Bridge!NotAllowed, Two!A!NotAllowed, A!Bridge!EvidenceMissing,
         Two!A!EvidenceMissing, A!Bridge!central, Two!A!central, A!Bridge!host,
         Two!A!host, A!Bridge!bridge, Two!A!bridge, A!Bridge!Claimable,
         Two!A!Claimable, A!Bridge!Restart, Two!A!Restart, A!Bridge!Claim,
         Two!A!Claim, A!Bridge!Proceed, Two!A!Proceed, A!Bridge!Fail, Two!A!Fail,
         A!Bridge!ObserveRefused, Two!A!ObserveRefused, A!Bridge!Observe,
         Two!A!Observe, A!Bridge!MarkApplying, Two!A!MarkApplying,
         A!Bridge!WriteConfig, Two!A!WriteConfig, A!Bridge!ReuseConfig,
         Two!A!ReuseConfig, A!Bridge!MaterializeFails, Two!A!MaterializeFails,
         A!Bridge!LoadSent, Two!A!LoadSent, A!Bridge!ReadArtifact, Two!A!ReadArtifact,
         A!Bridge!ReadStatus, Two!A!ReadStatus, A!Bridge!ReadGet5, Two!A!ReadGet5,
         A!Bridge!InspectAgain, Two!A!InspectAgain, A!Bridge!GiveUp, Two!A!GiveUp,
         A!Bridge!MarkSucceeded, Two!A!MarkSucceeded, A!Bridge!MarkFailed,
         Two!A!MarkFailed, A!Bridge!SubmitResult, Two!A!SubmitResult,
         A!Bridge!SubmitRefused, Two!A!SubmitRefused, A!Bridge!ClaimResponseLost,
         Two!A!ClaimResponseLost, A!Bridge!JournalRaises, Two!A!JournalRaises,
         A!Bridge!TempFileDenied, Two!A!TempFileDenied, A!Bridge!LoadUncertain,
         Two!A!LoadUncertain, A!Bridge!LoadNotLaunched, Two!A!LoadNotLaunched,
         A!Bridge!LoadReplyUndecodable, Two!A!LoadReplyUndecodable,
         A!Bridge!CrashWhileLoading, Two!A!CrashWhileLoading,
         A!Bridge!SubmitUnanswered, Two!A!SubmitUnanswered, A!Bridge!Crash,
         Two!A!Crash, A!Bridge!Conflicts, Two!A!Conflicts, A!Bridge!Observed,
         Two!A!Observed, A!Bridge!MayApply, Two!A!MayApply, A!Bridge!Applied,
         Two!A!Applied, A!Bridge!MayComplete, Two!A!MayComplete, A!Bridge!Completed,
         Two!A!Completed, A!Bridge!Terminal, Two!A!Terminal

LEMMA OutcomeOfA ==
    ASSUME \/ DA!Bridge!WriteConfig \/ DA!Bridge!ReuseConfig
           \/ DA!Bridge!MaterializeFails
           \/ DA!Bridge!TempFileDenied \/ DA!Bridge!Crash
    PROVE  (Two!A!Proceed \/ Two!A!Fail) /\ pcA' # "materialize"
  BY FilesOfAll DEF DA!Bridge!Proceed, Two!A!Proceed, DA!Bridge!Fail, Two!A!Fail,
         DA!Bridge!WriteConfig, Two!A!WriteConfig, DA!Bridge!ReuseConfig,
         Two!A!ReuseConfig, DA!Bridge!MaterializeFails, Two!A!MaterializeFails,
         DA!Bridge!TempFileDenied, Two!A!TempFileDenied, DA!Bridge!Crash, Two!A!Crash,
         DA!Bridge!Leave, Two!A!Leave, DA!Bridge!Goto, Two!A!Goto, DA!Bridge!May,
         Two!A!May, DA!Bridge!Config, Two!A!Config, DA!Bridge!OnDisk, Two!A!OnDisk,
         DA!Bridge!central, Two!A!central, DA!Bridge!host, Two!A!host

LEMMA MarkApplyingOfA ==
    ASSUME A!MarkApplying
    PROVE  DA!MarkApplying /\ Two!A!MarkApplying
  BY FilesOfAll DEF A!MarkApplying, DA!MarkApplying, A!Bridge!MarkApplying,
         DA!Bridge!MarkApplying, Two!A!MarkApplying, A!Bridge!Goto, DA!Bridge!Goto,
         Two!A!Goto, A!Bridge!Record, DA!Bridge!Record, Two!A!Record, A!Bridge!Config,
         DA!Bridge!Config, Two!A!Config, A!Bridge!central, DA!Bridge!central,
         Two!A!central, A!Bridge!host, DA!Bridge!host, Two!A!host, A!Bridge!Applied,
         DA!Bridge!Applied, Two!A!Applied, A!Bridge!MayApply, DA!Bridge!MayApply,
         Two!A!MayApply, A!Bridge!Conflicts, DA!Bridge!Conflicts, Two!A!Conflicts,
         A!Bridge!Terminal, DA!Bridge!Terminal, Two!A!Terminal, A!Store!Begin,
         DA!Store!Begin, A!Store!Goto, DA!Store!Goto, A!Store!AtWork, DA!Store!AtWork

LEMMA MaterializeOfA ==
    ASSUME A!Materialize
    PROVE  DA!Materialize
  BY Zenon DEF A!Materialize, DA!Materialize, A!Call, DA!Call, A!Goes, DA!Goes,
         A!Comes, DA!Comes, A!Returns, DA!Returns, A!Raises, DA!Raises, A!Exits,
         DA!Exits, A!GoesOn, DA!GoesOn, A!cycle, DA!cycle, A!outside, DA!outside,
         A!Store!Look, DA!Store!Look, A!Store!Read, DA!Store!Read,
         A!Store!MakeDirectory, DA!Store!MakeDirectory, A!Store!MakeTemp,
         DA!Store!MakeTemp, A!Store!Write, DA!Store!Write, A!Store!Sync,
         DA!Store!Sync, A!Store!Replace, DA!Store!Replace, A!Store!ReplaceFails,
         DA!Store!ReplaceFails, A!Store!CleanUp, DA!Store!CleanUp, A!Store!Die,
         DA!Store!Die, A!Store!At, DA!Store!At, A!Store!Goto, DA!Store!Goto,
         A!Store!AtWork, DA!Store!AtWork, A!Store!Holds, DA!Store!Holds,
         A!Store!Overtaken, DA!Store!Overtaken, A!Bridge!May, DA!Bridge!May,
         A!Bridge!Goto, DA!Bridge!Goto, A!Bridge!Leave, DA!Bridge!Leave

LEMMA ConstantsDB == DB!DetailedConstants
  BY DetailedTwoConstants DEF A!DetailedConstants, DB!DetailedConstants, Processes,
         A!Store!FileConstants, DB!Store!FileConstants, A!Store!File, DB!Store!File,
         A!Bridge!BridgeConstants, DB!Bridge!BridgeConstants, A!Bridge!OfferRecord,
         DB!Bridge!OfferRecord, A!Bridge!FaultKinds, DB!Bridge!FaultKinds,
         A!Bridge!Configs, DB!Bridge!Configs

LEMMA BridgeOfB ==
    ASSUME \/ B!Bridge!Restart
           \/ \E o \in Offers : B!Bridge!Claim(o)
           \/ B!Bridge!Proceed
           \/ B!Bridge!Fail
    PROVE  \/ Two!B!Restart
           \/ \E o \in Offers : Two!B!Claim(o)
           \/ Two!B!Proceed
           \/ Two!B!Fail
  BY Zenon DEF files, A!files, B!files, B!Bridge!Leave, Two!B!Leave, B!Bridge!Goto,
         Two!B!Goto, B!Bridge!Record, Two!B!Record, B!Bridge!Launch, Two!B!Launch,
         B!Bridge!Conclude, Two!B!Conclude, B!Bridge!Message, Two!B!Message,
         B!Bridge!Accept, Two!B!Accept, B!Bridge!May, Two!B!May, B!Bridge!Identity,
         Two!B!Identity, B!Bridge!Config, Two!B!Config, B!Bridge!OnDisk, Two!B!OnDisk,
         B!Bridge!Refused, Two!B!Refused, B!Bridge!Dispatch, Two!B!Dispatch,
         B!Bridge!NotAllowed, Two!B!NotAllowed, B!Bridge!EvidenceMissing,
         Two!B!EvidenceMissing, B!Bridge!central, Two!B!central, B!Bridge!host,
         Two!B!host, B!Bridge!bridge, Two!B!bridge, B!Bridge!Claimable,
         Two!B!Claimable, B!Bridge!Restart, Two!B!Restart, B!Bridge!Claim,
         Two!B!Claim, B!Bridge!Proceed, Two!B!Proceed, B!Bridge!Fail, Two!B!Fail,
         B!Bridge!ObserveRefused, Two!B!ObserveRefused, B!Bridge!Observe,
         Two!B!Observe, B!Bridge!MarkApplying, Two!B!MarkApplying,
         B!Bridge!WriteConfig, Two!B!WriteConfig, B!Bridge!ReuseConfig,
         Two!B!ReuseConfig, B!Bridge!MaterializeFails, Two!B!MaterializeFails,
         B!Bridge!LoadSent, Two!B!LoadSent, B!Bridge!ReadArtifact, Two!B!ReadArtifact,
         B!Bridge!ReadStatus, Two!B!ReadStatus, B!Bridge!ReadGet5, Two!B!ReadGet5,
         B!Bridge!InspectAgain, Two!B!InspectAgain, B!Bridge!GiveUp, Two!B!GiveUp,
         B!Bridge!MarkSucceeded, Two!B!MarkSucceeded, B!Bridge!MarkFailed,
         Two!B!MarkFailed, B!Bridge!SubmitResult, Two!B!SubmitResult,
         B!Bridge!SubmitRefused, Two!B!SubmitRefused, B!Bridge!ClaimResponseLost,
         Two!B!ClaimResponseLost, B!Bridge!JournalRaises, Two!B!JournalRaises,
         B!Bridge!TempFileDenied, Two!B!TempFileDenied, B!Bridge!LoadUncertain,
         Two!B!LoadUncertain, B!Bridge!LoadNotLaunched, Two!B!LoadNotLaunched,
         B!Bridge!LoadReplyUndecodable, Two!B!LoadReplyUndecodable,
         B!Bridge!CrashWhileLoading, Two!B!CrashWhileLoading,
         B!Bridge!SubmitUnanswered, Two!B!SubmitUnanswered, B!Bridge!Crash,
         Two!B!Crash, B!Bridge!Conflicts, Two!B!Conflicts, B!Bridge!Observed,
         Two!B!Observed, B!Bridge!MayApply, Two!B!MayApply, B!Bridge!Applied,
         Two!B!Applied, B!Bridge!MayComplete, Two!B!MayComplete, B!Bridge!Completed,
         Two!B!Completed, B!Bridge!Terminal, Two!B!Terminal

LEMMA OutcomeOfB ==
    ASSUME \/ DB!Bridge!WriteConfig \/ DB!Bridge!ReuseConfig
           \/ DB!Bridge!MaterializeFails
           \/ DB!Bridge!TempFileDenied \/ DB!Bridge!Crash
    PROVE  (Two!B!Proceed \/ Two!B!Fail) /\ pcB' # "materialize"
  BY FilesOfAll DEF DB!Bridge!Proceed, Two!B!Proceed, DB!Bridge!Fail, Two!B!Fail,
         DB!Bridge!WriteConfig, Two!B!WriteConfig, DB!Bridge!ReuseConfig,
         Two!B!ReuseConfig, DB!Bridge!MaterializeFails, Two!B!MaterializeFails,
         DB!Bridge!TempFileDenied, Two!B!TempFileDenied, DB!Bridge!Crash, Two!B!Crash,
         DB!Bridge!Leave, Two!B!Leave, DB!Bridge!Goto, Two!B!Goto, DB!Bridge!May,
         Two!B!May, DB!Bridge!Config, Two!B!Config, DB!Bridge!OnDisk, Two!B!OnDisk,
         DB!Bridge!central, Two!B!central, DB!Bridge!host, Two!B!host

LEMMA MarkApplyingOfB ==
    ASSUME B!MarkApplying
    PROVE  DB!MarkApplying /\ Two!B!MarkApplying
  BY FilesOfAll DEF B!MarkApplying, DB!MarkApplying, B!Bridge!MarkApplying,
         DB!Bridge!MarkApplying, Two!B!MarkApplying, B!Bridge!Goto, DB!Bridge!Goto,
         Two!B!Goto, B!Bridge!Record, DB!Bridge!Record, Two!B!Record, B!Bridge!Config,
         DB!Bridge!Config, Two!B!Config, B!Bridge!central, DB!Bridge!central,
         Two!B!central, B!Bridge!host, DB!Bridge!host, Two!B!host, B!Bridge!Applied,
         DB!Bridge!Applied, Two!B!Applied, B!Bridge!MayApply, DB!Bridge!MayApply,
         Two!B!MayApply, B!Bridge!Conflicts, DB!Bridge!Conflicts, Two!B!Conflicts,
         B!Bridge!Terminal, DB!Bridge!Terminal, Two!B!Terminal, B!Store!Begin,
         DB!Store!Begin, B!Store!Goto, DB!Store!Goto, B!Store!AtWork, DB!Store!AtWork

LEMMA MaterializeOfB ==
    ASSUME B!Materialize
    PROVE  DB!Materialize
  BY Zenon DEF B!Materialize, DB!Materialize, B!Call, DB!Call, B!Goes, DB!Goes,
         B!Comes, DB!Comes, B!Returns, DB!Returns, B!Raises, DB!Raises, B!Exits,
         DB!Exits, B!GoesOn, DB!GoesOn, B!cycle, DB!cycle, B!outside, DB!outside,
         B!Store!Look, DB!Store!Look, B!Store!Read, DB!Store!Read,
         B!Store!MakeDirectory, DB!Store!MakeDirectory, B!Store!MakeTemp,
         DB!Store!MakeTemp, B!Store!Write, DB!Store!Write, B!Store!Sync,
         DB!Store!Sync, B!Store!Replace, DB!Store!Replace, B!Store!ReplaceFails,
         DB!Store!ReplaceFails, B!Store!CleanUp, DB!Store!CleanUp, B!Store!Die,
         DB!Store!Die, B!Store!At, DB!Store!At, B!Store!Goto, DB!Store!Goto,
         B!Store!AtWork, DB!Store!AtWork, B!Store!Holds, DB!Store!Holds,
         B!Store!Overtaken, DB!Store!Overtaken, B!Bridge!May, DB!Bridge!May,
         B!Bridge!Goto, DB!Bridge!Goto, B!Bridge!Leave, DB!Bridge!Leave

LEMMA StoreOfBoth ==
    (DA!Store!FileInv <=> DB!Store!FileInv) /\ (DA!Store!FileInv' <=> DB!Store!FileInv')
  BY DEF DA!Store!FileInv, DB!Store!FileInv, DA!Store!TypeOK, DB!Store!TypeOK,
         DA!Store!Temps, DB!Store!Temps, DA!Store!Named, DB!Store!Named,
         DA!Store!Looks, DB!Store!Looks, DA!Store!File, DB!Store!File,
         DA!Store!Labels, DB!Store!Labels, DA!Bridge!Configs, DB!Bridge!Configs

-----------------------------------------------------------------------------
(* Both cycles are as TwoBridges has them, and both materializers are      *)
(* where the cycles take them to be.                                       *)
Together == T!Inductive /\ DA!Joint /\ DB!Joint

LEMMA ClaimedBoth ==
    ASSUME Together
    PROVE  DA!Claimed /\ DB!Claimed
  BY DEF Together, DA!Claimed, DB!Claimed, T!Inductive, T!PA!TypeOK, T!PB!TypeOK,
         T!PA!Working, T!PB!Working

-----------------------------------------------------------------------------
(* The one process.                                                        *)

(* Whom a step of the process overtakes.                                   *)
LEMMA OvertakenByA ==
    ASSUME raced \subseteq Processes, raced' \subseteq Processes, UNCHANGED cycleB,
           "A" \notin raced' \/ pcA' # "materialize",
           pcB = "materialize" =>
              ("B" \in raced' <=> "B" \in raced \/ (Two!SameFile /\ files' # files))
    PROVE  Two!Overtakes("A", "B")
<1>1. /\ overtaken \subseteq Processes /\ overtaken' \subseteq Processes
      /\ "A" \notin overtaken'
      /\ "B" \in overtaken <=> "B" \in raced /\ pcB = "materialize"
      /\ "B" \in overtaken' <=> "B" \in raced' /\ pcB = "materialize"
  BY DEF overtaken, Processes, cycleB
<1>2. Two!SameFile => pcB = "materialize"
  BY DEF Two!SameFile
<1>3. QED
  BY <1>1, <1>2 DEF Two!Overtakes, Processes

(* A replacement overtakes the other process if it is at the same file,    *)
(* and if that file changes.                                               *)
LEMMA RacedByA ==
    ASSUME Together, DA!Materialize, pcB = "materialize"
    PROVE  "B" \in raced' <=> "B" \in raced \/ (Two!SameFile /\ files' # files)
<1> USE ConstantsDA, ConstantsDB
<1>1. DA!Store!AtWork("B") /\ path["B"] = <<claimB.server, claimB.match>>
  BY DEF Together, DB!Joint, DB!Goes, DA!Store!AtWork
<1>2. DA!Call
  BY DEF DA!Materialize
<1>3. CASE DA!Store!Replace("A")
  <2>1. pcA = "materialize" /\ path["A"] = <<claimA.server, claimA.match>>
    BY <1>2, <1>3, DA!Calls DEF DA!Materialize, Together, DA!Joint
  <2>2. Two!SameFile <=> path["B"] = path["A"]
    BY <1>1, <2>1 DEF Two!SameFile
  <2>3. files' = files <=> temp["A"] = target[path["A"]]
    BY <1>3, <2>1, FilesOfAll, DA!ReplacementShows DEF Together
  <2>4. raced' = raced \cup DA!Store!Overtaken("A")
    BY <1>3 DEF DA!Store!Replace
  <2>5. QED
    BY <1>1, <2>2, <2>3, <2>4 DEF DA!Store!Overtaken, Processes
<1>4. CASE ~DA!Store!Replace("A")
  <2>1. UNCHANGED <<target, raced>>
    BY <1>2, <1>4, DA!Calls DEF Together
  <2>2. files' = files
    BY <2>1, FilesOfAll, DA!FilesOfOthers
  <2>3. QED
    BY <2>1, <2>2
<1>5. QED
  BY <1>3, <1>4

LEMMA JointAfterA ==
    ASSUME Together, StepA
    PROVE  DA!Joint' /\ DB!Joint'
<1> USE ConstantsDA, ConstantsDB DEF Together
<1>1. DA!Claimed
  BY ClaimedBoth
<1>2. /\ DA!MarkApplying \/ DA!Materialize \/ UNCHANGED DA!store
      /\ DA!Joint'
  <2>1. CASE A!MarkApplying
    BY <1>1, <2>1, MarkApplyingOfA, DA!BeginKeepsJoint
  <2>2. CASE A!Materialize
    BY <2>2, MaterializeOfA, DA!CallKeepsJoint
  <2>3. CASE A!Elsewhere
    <3>1. UNCHANGED DA!store /\ ~DA!Store!AtWork("A") /\ pcA' # "materialize"
      BY <2>3 DEF A!Elsewhere, A!store, DA!store, A!Store!AtWork, DA!Store!AtWork
    <3>2. QED
      BY <3>1, DA!ElsewhereKeepsJoint
  <2>4. QED
    BY <2>1, <2>2, <2>3 DEF StepA, A!Step
<1>3. "B" \in Processes \ {"A"}
  BY DEF Processes
<1>4. DB!Store!FileInv'
  BY <1>2, StoreOfBoth DEF DA!Joint
<1>5. UNCHANGED DB!cycle
  BY DEF StepA, cycleB, DB!cycle
<1>6. /\ calls'["B"] = calls["B"] /\ path'["B"] = path["B"] /\ want'["B"] = want["B"]
      /\ target[path["B"]] # Null => target'[path["B"]] # Null
      /\ "B" \in raced' => "B" \in raced \/ target'[path["B"]] # Null
  BY <1>1, <1>2, <1>3, DA!StoreOfOthers
<1>7. DB!Joint'
  <2>1. Processes # {"B"}
    BY DEF Processes
  <2>2. QED
    BY <1>4, <1>5, <1>6, <2>1, DB!OtherKeepsJoint
<1>8. QED
  BY <1>2, <1>7

(* Every step of the process is a step of the one in TwoBridges, or none.  *)
LEMMA StepOfA ==
    ASSUME Together, StepA
    PROVE  Two!StepA \/ UNCHANGED Two!vars
<1> USE ConstantsDA DEF Together
<1>1. raced \subseteq Processes /\ raced' \subseteq Processes
  BY JointAfterA DEF DA!Joint, DA!Store!FileInv, DA!Store!TypeOK
<1>2. UNCHANGED cycleB /\ UNCHANGED Two!bridgeB
  BY DEF StepA, cycleB, Two!bridgeB
<1>3. CASE A!MarkApplying
  <2>1. DA!MarkApplying /\ Two!A!MarkApplying
    BY <1>3, MarkApplyingOfA
  <2>2. raced' = raced \ {"A"} /\ files' = files
    BY <2>1 DEF DA!MarkApplying, DA!Store!Begin, Two!A!MarkApplying
  <2>3. Two!Overtakes("A", "B")
    BY <1>1, <1>2, <2>2, OvertakenByA
  <2>4. QED
    BY <1>2, <2>1, <2>3 DEF Two!StepA, Two!A!Proceed
<1>4. CASE A!Elsewhere
  <2>1. UNCHANGED <<target, raced>> /\ pcA' # "materialize"
    BY <1>4 DEF A!Elsewhere, A!store
  <2>2. files' = files
    BY <2>1, FilesOfAll, DA!FilesOfOthers
  <2>3. Two!Overtakes("A", "B")
    BY <1>1, <1>2, <2>1, <2>2, OvertakenByA
  <2>4. QED
    BY <1>2, <1>4, <2>3, BridgeOfA DEF A!Elsewhere, Two!StepA
<1>5. CASE A!Materialize
  <2>1. DA!Materialize /\ UNCHANGED <<journal, Two!outside>>
    BY <1>5, MaterializeOfA DEF A!Materialize, A!outside, Two!outside
  <2>2. pcA' # "materialize" => Two!Overtakes("A", "B")
    BY <1>1, <1>2, <2>1, RacedByA, OvertakenByA
  <2>3. CASE \/ DA!Bridge!WriteConfig \/ DA!Bridge!ReuseConfig
             \/ DA!Bridge!MaterializeFails
             \/ DA!Bridge!TempFileDenied \/ DA!Bridge!Crash
    BY <1>2, <2>2, <2>3, OutcomeOfA DEF Two!StepA
  <2>4. CASE DA!Overwrites \/ DA!Denials
    <3>1. "A" \in overtaken /\ pcA' # "materialize"
      BY <2>4 DEF DA!Overwrites, DA!Denials, overtaken, DA!Bridge!Goto, DA!Bridge!Leave
    <3>2. Two!OverwriteA \/ Two!DeniedA
      BY <2>1, <2>4, <3>1, FilesOfAll
         DEF DA!Overwrites, DA!Denials, Two!OverwriteA, Two!DeniedA, DA!Bridge!Config,
             Two!A!Config, DA!Bridge!Goto, Two!A!Goto, DA!Bridge!Leave, Two!A!Leave,
             DA!Bridge!May, Two!A!May
    <3>3. QED
      BY <1>2, <2>2, <3>1, <3>2 DEF Two!StepA
  <2>5. CASE UNCHANGED <<DA!cycle, DA!files, raced>>
    <3>1. UNCHANGED <<files, raced, cycleA, overtaken>>
      BY <1>2, <2>5, FilesOfAll DEF DA!cycle, cycleA, cycleB, overtaken
    <3>2. QED
      BY <1>2, <2>1, <3>1 DEF Two!vars, Two!bridgeA, Two!bridgeB, cycleA
  <2>6. QED
    BY <2>1, <2>3, <2>4, <2>5, DA!Outcome
<1>6. QED
  BY <1>3, <1>4, <1>5 DEF StepA, A!Step

-----------------------------------------------------------------------------
(* The other process.                                                      *)

(* Whom a step of the process overtakes.                                   *)
LEMMA OvertakenByB ==
    ASSUME raced \subseteq Processes, raced' \subseteq Processes, UNCHANGED cycleA,
           "B" \notin raced' \/ pcB' # "materialize",
           pcA = "materialize" =>
              ("A" \in raced' <=> "A" \in raced \/ (Two!SameFile /\ files' # files))
    PROVE  Two!Overtakes("B", "A")
<1>1. /\ overtaken \subseteq Processes /\ overtaken' \subseteq Processes
      /\ "B" \notin overtaken'
      /\ "A" \in overtaken <=> "A" \in raced /\ pcA = "materialize"
      /\ "A" \in overtaken' <=> "A" \in raced' /\ pcA = "materialize"
  BY DEF overtaken, Processes, cycleA
<1>2. Two!SameFile => pcA = "materialize"
  BY DEF Two!SameFile
<1>3. QED
  BY <1>1, <1>2 DEF Two!Overtakes, Processes

(* A replacement overtakes the other process if it is at the same file,    *)
(* and if that file changes.                                               *)
LEMMA RacedByB ==
    ASSUME Together, DB!Materialize, pcA = "materialize"
    PROVE  "A" \in raced' <=> "A" \in raced \/ (Two!SameFile /\ files' # files)
<1> USE ConstantsDB, ConstantsDA
<1>1. DB!Store!AtWork("A") /\ path["A"] = <<claimA.server, claimA.match>>
  BY DEF Together, DA!Joint, DA!Goes, DB!Store!AtWork
<1>2. DB!Call
  BY DEF DB!Materialize
<1>3. CASE DB!Store!Replace("B")
  <2>1. pcB = "materialize" /\ path["B"] = <<claimB.server, claimB.match>>
    BY <1>2, <1>3, DB!Calls DEF DB!Materialize, Together, DB!Joint
  <2>2. Two!SameFile <=> path["A"] = path["B"]
    BY <1>1, <2>1 DEF Two!SameFile
  <2>3. files' = files <=> temp["B"] = target[path["B"]]
    BY <1>3, <2>1, FilesOfAll, DB!ReplacementShows DEF Together
  <2>4. raced' = raced \cup DB!Store!Overtaken("B")
    BY <1>3 DEF DB!Store!Replace
  <2>5. QED
    BY <1>1, <2>2, <2>3, <2>4 DEF DB!Store!Overtaken, Processes
<1>4. CASE ~DB!Store!Replace("B")
  <2>1. UNCHANGED <<target, raced>>
    BY <1>2, <1>4, DB!Calls DEF Together
  <2>2. files' = files
    BY <2>1, FilesOfAll, DB!FilesOfOthers
  <2>3. QED
    BY <2>1, <2>2
<1>5. QED
  BY <1>3, <1>4

LEMMA JointAfterB ==
    ASSUME Together, StepB
    PROVE  DB!Joint' /\ DA!Joint'
<1> USE ConstantsDB, ConstantsDA DEF Together
<1>1. DB!Claimed
  BY ClaimedBoth
<1>2. /\ DB!MarkApplying \/ DB!Materialize \/ UNCHANGED DB!store
      /\ DB!Joint'
  <2>1. CASE B!MarkApplying
    BY <1>1, <2>1, MarkApplyingOfB, DB!BeginKeepsJoint
  <2>2. CASE B!Materialize
    BY <2>2, MaterializeOfB, DB!CallKeepsJoint
  <2>3. CASE B!Elsewhere
    <3>1. UNCHANGED DB!store /\ ~DB!Store!AtWork("B") /\ pcB' # "materialize"
      BY <2>3 DEF B!Elsewhere, B!store, DB!store, B!Store!AtWork, DB!Store!AtWork
    <3>2. QED
      BY <3>1, DB!ElsewhereKeepsJoint
  <2>4. QED
    BY <2>1, <2>2, <2>3 DEF StepB, B!Step
<1>3. "A" \in Processes \ {"B"}
  BY DEF Processes
<1>4. DA!Store!FileInv'
  BY <1>2, StoreOfBoth DEF DB!Joint
<1>5. UNCHANGED DA!cycle
  BY DEF StepB, cycleA, DA!cycle
<1>6. /\ calls'["A"] = calls["A"] /\ path'["A"] = path["A"] /\ want'["A"] = want["A"]
      /\ target[path["A"]] # Null => target'[path["A"]] # Null
      /\ "A" \in raced' => "A" \in raced \/ target'[path["A"]] # Null
  BY <1>1, <1>2, <1>3, DB!StoreOfOthers
<1>7. DA!Joint'
  <2>1. Processes # {"A"}
    BY DEF Processes
  <2>2. QED
    BY <1>4, <1>5, <1>6, <2>1, DA!OtherKeepsJoint
<1>8. QED
  BY <1>2, <1>7

(* Every step of the process is a step of the one in TwoBridges, or none.  *)
LEMMA StepOfB ==
    ASSUME Together, StepB
    PROVE  Two!StepB \/ UNCHANGED Two!vars
<1> USE ConstantsDB DEF Together
<1>1. raced \subseteq Processes /\ raced' \subseteq Processes
  BY JointAfterB DEF DB!Joint, DB!Store!FileInv, DB!Store!TypeOK
<1>2. UNCHANGED cycleA /\ UNCHANGED Two!bridgeA
  BY DEF StepB, cycleA, Two!bridgeA
<1>3. CASE B!MarkApplying
  <2>1. DB!MarkApplying /\ Two!B!MarkApplying
    BY <1>3, MarkApplyingOfB
  <2>2. raced' = raced \ {"B"} /\ files' = files
    BY <2>1 DEF DB!MarkApplying, DB!Store!Begin, Two!B!MarkApplying
  <2>3. Two!Overtakes("B", "A")
    BY <1>1, <1>2, <2>2, OvertakenByB
  <2>4. QED
    BY <1>2, <2>1, <2>3 DEF Two!StepB, Two!B!Proceed
<1>4. CASE B!Elsewhere
  <2>1. UNCHANGED <<target, raced>> /\ pcB' # "materialize"
    BY <1>4 DEF B!Elsewhere, B!store
  <2>2. files' = files
    BY <2>1, FilesOfAll, DB!FilesOfOthers
  <2>3. Two!Overtakes("B", "A")
    BY <1>1, <1>2, <2>1, <2>2, OvertakenByB
  <2>4. QED
    BY <1>2, <1>4, <2>3, BridgeOfB DEF B!Elsewhere, Two!StepB
<1>5. CASE B!Materialize
  <2>1. DB!Materialize /\ UNCHANGED <<journal, Two!outside>>
    BY <1>5, MaterializeOfB DEF B!Materialize, B!outside, Two!outside
  <2>2. pcB' # "materialize" => Two!Overtakes("B", "A")
    BY <1>1, <1>2, <2>1, RacedByB, OvertakenByB
  <2>3. CASE \/ DB!Bridge!WriteConfig \/ DB!Bridge!ReuseConfig
             \/ DB!Bridge!MaterializeFails
             \/ DB!Bridge!TempFileDenied \/ DB!Bridge!Crash
    BY <1>2, <2>2, <2>3, OutcomeOfB DEF Two!StepB
  <2>4. CASE DB!Overwrites \/ DB!Denials
    <3>1. "B" \in overtaken /\ pcB' # "materialize"
      BY <2>4 DEF DB!Overwrites, DB!Denials, overtaken, DB!Bridge!Goto, DB!Bridge!Leave
    <3>2. Two!OverwriteB \/ Two!DeniedB
      BY <2>1, <2>4, <3>1, FilesOfAll
         DEF DB!Overwrites, DB!Denials, Two!OverwriteB, Two!DeniedB, DB!Bridge!Config,
             Two!B!Config, DB!Bridge!Goto, Two!B!Goto, DB!Bridge!Leave, Two!B!Leave,
             DB!Bridge!May, Two!B!May
    <3>3. QED
      BY <1>2, <2>2, <3>1, <3>2 DEF Two!StepB
  <2>5. CASE UNCHANGED <<DB!cycle, DB!files, raced>>
    <3>1. UNCHANGED <<files, raced, cycleB, overtaken>>
      BY <1>2, <2>5, FilesOfAll DEF DB!cycle, cycleB, cycleA, overtaken
    <3>2. QED
      BY <1>2, <2>1, <3>1 DEF Two!vars, Two!bridgeB, Two!bridgeA, cycleB
  <2>6. QED
    BY <2>1, <2>3, <2>4, <2>5, DB!Outcome
<1>6. QED
  BY <1>3, <1>4, <1>5 DEF StepB, B!Step

-----------------------------------------------------------------------------
(* The two together.                                                       *)

LEMMA ConstantsT == T!TwoConstants
  BY DetailedTwoConstants DEF A!DetailedConstants, T!TwoConstants,
         A!Bridge!BridgeConstants, T!A!BridgeConstants, A!Bridge!OfferRecord,
         T!A!OfferRecord, A!Bridge!FaultKinds, T!A!FaultKinds

LEMMA TwoOfA == Two!StepA => T!StepA
  BY Zenon DEF Two!StepA, T!StepA, Two!OverwriteA, T!OverwriteA, Two!DeniedA,
         T!DeniedA, Two!Overtakes, T!Overtakes, Two!SameFile, T!SameFile, Two!outside,
         T!outside, Two!bridgeB, T!bridgeB, Two!A!Leave, T!A!Leave, Two!A!Goto,
         T!A!Goto, Two!A!Record, T!A!Record, Two!A!Launch, T!A!Launch, Two!A!Conclude,
         T!A!Conclude, Two!A!Message, T!A!Message, Two!A!Accept, T!A!Accept,
         Two!A!May, T!A!May, Two!A!Identity, T!A!Identity, Two!A!Config, T!A!Config,
         Two!A!OnDisk, T!A!OnDisk, Two!A!Refused, T!A!Refused, Two!A!Dispatch,
         T!A!Dispatch, Two!A!NotAllowed, T!A!NotAllowed, Two!A!EvidenceMissing,
         T!A!EvidenceMissing, Two!A!central, T!A!central, Two!A!host, T!A!host,
         Two!A!bridge, T!A!bridge, Two!A!Claimable, T!A!Claimable, Two!A!Restart,
         T!A!Restart, Two!A!Claim, T!A!Claim, Two!A!Proceed, T!A!Proceed, Two!A!Fail,
         T!A!Fail, Two!A!ObserveRefused, T!A!ObserveRefused, Two!A!Observe,
         T!A!Observe, Two!A!MarkApplying, T!A!MarkApplying, Two!A!WriteConfig,
         T!A!WriteConfig, Two!A!ReuseConfig, T!A!ReuseConfig, Two!A!MaterializeFails,
         T!A!MaterializeFails, Two!A!LoadSent, T!A!LoadSent, Two!A!ReadArtifact,
         T!A!ReadArtifact, Two!A!ReadStatus, T!A!ReadStatus, Two!A!ReadGet5,
         T!A!ReadGet5, Two!A!InspectAgain, T!A!InspectAgain, Two!A!GiveUp, T!A!GiveUp,
         Two!A!MarkSucceeded, T!A!MarkSucceeded, Two!A!MarkFailed, T!A!MarkFailed,
         Two!A!SubmitResult, T!A!SubmitResult, Two!A!SubmitRefused, T!A!SubmitRefused,
         Two!A!ClaimResponseLost, T!A!ClaimResponseLost, Two!A!JournalRaises,
         T!A!JournalRaises, Two!A!TempFileDenied, T!A!TempFileDenied,
         Two!A!LoadUncertain, T!A!LoadUncertain, Two!A!LoadNotLaunched,
         T!A!LoadNotLaunched, Two!A!LoadReplyUndecodable, T!A!LoadReplyUndecodable,
         Two!A!CrashWhileLoading, T!A!CrashWhileLoading, Two!A!SubmitUnanswered,
         T!A!SubmitUnanswered, Two!A!Crash, T!A!Crash, Two!A!Conflicts, T!A!Conflicts,
         Two!A!Observed, T!A!Observed, Two!A!MayApply, T!A!MayApply, Two!A!Applied,
         T!A!Applied, Two!A!MayComplete, T!A!MayComplete, Two!A!Completed,
         T!A!Completed, Two!A!Terminal, T!A!Terminal

LEMMA TwoOfB == Two!StepB => T!StepB
  BY Zenon DEF Two!StepB, T!StepB, Two!OverwriteB, T!OverwriteB, Two!DeniedB,
         T!DeniedB, Two!Overtakes, T!Overtakes, Two!SameFile, T!SameFile, Two!outside,
         T!outside, Two!bridgeA, T!bridgeA, Two!B!Leave, T!B!Leave, Two!B!Goto,
         T!B!Goto, Two!B!Record, T!B!Record, Two!B!Launch, T!B!Launch, Two!B!Conclude,
         T!B!Conclude, Two!B!Message, T!B!Message, Two!B!Accept, T!B!Accept,
         Two!B!May, T!B!May, Two!B!Identity, T!B!Identity, Two!B!Config, T!B!Config,
         Two!B!OnDisk, T!B!OnDisk, Two!B!Refused, T!B!Refused, Two!B!Dispatch,
         T!B!Dispatch, Two!B!NotAllowed, T!B!NotAllowed, Two!B!EvidenceMissing,
         T!B!EvidenceMissing, Two!B!central, T!B!central, Two!B!host, T!B!host,
         Two!B!bridge, T!B!bridge, Two!B!Claimable, T!B!Claimable, Two!B!Restart,
         T!B!Restart, Two!B!Claim, T!B!Claim, Two!B!Proceed, T!B!Proceed, Two!B!Fail,
         T!B!Fail, Two!B!ObserveRefused, T!B!ObserveRefused, Two!B!Observe,
         T!B!Observe, Two!B!MarkApplying, T!B!MarkApplying, Two!B!WriteConfig,
         T!B!WriteConfig, Two!B!ReuseConfig, T!B!ReuseConfig, Two!B!MaterializeFails,
         T!B!MaterializeFails, Two!B!LoadSent, T!B!LoadSent, Two!B!ReadArtifact,
         T!B!ReadArtifact, Two!B!ReadStatus, T!B!ReadStatus, Two!B!ReadGet5,
         T!B!ReadGet5, Two!B!InspectAgain, T!B!InspectAgain, Two!B!GiveUp, T!B!GiveUp,
         Two!B!MarkSucceeded, T!B!MarkSucceeded, Two!B!MarkFailed, T!B!MarkFailed,
         Two!B!SubmitResult, T!B!SubmitResult, Two!B!SubmitRefused, T!B!SubmitRefused,
         Two!B!ClaimResponseLost, T!B!ClaimResponseLost, Two!B!JournalRaises,
         T!B!JournalRaises, Two!B!TempFileDenied, T!B!TempFileDenied,
         Two!B!LoadUncertain, T!B!LoadUncertain, Two!B!LoadNotLaunched,
         T!B!LoadNotLaunched, Two!B!LoadReplyUndecodable, T!B!LoadReplyUndecodable,
         Two!B!CrashWhileLoading, T!B!CrashWhileLoading, Two!B!SubmitUnanswered,
         T!B!SubmitUnanswered, Two!B!Crash, T!B!Crash, Two!B!Conflicts, T!B!Conflicts,
         Two!B!Observed, T!B!Observed, Two!B!MayApply, T!B!MayApply, Two!B!Applied,
         T!B!Applied, Two!B!MayComplete, T!B!MayComplete, Two!B!Completed,
         T!B!Completed, Two!B!Terminal, T!B!Terminal

LEMMA EnvironmentOfTwo ==
    ASSUME Environment
    PROVE  /\ Two!Environment /\ T!Environment
           /\ UNCHANGED <<cycleA, cycleB, A!store>>
<1>1. /\ UNCHANGED <<cycleA, cycleB, A!store>>
      /\ UNCHANGED <<Two!bridgeA, Two!bridgeB, files, overtaken>>
  <2>1. UNCHANGED cycleA
    BY DEF Environment, A!Environment, A!Bridge!Environment, cycleA,
           A!Bridge!LeaseExpires, A!Bridge!DeliverLate, A!Bridge!ServerLoads,
           A!Bridge!ServerDropsLoad, A!Bridge!ServerChangesMap,
           A!Bridge!ServerWritesNames, A!Bridge!ServerResets, A!Bridge!Calm,
           A!Bridge!bridge
  <2>2. UNCHANGED <<cycleB, A!store>>
    BY DEF Environment, A!Environment
  <2>3. UNCHANGED files
    BY <2>2, FilesOfAll, ConstantsDA, DA!FilesOfOthers DEF A!store
  <2>4. QED
    BY <2>1, <2>2, <2>3
       DEF cycleA, cycleB, A!store, overtaken, Two!bridgeA, Two!bridgeB
<1>2. Two!Environment
  BY <1>1 DEF Environment, A!Environment, A!Bridge!Environment, Two!Environment,
         A!Bridge!Calm, files, A!Bridge!central, Two!A!central, A!Bridge!host,
         Two!A!host, A!Bridge!bridge, Two!A!bridge, A!Bridge!LeaseExpires,
         Two!A!LeaseExpires, A!Bridge!DeliverLate, Two!A!DeliverLate,
         A!Bridge!ServerLoads, Two!A!ServerLoads, A!Bridge!ServerDropsLoad,
         Two!A!ServerDropsLoad, A!Bridge!ServerChangesMap, Two!A!ServerChangesMap,
         A!Bridge!ServerWritesNames, Two!A!ServerWritesNames, A!Bridge!ServerResets,
         Two!A!ServerResets, A!Bridge!Accept, Two!A!Accept, A!Bridge!AtWork,
         Two!A!AtWork
<1>3. T!Environment
  BY <1>2 DEF Two!Environment, T!Environment, Two!bridgeB, T!bridgeB, Two!A!central,
         T!A!central, Two!A!host, T!A!host, Two!A!bridge, T!A!bridge,
         Two!A!LeaseExpires, T!A!LeaseExpires, Two!A!DeliverLate, T!A!DeliverLate,
         Two!A!ServerLoads, T!A!ServerLoads, Two!A!ServerDropsLoad,
         T!A!ServerDropsLoad, Two!A!ServerChangesMap, T!A!ServerChangesMap,
         Two!A!ServerWritesNames, T!A!ServerWritesNames, Two!A!ServerResets,
         T!A!ServerResets, Two!A!Accept, T!A!Accept, Two!A!AtWork, T!A!AtWork
<1>4. QED
  BY <1>1, <1>2, <1>3

LEMMA InitTogether == Init => Two!Init /\ T!Init /\ Together
<1> SUFFICES ASSUME Init PROVE Two!Init /\ T!Init /\ Together
  OBVIOUS
<1>1. Two!Init
  <2>1. Two!A!Init
    BY FilesOfAll DEF Init, A!Init, A!Bridge!Init, Two!A!Init, A!Bridge!NoRow, Two!A!NoRow
  <2>2. Two!B!Init
    BY FilesOfAll DEF Init, B!Init, B!Bridge!Init, Two!B!Init, B!Bridge!NoRow, Two!B!NoRow
  <2>3. overtaken = {}
    BY DEF Init, A!Init, A!Store!Init, overtaken
  <2>4. QED
    BY <2>1, <2>2, <2>3 DEF Two!Init
<1>2. T!Init
  BY <1>1 DEF Two!Init, T!Init, Two!A!Init, T!A!Init, Two!B!Init, T!B!Init,
              Two!A!NoRow, T!A!NoRow, Two!B!NoRow, T!B!NoRow
<1>3. DA!Joint
  <2>1. DA!Init
    BY FilesOfAll
       DEF Init, A!Init, DA!Init, A!Store!Init, DA!Store!Init, A!Bridge!Init,
           DA!Bridge!Init, A!Bridge!NoRow, DA!Bridge!NoRow, A!Bridge!Configs,
           DA!Bridge!Configs
  <2>2. QED
    BY <2>1, ConstantsDA, DA!InitDetailed DEF DA!DetailedInv
<1>4. DB!Joint
  <2>1. DB!Init
    BY FilesOfAll
       DEF Init, B!Init, DB!Init, B!Store!Init, DB!Store!Init, B!Bridge!Init,
           DB!Bridge!Init, B!Bridge!NoRow, DB!Bridge!NoRow, B!Bridge!Configs,
           DB!Bridge!Configs
  <2>2. QED
    BY <2>1, ConstantsDB, DB!InitDetailed DEF DB!DetailedInv
<1>5. QED
  BY <1>1, <1>2, <1>3, <1>4, ConstantsT, T!InitTwo DEF Together

LEMMA StepTogether ==
    ASSUME Together, [Next]_vars
    PROVE  [Two!Next]_(Two!vars) /\ [T!Next]_(T!vars) /\ Together'
<1>1. CASE StepA
  <2>1. Two!StepA \/ UNCHANGED Two!vars
    BY <1>1, StepOfA
  <2>2. [T!Next]_(T!vars)
    BY <2>1, TwoOfA
       DEF T!Next, Two!vars, T!vars, Two!bridgeA, T!bridgeA, Two!bridgeB, T!bridgeB,
           Two!outside, T!outside
  <2>3. T!Inductive'
    BY <2>2, ConstantsT, T!StepTwo DEF Together
  <2>4. QED
    BY <1>1, <2>1, <2>2, <2>3, JointAfterA DEF Together, Two!Next
<1>2. CASE StepB
  <2>1. Two!StepB \/ UNCHANGED Two!vars
    BY <1>2, StepOfB
  <2>2. [T!Next]_(T!vars)
    BY <2>1, TwoOfB
       DEF T!Next, Two!vars, T!vars, Two!bridgeA, T!bridgeA, Two!bridgeB, T!bridgeB,
           Two!outside, T!outside
  <2>3. T!Inductive'
    BY <2>2, ConstantsT, T!StepTwo DEF Together
  <2>4. QED
    BY <1>2, <2>1, <2>2, <2>3, JointAfterB DEF Together, Two!Next
<1>3. ASSUME UNCHANGED <<cycleA, cycleB, A!store>>
      PROVE  DA!Joint' /\ DB!Joint'
  <2>1. UNCHANGED <<DA!cycle, DB!cycle, DA!store, DB!store>>
    BY <1>3 DEF cycleA, cycleB, A!store, DA!cycle, DB!cycle, DA!store, DB!store
  <2>2. QED
    BY <2>1, ConstantsDA, ConstantsDB, DA!ElsewhereKeepsJoint, DB!ElsewhereKeepsJoint
       DEF Together
<1>4. CASE Environment
  <2>1. T!Inductive'
    BY <1>4, EnvironmentOfTwo, ConstantsT, T!StepTwo DEF Together, T!Next
  <2>2. QED
    BY <1>3, <1>4, <2>1, EnvironmentOfTwo DEF Together, Two!Next, T!Next
<1>5. CASE UNCHANGED vars
  <2>1. UNCHANGED <<cycleA, cycleB, A!store, A!outside>>
    BY <1>5 DEF vars
  <2>2. UNCHANGED <<files, overtaken>>
    BY <2>1, FilesOfAll, ConstantsDA, DA!FilesOfOthers
       DEF cycleA, cycleB, A!store, overtaken
  <2>3. UNCHANGED Two!vars /\ UNCHANGED T!vars
    BY <2>1, <2>2
       DEF cycleA, cycleB, A!outside, Two!vars, T!vars, Two!bridgeA, T!bridgeA,
           Two!bridgeB, T!bridgeB, Two!outside, T!outside
  <2>4. T!Inductive'
    BY <2>3, ConstantsT, T!StepTwo DEF Together
  <2>5. QED
    BY <1>3, <2>1, <2>3, <2>4 DEF Together
<1>6. QED
  BY <1>1, <1>2, <1>4, <1>5 DEF Next

(* Both cycles know where their materializers are, beside each other.      *)
THEOREM TogetherInvariant == Spec => []Together
  BY InitTogether, StepTogether, PTL DEF Spec

(* Two bridges that meet at every system call of their materializers do to *)
(* each other's files what TwoBridges has them do, and no more.            *)
THEOREM DetailedTwoImplements == Spec => ImplementsTwo
<1>1. Init => Two!Init
  BY InitTogether
<1>2. Together /\ [Next]_vars => [Two!Next]_(Two!vars)
  BY StepTogether
<1>3. QED
  BY <1>1, <1>2, TogetherInvariant, PTL DEF Spec, Two!Spec, ImplementsTwo

(* Every load that is under way finds its file in place and complete,     *)
(* whichever of the two sent it, and whatever the other does to the file.  *)
THEOREM TwoLoadsFindTheirFiles == Spec => []LoadsFindFiles
<1>1. Together => LoadsFindFiles
  <2>1. SUFFICES ASSUME T!Inductive, DA!Joint, NEW l \in loads
                 PROVE  /\ target[<<l.server, l.match>>] # Null
                        /\ target[<<l.server, l.match>>].whole
                        /\ target[<<l.server, l.match>>].synced
    BY DEF Together, LoadsFindFiles, A!LoadsFindFiles
  <2>2. l.server \in Servers /\ l.match \in Matches
    BY <2>1 DEF T!Inductive, T!PA!TypeOK
  <2>3. files[l.server][l.match] # Null
    BY <2>1 DEF T!Inductive, T!PA!Shared, T!PA!Sent
  <2>4. target[<<l.server, l.match>>] # Null
    BY <2>2, <2>3 DEF files, A!files
  <2>5. QED
    BY <2>1, <2>2, <2>4 DEF DA!Joint, DA!Store!FileInv, DA!Store!Named
<1>2. QED
  BY <1>1, TogetherInvariant, PTL

(* What is left to two bridges is left to them with every system call in   *)
(* their cycles.                                                           *)
THEOREM DetailedTwoKeepPromises ==
    Spec => /\ []Two!OneTruth
            /\ []Two!IntentBeforeEffect
            /\ []Two!TwoLaunchesInAll
            /\ []Two!PreparedMeansLaunched
<1>1. Together => Two!OneTruth /\ Two!IntentBeforeEffect /\ Two!PreparedMeansLaunched
  BY DEF Together, T!Inductive, T!PA!Shared, Two!OneTruth, Two!A!OneTruth, T!PA!OneTruth,
         Two!A!Told, T!PA!Told, Two!IntentBeforeEffect, Two!A!IntentBeforeEffect,
         T!PA!IntentBeforeEffect, Two!A!Terminal, T!PA!Terminal,
         Two!PreparedMeansLaunched, Two!A!LaunchedFor, T!PA!LaunchedFor
<1>2. Together => Two!TwoLaunchesInAll
  <2>1. SUFFICES ASSUME Together, NEW c \in Commands PROVE launches[c] <= 2
    BY DEF Two!TwoLaunchesInAll
  <2>2. launches[c] \in Nat /\ launches[c] + T!PA!Pending(c) + T!PB!Pending(c) <= 2
    BY <2>1 DEF Together, T!Inductive, T!Budget, T!PA!TypeOK
  <2>3. QED
    BY <2>2, ConstantsT, T!PendingIsSmall
<1>3. QED
  BY <1>1, <1>2, TogetherInvariant, PTL

(* The roster is the one asked for, with every system call in the cycles,  *)
(* unless a rename replaces a configuration by a different one.            *)
THEOREM DetailedTwoPrepareRosters ==
    Spec /\ Two!A!ConfigNeverRewritten => []Two!A!PreparedMeansRosterLoaded
<1> DEFINE Same == [\A s \in Servers, m \in Matches :
                      files[s][m] # Null => files'[s][m] = files[s][m]]_(Two!A!vars)
<1>1. Init => T!TwoKept
  BY InitTogether, ConstantsT, T!InitTwoKept
<1>2. Together /\ T!TwoKept /\ [Next]_vars /\ Same => T!TwoKept'
  <2>1. SUFFICES ASSUME Together, T!TwoKept, [Next]_vars, Same PROVE T!TwoKept'
    OBVIOUS
  <2>2. T!PA!FilesKept
    BY <2>1 DEF T!PA!FilesKept, Two!A!vars
  <2>3. QED
    BY <2>1, <2>2, StepTogether, ConstantsT, T!TwoKeptStep DEF Together
<1>3. T!TwoKept => Two!A!PreparedMeansRosterLoaded
  BY DEF T!TwoKept, T!PA!Kept, Two!A!PreparedMeansRosterLoaded,
         T!PA!PreparedMeansRosterLoaded, Two!A!LaunchedFor, T!PA!LaunchedFor,
         Two!A!Identity, T!PA!Identity
<1>4. QED
  BY <1>1, <1>2, <1>3, TogetherInvariant, PTL DEF Spec, Two!A!ConfigNeverRewritten
=============================================================================
