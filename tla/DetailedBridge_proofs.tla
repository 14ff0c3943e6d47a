------------------------ MODULE DetailedBridge_proofs ------------------------
(***************************************************************************)
(* Two layers.  Beside others: what a system call of the materializer is   *)
(* to the cycle, whoever else writes the directories; DetailedTwo_proofs   *)
(* rests on this layer.  Alone: DetailedBridge implements MatchBridge, for *)
(* every set of commands, offers, servers and faults, so that what is      *)
(* proved of MatchBridge holds of the cycle with every system call in it.  *)
(***************************************************************************)
EXTENDS DetailedBridge, TLAPS

(***************************************************************************)
(* Beside others.                                                          *)
(***************************************************************************)

F == INSTANCE ConfigFile_proofs WITH
         Bridges <- Processes, Paths <- Servers \X Matches, Contents <- Bridge!Configs,
         pc <- calls

(* F is an instance of the module Store is an instance of, under one       *)
(* substitution: expanding the definitions shows that the operators are    *)
(* the same.                                                               *)
LEMMA ConstantsF == ASSUME DetailedConstants PROVE F!FileConstants
  BY DEF DetailedConstants, Store!FileConstants, F!FileConstants, Store!File, F!File

LEMMA FilesOfStore == (Store!FileInv <=> F!FileInv) /\ (Store!FileInv' <=> F!FileInv')
  BY DEF Store!FileInv, F!FileInv, Store!TypeOK, F!TypeOK, Store!Temps, F!Temps,
         Store!Named, F!Named, Store!Looks, F!Looks, Store!File, F!File,
         Store!Labels, F!Labels

LEMMA StepOfStore ==
    ASSUME DetailedConstants,
           \/ Call
           \/ \E n \in Servers \X Matches, content \in Bridge!Configs :
                 Store!Begin(This, n, content)
    PROVE  F!Next
  BY DEF DetailedConstants, Call, F!Next, F!Step, Store!Begin, F!Begin,
         Store!Look, F!Look, Store!Read, F!Read,
         Store!MakeDirectory, F!MakeDirectory, Store!MakeTemp, F!MakeTemp,
         Store!Write, F!Write, Store!Sync, F!Sync, Store!Replace, F!Replace,
         Store!ReplaceFails, F!ReplaceFails, Store!CleanUp, F!CleanUp, Store!Die, F!Die,
         Store!At, F!At, Store!Goto, F!Goto, Store!AtWork, F!AtWork, Store!Holds, F!Holds,
         Store!Overtaken, F!Overtaken

(* A step of the materializer's own invariant.                             *)
LEMMA StoreStep ==
    ASSUME DetailedConstants, Store!FileInv,
           \/ UNCHANGED store
           \/ Call
           \/ \E n \in Servers \X Matches, content \in Bridge!Configs :
                 Store!Begin(This, n, content)
    PROVE  Store!FileInv'
<1>1. [F!Next]_(F!vars)
  BY StepOfStore DEF store, F!vars
<1>2. F!FileInv
  BY FilesOfStore
<1>3. F!FileInv'
  BY <1>1, <1>2, ConstantsF, F!TypeStep, F!TempsStep, F!NamedStep, F!LooksStep DEF F!FileInv
<1>4. QED
  BY <1>3, FilesOfStore

-----------------------------------------------------------------------------
(* The materializer is called for a command that was offered and whose     *)
(* server is one of this node's.                                           *)
Claimed ==
    pc \notin {"down", "idle", "claimed"} => claim \in Offers /\ claim.server \in Servers

LEMMA Called ==
    ASSUME DetailedConstants, Claimed, pc \notin {"down", "idle", "claimed"}
    PROVE  /\ Bridge!Config(claim) \in Bridge!Configs
           /\ <<claim.server, claim.match>> \in Servers \X Matches
  BY DEF DetailedConstants, Claimed, Bridge!BridgeConstants, Bridge!OfferRecord,
         Bridge!Config, Bridge!Configs

(* What the materializer changes of the directories is what MatchBridge    *)
(* changes of the configurations.                                          *)
LEMMA FilesOfOthers == UNCHANGED target => UNCHANGED files
  BY DEF files

LEMMA FileOfClaim ==
    ASSUME DetailedConstants, Joint, pc = "materialize"
    PROVE  /\ claim.server \in Servers /\ claim.match \in Matches
           /\ target[path[This]] = Null => Bridge!OnDisk = Null
           /\ target[path[This]] # Null =>
                 /\ target[path[This]] \in Store!File
                 /\ Bridge!OnDisk = target[path[This]].data
<1>1. path[This] \in Servers \X Matches /\ path[This] = <<claim.server, claim.match>>
  BY DEF DetailedConstants, Joint, Store!FileInv, Store!TypeOK
<1>2. claim.server \in Servers /\ claim.match \in Matches
  BY <1>1
<1>3. target[path[This]] \in Store!File \cup {Null}
  BY <1>1 DEF Joint, Store!FileInv, Store!TypeOK
<1>4. QED
  BY <1>1, <1>2, <1>3 DEF Bridge!OnDisk, files

LEMMA Replacement ==
    ASSUME DetailedConstants, Joint, pc = "materialize", Store!Replace(This)
    PROVE  /\ target[path[This]] = Null => Bridge!OnDisk = Null
           /\ This \notin raced => target[path[This]] = Null
           /\ files' = [files EXCEPT ![claim.server][claim.match] = Bridge!Config(claim)]
<1>1. /\ path[This] = <<claim.server, claim.match>>
      /\ claim.server \in Servers /\ claim.match \in Matches
      /\ target \in [Servers \X Matches -> Store!File \cup {Null}]
  BY FileOfClaim DEF DetailedConstants, Joint, Store!FileInv, Store!TypeOK
<1>2. temp[This] # Null /\ temp[This].data = Bridge!Config(claim)
  BY DEF DetailedConstants, Joint, Store!FileInv, Store!Temps, Store!Replace, Store!At
<1>3. This \notin raced => target[path[This]] = Null
  BY DEF DetailedConstants, Joint, Store!FileInv, Store!Looks, Store!Replace, Store!At
<1>4. target' = [target EXCEPT ![<<claim.server, claim.match>>] = temp[This]]
  BY <1>1 DEF Store!Replace
<1>5. ASSUME NEW s \in Servers, NEW m \in Matches
      PROVE  target'[<<s, m>>] = IF s = claim.server /\ m = claim.match THEN temp[This]
                                                                    ELSE target[<<s, m>>]
  BY <1>1, <1>4
<1>6. files' = [s \in Servers |-> [m \in Matches |->
                   IF s = claim.server /\ m = claim.match THEN Bridge!Config(claim)
                                                           ELSE files[s][m]]]
  BY <1>2, <1>5 DEF files
<1>7. files = [s \in Servers |-> [m \in Matches |-> files[s][m]]]
  BY DEF files
<1>8. files' = [files EXCEPT ![claim.server][claim.match] = Bridge!Config(claim)]
  BY <1>1, <1>6, <1>7
<1>9. QED
  BY <1>3, <1>8, FileOfClaim

(* A replacement is seen in the configurations unless the same content was *)
(* there: both files are complete and synced.                              *)
LEMMA ReplacementShows ==
    ASSUME DetailedConstants, Joint, pc = "materialize", Store!Replace(This)
    PROVE  files' = files <=> temp[This] = target[path[This]]
<1> DEFINE new == temp[This]
           old == target[path[This]]
<1>1. /\ claim.server \in Servers /\ claim.match \in Matches
      /\ old = Null <=> Bridge!OnDisk = Null
      /\ old # Null => old \in Store!File /\ Bridge!OnDisk = old.data
  <2>1. old \in Store!File => old.data # Null
    BY DEF DetailedConstants, Store!File, Bridge!BridgeConstants, Bridge!Configs
  <2>2. QED
    BY <2>1, FileOfClaim
<1>2. /\ new \in Store!File /\ new.data = Bridge!Config(claim)
      /\ new.whole /\ new.synced /\ new.data # Null /\ new # Null
  <2>1. new \in Store!File
    BY DEF DetailedConstants, Joint, Store!FileInv, Store!TypeOK, Store!Temps,
           Store!Replace, Store!At
  <2>2. QED
    BY <2>1
       DEF DetailedConstants, Joint, Store!FileInv, Store!Temps, Store!Replace, Store!At, Store!File,
           Store!FileConstants, Bridge!BridgeConstants, Bridge!Configs
<1>3. old # Null => old.whole /\ old.synced
  BY DEF DetailedConstants, Joint, Store!FileInv, Store!TypeOK, Store!Named
<1>4. new = old <=> Bridge!OnDisk = Bridge!Config(claim)
  <2>1. ASSUME old # Null, new.data = old.data PROVE new = old
    BY <1>1, <1>2, <1>3, <2>1 DEF Store!File
  <2>2. QED
    BY <1>1, <1>2, <2>1 DEF Store!File
<1>5. files' = files <=> Bridge!OnDisk = Bridge!Config(claim)
  <2>1. files' = [files EXCEPT ![claim.server][claim.match] = Bridge!Config(claim)]
    BY Replacement
  <2>2. files = [s \in Servers |-> [m \in Matches |-> files[s][m]]]
    BY DEF files
  <2>3. QED
    BY <1>1, <2>1, <2>2 DEF Bridge!OnDisk
<1>6. QED
  BY <1>4, <1>5

-----------------------------------------------------------------------------
(* What another process has written meanwhile is replaced, or found by an  *)
(* mkstemp that fails: no step of MatchBridge, see TwoBridges.             *)
Overwrites ==
    /\ This \in raced /\ pc = "materialize"
    /\ files' = [files EXCEPT ![claim.server][claim.match] = Bridge!Config(claim)]
    /\ Bridge!Goto("load")

Denials ==
    /\ This \in raced /\ pc = "materialize"
    /\ Bridge!May("mkstemp")
    /\ UNCHANGED files
    /\ Bridge!Leave("down")

(* What a system call does to the path of the process.                     *)
LEMMA Calls ==
    ASSUME DetailedConstants, Joint, Call
    PROVE  /\ Comes \in Store!Labels \ {"idle", "exists"}
           /\ \A p \in Processes \ {This} : calls'[p] = calls[p]
           /\ UNCHANGED <<path, want>>
           /\ Goes = "cleanup" => Comes \in {"failed", "dead"}
           /\ ~Store!Replace(This) => UNCHANGED <<target, raced>>
           /\ Store!Replace(This) => Goes = "replace" /\ Comes = "stored"
           /\ Comes = "stored" =>
                 Store!Replace(This) \/ (Goes = "read" /\ Store!Holds(This) /\ UNCHANGED target)
  BY DEF DetailedConstants, Goes, Comes, Call, Joint, Store!FileInv, Store!TypeOK,
         Store!Labels, Store!Look, Store!Read, Store!MakeDirectory, Store!MakeTemp, Store!Write, Store!Sync,
         Store!Replace, Store!ReplaceFails, Store!CleanUp, Store!Die, Store!At, Store!Goto

(* Every outcome of a system call is a step of MatchBridge, or none, or    *)
(* due to another process.                                                 *)
LEMMA Outcome ==
    ASSUME DetailedConstants, Joint, Materialize
    PROVE  \/ Bridge!WriteConfig \/ Bridge!ReuseConfig \/ Bridge!MaterializeFails
           \/ Bridge!TempFileDenied \/ Bridge!Crash
           \/ Overwrites \/ Denials
           \/ UNCHANGED <<cycle, files, raced>>
<1> USE DEF DetailedConstants, Materialize, outside, Bridge!central, Bridge!host
<1>1. Goes = "cleanup" \/ pc = "materialize"
  BY DEF Joint
<1>2. ~Store!Replace(This) => UNCHANGED <<target, raced>>
  BY Calls
<1>3. Store!Replace(This) => Goes = "replace" /\ Comes = "stored"
  BY Calls
<1>4. CASE Returns
  <2>1. \/ Store!Replace(This)
        \/ Goes = "read" /\ Store!Holds(This) /\ UNCHANGED target
    BY <1>4, Calls DEF Returns
  <2>2. pc = "materialize"
    BY <1>1, <1>3, <2>1
  <2>3. CASE Store!Replace(This) /\ This \notin raced
    <3>1. Bridge!WriteConfig
      BY <1>4, <2>2, <2>3, Replacement DEF Returns, Bridge!WriteConfig
    <3>2. QED
      BY <3>1
  <2>4. CASE Store!Replace(This) /\ This \in raced
    BY <1>4, <2>2, <2>4, Replacement DEF Returns, Overwrites
  <2>5. CASE Goes = "read" /\ Store!Holds(This) /\ UNCHANGED target
    <3>1. Bridge!OnDisk = Bridge!Config(claim)
      BY <2>2, <2>5, FileOfClaim DEF Joint, Store!Holds
    <3>2. Bridge!ReuseConfig
      BY <1>4, <2>2, <2>5, <3>1, FilesOfOthers DEF Returns, Bridge!ReuseConfig
    <3>3. QED
      BY <3>2
  <2>6. QED
    BY <2>1, <2>3, <2>4, <2>5
<1>5. CASE Raises
  <2>1. pc = "materialize" /\ UNCHANGED files
    BY <1>1, <1>2, <1>3, <1>5, FilesOfOthers DEF Raises
  <2>2. Goes = "read" /\ ~Store!Holds(This) => Bridge!OnDisk \notin {Null, Bridge!Config(claim)}
    <3>1. ASSUME Goes = "read" PROVE target[path[This]] # Null
      BY <3>1 DEF Joint, Store!FileInv, Store!Looks, Goes
    <3>2. ASSUME target[path[This]] \in Store!File
          PROVE  target[path[This]].data # Null
      BY <3>2 DEF Store!File, Bridge!BridgeConstants, Bridge!Configs
    <3>3. QED
      BY <2>1, <3>1, <3>2, FileOfClaim DEF Joint, Store!Holds
  <2>3. Bridge!MaterializeFails
    BY <1>5, <2>1, <2>2 DEF Raises, Bridge!MaterializeFails
  <2>4. QED
    BY <2>3
<1>6. CASE Exits
  <2>1. pc # "down" /\ UNCHANGED files
    BY <1>1, <1>2, <1>3, <1>6, FilesOfOthers DEF Exits, Joint
  <2>2. CASE Bridge!May("crash")
    BY <1>6, <2>1, <2>2 DEF Exits, Bridge!Crash
  <2>3. CASE Goes = "mkstemp" /\ Bridge!May("mkstemp")
    <3>1. pc = "materialize"
      BY <1>1, <2>3
    <3>2. This \notin raced => target[path[This]] = Null
      BY <2>3 DEF Joint, Store!FileInv, Store!Looks, Goes
    <3>3. This \notin raced => Bridge!TempFileDenied
      BY <1>6, <2>1, <2>3, <3>1, <3>2, FileOfClaim DEF Exits, Bridge!TempFileDenied
    <3>4. This \in raced => Denials
      BY <1>6, <2>1, <2>3, <3>1 DEF Exits, Denials
    <3>5. QED
      BY <3>3, <3>4
  <2>4. QED
    BY <1>6, <2>2, <2>3 DEF Exits
<1>7. CASE GoesOn
  BY <1>2, <1>3, <1>7, FilesOfOthers DEF GoesOn
<1>8. QED
  BY <1>4, <1>5, <1>6, <1>7

-----------------------------------------------------------------------------
(* The cycle and its materializer stay in step.                            *)
LEMMA BeginKeepsJoint ==
    ASSUME DetailedConstants, Joint, Claimed, MarkApplying
    PROVE  Joint'
<1> USE DEF DetailedConstants
<1>1. <<claim.server, claim.match>> \in Servers \X Matches /\ Bridge!Config(claim) \in Bridge!Configs
  BY Called DEF MarkApplying
<1>2. Store!FileInv'
  BY <1>1, StoreStep DEF MarkApplying, Joint
<1>3. /\ calls'[This] = "exists" /\ raced' = raced \ {This}
      /\ path'[This] = <<claim.server, claim.match>>
      /\ want'[This] = Bridge!Config(claim)
  BY <1>1 DEF MarkApplying, Joint, Store!FileInv, Store!TypeOK, Store!Begin, Store!Goto
<1>4. pc' = "materialize" /\ claim' = claim
  BY DEF MarkApplying, Bridge!MarkApplying, Bridge!Goto
<1>5. QED
  BY <1>2, <1>3, <1>4 DEF Joint, Goes, Store!AtWork, Bridge!Config

LEMMA CallKeepsJoint ==
    ASSUME DetailedConstants, Joint, Materialize
    PROVE  Joint'
<1> USE DEF DetailedConstants
<1>1. Store!FileInv'
  BY StoreStep DEF Materialize, Joint
<1>2. raced' = raced \/ raced' = raced \cup Store!Overtaken(This)
  BY Calls DEF Materialize, Store!Replace
<1>3. Store!Overtaken(This) \subseteq Processes \ {This}
  BY DEF Store!Overtaken
<1>4. (This \in raced' => This \in raced) /\ (Processes = {This} => raced' = {})
  BY <1>2, <1>3 DEF Joint
<1>5. pc = IF Goes = "cleanup" THEN "fail" ELSE "materialize"
  BY DEF Materialize, Joint
<1>6. CASE Returns \/ Raises \/ Exits
  <2>1. pc' # "materialize" /\ (Comes = "cleanup" => pc' = "fail")
    BY <1>6 DEF Returns, Raises, Exits, Bridge!Goto, Bridge!Leave
  <2>2. Comes \notin {"stored", "failed", "dead"} => Comes = "cleanup" /\ UNCHANGED target
    BY <1>6, Calls DEF Materialize, Returns, Raises, Exits
  <2>3. UNCHANGED path
    BY Calls DEF Materialize
  <2>4. QED
    BY <1>1, <1>4, <2>1, <2>2, <2>3 DEF Materialize, Joint, Goes, Comes, Store!AtWork
<1>7. CASE GoesOn
  <2>1. /\ UNCHANGED <<path, want, target, pc, claim>>
        /\ Comes \in Store!Labels \ {"idle", "exists", "cleanup", "stored", "dead"}
        /\ Comes = "failed" <=> Goes = "cleanup"
    BY <1>7, Calls DEF Materialize, GoesOn, cycle
  <2>2. QED
    BY <1>1, <1>4, <1>5, <2>1
       DEF Materialize, Joint, Goes, Comes, Store!AtWork, Store!Labels, Bridge!Config
<1>8. QED
  BY <1>6, <1>7 DEF Materialize

LEMMA ElsewhereKeepsJoint ==
    ASSUME DetailedConstants, Joint, UNCHANGED store,
           \/ UNCHANGED cycle
           \/ ~Store!AtWork(This) /\ pc' # "materialize"
    PROVE  Joint'
<1>1. Store!FileInv'
  BY StoreStep DEF Joint
<1>2. QED
  BY <1>1 DEF Joint, cycle, store, Goes, Store!AtWork, Bridge!Config

(* What this process leaves of the others' work, and of the files.         *)
LEMMA StoreOfOthers ==
    ASSUME DetailedConstants, Joint, Claimed,
           MarkApplying \/ Materialize \/ UNCHANGED store,
           NEW p \in Processes \ {This}
    PROVE  /\ calls'[p] = calls[p] /\ path'[p] = path[p] /\ want'[p] = want[p]
           /\ target[path[p]] # Null => target'[path[p]] # Null
           /\ p \in raced' => p \in raced \/ target'[path[p]] # Null
<1> USE DEF DetailedConstants
<1>1. /\ path \in [Processes -> Servers \X Matches] /\ want \in [Processes -> Bridge!Configs]
      /\ calls \in [Processes -> Store!Labels]
      /\ target \in [Servers \X Matches -> Store!File \cup {Null}]
  BY DEF Joint, Store!FileInv, Store!TypeOK
<1>2. CASE MarkApplying
  BY <1>1, <1>2 DEF MarkApplying, Store!Begin, Store!Goto
<1>3. CASE Materialize
  <2>1. calls'[p] = calls[p] /\ UNCHANGED <<path, want>>
    BY <1>3, Calls DEF Materialize
  <2>2. CASE Store!Replace(This)
    <3>1. temp[This] # Null
      BY <2>2 DEF Joint, Store!FileInv, Store!Temps, Store!Replace, Store!At
    <3>2. target' = [target EXCEPT ![path[This]] = temp[This]]
          /\ raced' = raced \cup Store!Overtaken(This)
      BY <2>2 DEF Store!Replace
    <3>3. p \in Store!Overtaken(This) => path[p] = path[This]
      BY DEF Store!Overtaken
    <3>4. QED
      BY <1>1, <2>1, <3>1, <3>2, <3>3
  <2>3. CASE ~Store!Replace(This)
    BY <1>3, <2>1, <2>3, Calls DEF Materialize
  <2>4. QED
    BY <2>2, <2>3
<1>4. CASE UNCHANGED store
  BY <1>4 DEF store
<1>5. QED
  BY <1>2, <1>3, <1>4

(* Another process at work leaves this one where it is.                    *)
LEMMA OtherKeepsJoint ==
    ASSUME Joint, Store!FileInv', Processes # {This}, UNCHANGED cycle,
           calls'[This] = calls[This], path'[This] = path[This], want'[This] = want[This],
           target[path[This]] # Null => target'[path[This]] # Null,
           This \in raced' => This \in raced \/ target'[path[This]] # Null
    PROVE  Joint'
  BY DEF Joint, cycle, Goes, Store!AtWork, Bridge!Config

(***************************************************************************)
(* Alone.                                                                  *)
(***************************************************************************)

(* P is an instance of the module Bridge is an instance of.                *)
P == INSTANCE MatchBridge_proofs

LEMMA ConstantsP == ASSUME DetailedConstants PROVE P!BridgeConstants
  BY DEF DetailedConstants, Bridge!BridgeConstants, P!BridgeConstants, Bridge!OfferRecord,
         P!OfferRecord, Bridge!FaultKinds, P!FaultKinds

LEMMA StepOfBridge ==
    ASSUME \/ Bridge!Restart
           \/ \E o \in Offers : Bridge!Claim(o)
           \/ Bridge!Proceed
           \/ Bridge!Fail
    PROVE  P!Next
  BY DEF P!Next, Bridge!Restart, P!Restart, Bridge!Claim, P!Claim, Bridge!Claimable,
         P!Claimable, Bridge!Proceed, P!Proceed, Bridge!Fail, P!Fail, Bridge!Leave, P!Leave,
         Bridge!Goto, P!Goto, Bridge!Record, P!Record, Bridge!Launch, P!Launch,
         Bridge!Conclude, P!Conclude, Bridge!Message, P!Message, Bridge!Accept, P!Accept,
         Bridge!May, P!May, Bridge!Identity, P!Identity, Bridge!Config, P!Config,
         Bridge!OnDisk, P!OnDisk, Bridge!Refused, P!Refused, Bridge!Dispatch, P!Dispatch,
         Bridge!NotAllowed, P!NotAllowed, Bridge!EvidenceMissing, P!EvidenceMissing,
         Bridge!central, P!central, Bridge!host, P!host, Bridge!bridge, P!bridge,
         Bridge!ObserveRefused, P!ObserveRefused, Bridge!Observe, P!Observe,
         Bridge!MarkApplying, P!MarkApplying, Bridge!WriteConfig, P!WriteConfig,
         Bridge!ReuseConfig, P!ReuseConfig, Bridge!MaterializeFails, P!MaterializeFails,
         Bridge!LoadSent, P!LoadSent, Bridge!ReadArtifact, P!ReadArtifact,
         Bridge!ReadStatus, P!ReadStatus, Bridge!ReadGet5, P!ReadGet5,
         Bridge!InspectAgain, P!InspectAgain, Bridge!GiveUp, P!GiveUp,
         Bridge!MarkSucceeded, P!MarkSucceeded, Bridge!MarkFailed, P!MarkFailed,
         Bridge!SubmitResult, P!SubmitResult, Bridge!SubmitRefused, P!SubmitRefused,
         Bridge!ClaimResponseLost, P!ClaimResponseLost, Bridge!JournalRaises,
         P!JournalRaises, Bridge!TempFileDenied, P!TempFileDenied, Bridge!LoadUncertain,
         P!LoadUncertain, Bridge!LoadNotLaunched, P!LoadNotLaunched,
         Bridge!LoadReplyUndecodable, P!LoadReplyUndecodable, Bridge!CrashWhileLoading,
         P!CrashWhileLoading, Bridge!SubmitUnanswered, P!SubmitUnanswered, Bridge!Crash,
         P!Crash, Bridge!Conflicts, P!Conflicts, Bridge!Observed, P!Observed,
         Bridge!MayApply, P!MayApply, Bridge!Applied, P!Applied, Bridge!MayComplete,
         P!MayComplete, Bridge!Completed, P!Completed, Bridge!Terminal, P!Terminal

LEMMA StepOfEnvironment == ASSUME Bridge!Environment PROVE P!Next
  BY DEF Bridge!Environment, P!Next, P!Environment, Bridge!AtWork, P!AtWork,
         Bridge!central, P!central, Bridge!host, P!host, Bridge!bridge, P!bridge,
         Bridge!LeaseExpires, P!LeaseExpires, Bridge!DeliverLate, P!DeliverLate,
         Bridge!ServerLoads, P!ServerLoads, Bridge!ServerDropsLoad, P!ServerDropsLoad,
         Bridge!ServerChangesMap, P!ServerChangesMap,
         Bridge!ServerWritesNames, P!ServerWritesNames, Bridge!ServerResets, P!ServerResets,
         Bridge!Accept, P!Accept, Bridge!Calm, P!Calm

LEMMA NextOfBridge == [Bridge!Next]_(Bridge!vars) => [P!Next]_(P!vars)
  BY StepOfBridge, StepOfEnvironment
     DEF Bridge!Next, Bridge!vars, P!vars, Bridge!bridge, P!bridge, Bridge!central,
         P!central, Bridge!host, P!host

LEMMA InitOfBridge == Bridge!Init => P!Init
  BY DEF Bridge!Init, P!Init, Bridge!NoRow, P!NoRow

-----------------------------------------------------------------------------
(* The cycle is as MatchBridge has it, and the materializer is where the   *)
(* cycle takes it to be.                                                   *)
DetailedInv == P!Inductive /\ Joint

LEMMA StepSimulates ==
    ASSUME DetailedConstants, Processes = {This}, Joint, [Next]_vars
    PROVE  [Bridge!Next]_(Bridge!vars)
<1>1. CASE UNCHANGED vars
  BY <1>1, FilesOfOthers
     DEF vars, cycle, outside, store, Bridge!vars, Bridge!bridge, Bridge!central, Bridge!host
<1>2. CASE MarkApplying
  BY <1>2 DEF MarkApplying, Bridge!Next, Bridge!Proceed
<1>3. CASE Materialize
  <2>1. ~Overwrites /\ ~Denials
    BY DEF Joint, Overwrites, Denials
  <2>2. UNCHANGED <<cycle, files, raced>> => UNCHANGED Bridge!vars
    BY <1>3
       DEF Materialize, cycle, outside, Bridge!vars, Bridge!bridge, Bridge!central, Bridge!host
  <2>3. QED
    BY <1>3, <2>1, <2>2, Outcome DEF Bridge!Next, Bridge!Proceed, Bridge!Fail
<1>4. CASE Elsewhere
  BY <1>4 DEF Elsewhere, Bridge!Next
<1>5. CASE Environment
  BY <1>5 DEF Environment, Bridge!Next
<1>6. QED
  BY <1>1, <1>2, <1>3, <1>4, <1>5 DEF Next, Step

LEMMA JointStep ==
    ASSUME DetailedConstants, P!Inductive, Joint, [Next]_vars
    PROVE  Joint'
<1>1. Claimed
  BY DEF Claimed, P!Inductive, P!TypeOK, P!Working
<1>2. CASE UNCHANGED vars
  BY <1>2, ElsewhereKeepsJoint DEF vars
<1>3. CASE MarkApplying
  BY <1>1, <1>3, BeginKeepsJoint
<1>4. CASE Materialize
  BY <1>4, CallKeepsJoint
<1>5. CASE Elsewhere
  BY <1>5, ElsewhereKeepsJoint DEF Elsewhere
<1>6. CASE Environment
  <2>1. UNCHANGED cycle
    BY <1>6
       DEF Environment, Bridge!Environment, Bridge!LeaseExpires, Bridge!DeliverLate,
           Bridge!ServerLoads, Bridge!ServerDropsLoad, Bridge!ServerChangesMap,
           Bridge!ServerWritesNames, Bridge!ServerResets, Bridge!Calm, Bridge!bridge, cycle
  <2>2. QED
    BY <1>6, <2>1, ElsewhereKeepsJoint DEF Environment
<1>7. QED
  BY <1>2, <1>3, <1>4, <1>5, <1>6 DEF Next, Step

LEMMA InitDetailed == ASSUME DetailedConstants, Init PROVE DetailedInv
<1>1. P!Inductive
  BY ConstantsP, InitOfBridge, P!InitInductive DEF Init
<1>2. F!Init
  BY DEF Init, Store!Init, F!Init
<1>3. Store!FileInv
  BY <1>2, ConstantsF, F!InitFile, FilesOfStore
<1>4. QED
  BY <1>1, <1>3
     DEF DetailedConstants, DetailedInv, Joint, Init, Store!Init, Bridge!Init, Store!AtWork, Goes

(* The cycle knows where its materializer is, and both invariants hold.    *)
THEOREM DetailedInvariant ==
    ASSUME DetailedConstants, Processes = {This}
    PROVE  Spec => []DetailedInv
<1>1. DetailedInv /\ [Next]_vars => DetailedInv'
  <2>1. SUFFICES ASSUME P!Inductive, Joint, [Next]_vars PROVE P!Inductive' /\ Joint'
    BY DEF DetailedInv
  <2>2. P!Inductive'
    BY <2>1, StepSimulates, NextOfBridge, ConstantsP, P!StepInductive
  <2>3. QED
    BY <2>1, <2>2, JointStep
<1>2. QED
  BY <1>1, InitDetailed, PTL DEF Spec

THEOREM JointInvariant ==
    ASSUME DetailedConstants, Processes = {This}
    PROVE  Spec => []Joint
<1>1. DetailedInv => Joint
  BY DEF DetailedInv
<1>2. QED
  BY <1>1, DetailedInvariant, PTL

(* Taking the materializer for one step loses none of its behaviours.      *)
THEOREM DetailedImplements ==
    ASSUME DetailedConstants, Processes = {This}
    PROVE  Spec => ImplementsBridge
<1>1. Init => Bridge!Init
  BY DEF Init
<1>2. DetailedInv /\ [Next]_vars => [Bridge!Next]_(Bridge!vars)
  BY StepSimulates DEF DetailedInv
<1>3. QED
  BY <1>1, <1>2, DetailedInvariant, PTL DEF Spec, Bridge!Spec, ImplementsBridge

(* Every load that is under way finds its file in place and complete.      *)
THEOREM LoadsFindTheirFiles ==
    ASSUME DetailedConstants, Processes = {This}
    PROVE  Spec => []LoadsFindFiles
<1>1. DetailedInv => LoadsFindFiles
  <2>1. SUFFICES ASSUME P!Inductive, Joint, NEW l \in loads
                 PROVE  /\ target[<<l.server, l.match>>] # Null
                        /\ target[<<l.server, l.match>>].whole
                        /\ target[<<l.server, l.match>>].synced
    BY DEF DetailedInv, LoadsFindFiles
  <2>2. l.server \in Servers /\ l.match \in Matches
    BY <2>1 DEF P!Inductive, P!TypeOK
  <2>3. files[l.server][l.match] # Null
    BY <2>1 DEF P!Inductive, P!Shared, P!Sent
  <2>4. target[<<l.server, l.match>>] # Null
    BY <2>2, <2>3 DEF files
  <2>5. QED
    BY <2>1, <2>2, <2>4 DEF Joint, Store!FileInv, Store!Named
<1>2. QED
  BY <1>1, DetailedInvariant, PTL

(* What MatchBridge promises, the cycle keeps with every system call in it.*)
THEOREM DetailedKeepsPromises ==
    ASSUME DetailedConstants, Processes = {This}
    PROVE  Spec =>
            /\ []Bridge!AtMostOneLaunch
            /\ []Bridge!OneTruth
            /\ []Bridge!PreparedMeansRosterLoaded
            /\ Bridge!ConfigNeverRewritten
<1>1. DetailedInv => /\ Bridge!AtMostOneLaunch /\ Bridge!OneTruth
                     /\ Bridge!PreparedMeansRosterLoaded
  BY DEF DetailedInv, P!Inductive, P!Shared, P!Kept, P!AtMostOneLaunch,
         Bridge!AtMostOneLaunch,
         P!OneTruth, Bridge!OneTruth, P!Told, Bridge!Told,
         P!PreparedMeansRosterLoaded, Bridge!PreparedMeansRosterLoaded,
         P!LaunchedFor, Bridge!LaunchedFor, P!Identity, Bridge!Identity
<1>2. DetailedInv /\ [Next]_vars =>
        [\A s \in Servers, m \in Matches :
            files[s][m] # Null => files'[s][m] = files[s][m]]_(Bridge!vars)
  BY StepSimulates, NextOfBridge, ConstantsP, P!FilesStay DEF DetailedInv, P!Inductive
<1>3. QED
  BY <1>1, <1>2, DetailedInvariant, PTL DEF Spec, Bridge!ConfigNeverRewritten
=============================================================================
