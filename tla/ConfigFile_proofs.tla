-------------------------- MODULE ConfigFile_proofs --------------------------
(***************************************************************************)
(* For any number of bridges, names and contents: a configuration is whole  *)
(* whenever it is there, a bridge that goes on to the load put it there or *)
(* was overtaken, and only one that was overtaken replaces it.             *)
(***************************************************************************)
EXTENDS ConfigFile, TLAPS

LEMMA InitFile == Init => FileInv
  BY FileConstants
     DEF FileConstants, Init, FileInv, TypeOK, Labels, Temps, Named, Looks

LEMMA TypeStep == TypeOK /\ Temps /\ [Next]_vars => TypeOK'
<1> SUFFICES ASSUME TypeOK, Temps, [Next]_vars PROVE TypeOK'
  OBVIOUS
<1> USE FileConstants DEF FileConstants, TypeOK, Labels
<1>1. CASE UNCHANGED vars
  BY <1>1 DEF vars
<1>2. ASSUME NEW b \in Bridges, NEW n \in Paths, NEW content \in Contents,
             Begin(b, n, content)
      PROVE  TypeOK'
  BY <1>2 DEF Begin, Goto
<1>3. ASSUME NEW b \in Bridges, Look(b) \/ Read(b) \/ MakeDirectory(b) \/ ReplaceFails(b) \/ Die(b)
      PROVE  TypeOK'
  BY <1>3 DEF Look, Read, MakeDirectory, ReplaceFails, Die, Goto
<1>4. ASSUME NEW b \in Bridges, MakeTemp(b)
      PROVE  TypeOK'
  <2>1. [data |-> want[b], whole |-> FALSE, synced |-> FALSE] \in File
    BY DEF File
  <2>2. QED
    BY <1>4, <2>1 DEF MakeTemp, Goto
<1>5. ASSUME NEW b \in Bridges, Write(b) \/ Sync(b)
      PROVE  TypeOK'
  <2>1. temp[b] \in File
    BY <1>5 DEF Write, Sync, Temps, At
  <2>2. [temp[b] EXCEPT !.whole = TRUE] \in File /\ [temp[b] EXCEPT !.synced = TRUE] \in File
    BY <2>1 DEF File
  <2>3. QED
    BY <1>5, <2>2 DEF Write, Sync, Goto
<1>6. ASSUME NEW b \in Bridges, Replace(b) \/ CleanUp(b)
      PROVE  TypeOK'
  <2>1. temp[b] # Null => temp[b] \in File
    OBVIOUS
  <2>2. At(b, "replace") => target' \in [Paths -> File \cup {Null}] \/ target' = target
    BY <1>6 DEF Replace, CleanUp, At
  <2>3. Overtaken(b) \subseteq Bridges
    BY DEF Overtaken
  <2>4. QED
    BY <1>6, <2>2, <2>3 DEF Replace, CleanUp, Goto
<1>7. CASE \E n \in Paths : Flush(n)
  BY <1>7 DEF Flush
<1>8. CASE PowerFails
  <2>1. ASSUME NEW file \in File PROVE [file EXCEPT !.whole = FALSE] \in File
    BY DEF File
  <2>2. ASSUME NEW n \in Paths PROVE Remains(disk[n]) \subseteq File \cup {Null}
    BY <2>1 DEF Remains
  <2>3. target' \in [Paths -> File \cup {Null}]
    BY <1>8, <2>2, Zenon DEF PowerFails
  <2>4. QED
    BY <1>8, <2>3 DEF PowerFails
<1>9. QED
  BY <1>1, <1>2, <1>3, <1>4, <1>5, <1>6, <1>7, <1>8 DEF Next, Step

(* A bridge at work on its temporary file is the only one that touches it. *)
LEMMA TempsStep == TypeOK /\ Temps /\ [Next]_vars => Temps'
<1> SUFFICES ASSUME TypeOK, Temps, [Next]_vars PROVE Temps'
  OBVIOUS
<1> USE FileConstants DEF FileConstants, TypeOK, Temps
<1>1. CASE UNCHANGED vars \/ \E n \in Paths : Flush(n)
  BY <1>1 DEF vars, Flush
<1>2. CASE PowerFails
  BY <1>2 DEF PowerFails
<1>3. ASSUME NEW b \in Bridges, Step(b)
      PROVE  Temps'
  <2>1. CASE \E n \in Paths, content \in Contents : Begin(b, n, content)
    BY <2>1 DEF Begin, Goto
  <2>2. CASE Look(b) \/ Read(b) \/ MakeDirectory(b) \/ ReplaceFails(b) \/ Die(b)
    BY <2>2 DEF Look, Read, MakeDirectory, ReplaceFails, Die, Goto
  <2>3. CASE MakeTemp(b)
    <3> DEFINE new == [data |-> want[b], whole |-> FALSE, synced |-> FALSE]
    <3>1. new \in File
      BY DEF File
    <3>2. CASE temp' = [temp EXCEPT ![b] = new] /\ Goto(b, "write")
      BY <3>1, <3>2, <2>3 DEF MakeTemp, Goto
    <3>3. CASE Goto(b, "dead") /\ UNCHANGED temp
      BY <3>3, <2>3 DEF MakeTemp, Goto
    <3>4. QED
      BY <3>2, <3>3, <2>3 DEF MakeTemp
  <2>4. CASE Write(b) \/ Sync(b)
    <3>1. temp[b] \in File
      BY <2>4 DEF Write, Sync, At
    <3> DEFINE written == [temp[b] EXCEPT !.whole = TRUE]
               synced == [temp[b] EXCEPT !.synced = TRUE]
    <3>2. /\ written \in File /\ written.data = temp[b].data /\ written.whole
          /\ synced \in File /\ synced.data = temp[b].data /\ synced.whole = temp[b].whole
          /\ synced.synced
      BY <3>1 DEF File
    <3>3. CASE temp' = [temp EXCEPT ![b] = written] /\ Goto(b, "fsync") /\ At(b, "write")
      BY <3>2, <3>3, <2>4 DEF Write, Sync, Goto, At
    <3>4. CASE temp' = [temp EXCEPT ![b] = synced] /\ Goto(b, "replace") /\ At(b, "fsync")
      BY <3>2, <3>4, <2>4 DEF Write, Sync, Goto, At
    <3>5. CASE UNCHANGED temp /\ Goto(b, "cleanup")
      BY <3>5, <2>4 DEF Write, Sync, Goto
    <3>6. QED
      BY <3>3, <3>4, <3>5, <2>4 DEF Write, Sync
  <2>5. CASE Replace(b) \/ CleanUp(b)
    BY <2>5 DEF Replace, CleanUp, Goto
  <2>6. QED
    BY <1>3, <2>1, <2>2, <2>3, <2>4, <2>5 DEF Step
<1>4. QED
  BY <1>1, <1>2, <1>3 DEF Next

(* Whatever gets the name was written and synced before.                   *)
LEMMA NamedStep == TypeOK /\ Temps /\ Named /\ [Next]_vars => Named'
<1> SUFFICES ASSUME TypeOK, Temps, Named, [Next]_vars PROVE Named'
  OBVIOUS
<1>1. CASE UNCHANGED <<target, disk>>
  BY <1>1 DEF Named
<1>2. ASSUME NEW n \in Paths, Flush(n)
      PROVE  Named'
  BY <1>2 DEF Flush, Named, TypeOK
<1>3. CASE PowerFails
  <2>1. \A n \in Paths : target'[n] = disk[n]
    BY <1>3 DEF PowerFails, Remains, Named
  <2>2. disk' = target'
    BY <1>3 DEF PowerFails
  <2>3. QED
    BY <2>1, <2>2 DEF Named
<1>4. ASSUME NEW b \in Bridges, Replace(b)
      PROVE  Named'
  <2>1. temp[b].whole /\ temp[b].synced
    BY <1>4 DEF Replace, At, Temps
  <2>2. \A n \in Paths : target'[n] \in {target[n], temp[b]} /\ disk'[n] = disk[n]
    BY <1>4 DEF Replace, TypeOK
  <2>3. QED
    BY <2>1, <2>2 DEF Named
<1>5. QED
  BY <1>1, <1>2, <1>3, <1>4
     DEF Next, vars, Step, Begin, Look, Read, MakeDirectory, MakeTemp, Write, Sync,
         ReplaceFails, CleanUp, Die

(* What a bridge saw when it looked is still so, unless another bridge     *)
(* overtook it: nobody else changes what has the name.                     *)
LEMMA LooksStep == TypeOK /\ Temps /\ Looks /\ [Next]_vars => Looks'
<1> SUFFICES ASSUME TypeOK, Temps, Looks, [Next]_vars PROVE Looks'
  OBVIOUS
<1> USE DEF TypeOK, Looks
<1>1. CASE UNCHANGED vars \/ \E n \in Paths : Flush(n)
  BY <1>1 DEF vars, Flush
<1>2. CASE PowerFails
  BY <1>2 DEF PowerFails
<1>3. ASSUME NEW b \in Bridges, Step(b)
      PROVE  Looks'
  <2>1. CASE \E n \in Paths, content \in Contents : Begin(b, n, content)
    BY <2>1 DEF Begin, Goto
  <2>2. CASE Look(b)
    BY <2>2 DEF Look, Goto, At
  <2>3. CASE Read(b) \/ MakeDirectory(b) \/ ReplaceFails(b) \/ Die(b)
    BY <2>3 DEF Read, MakeDirectory, ReplaceFails, Die, Goto, At
  <2>4. CASE MakeTemp(b) \/ Write(b) \/ Sync(b) \/ CleanUp(b)
    BY <2>4 DEF MakeTemp, Write, Sync, CleanUp, Goto, At
  <2>5. CASE Replace(b)
    <3>1. \A n \in Paths \ {path[b]} : target'[n] = target[n]
      BY <2>5 DEF Replace
    <3>2. CASE temp[b] = target[path[b]]
      <4>1. target' = target /\ raced' = raced
        BY <2>5, <3>2 DEF Replace, Overtaken
      <4>2. QED
        BY <2>5, <4>1 DEF Replace, Goto
    <3>3. CASE temp[b] # target[path[b]]
      <4>1. \A a \in Bridges \ {b} : AtWork(a) /\ path[a] = path[b] => a \in raced'
        BY <2>5, <3>3 DEF Replace, Overtaken
      <4>2. QED
        BY <2>5, <3>1, <4>1 DEF Replace, Goto, AtWork
    <3>4. QED
      BY <3>2, <3>3
  <2>6. QED
    BY <1>3, <2>1, <2>2, <2>3, <2>4, <2>5 DEF Step
<1>4. QED
  BY <1>1, <1>2, <1>3 DEF Next

(* Between two calls of the materializer, whatever other bridges do and    *)
(* whenever power fails, a bridge can rely on FileInv.                     *)
THEOREM MaterializerInvariant == Spec => []FileInv
<1>1. FileInv /\ [Next]_vars => FileInv'
  BY TypeStep, TempsStep, NamedStep, LooksStep DEF FileInv
<1>2. QED
  BY <1>1, InitFile, PTL DEF Spec

(* A configuration that has its name is whole, also after a power failure. *)
THEOREM NeverHalfAFile == Spec => []TargetIsWhole
<1>1. FileInv => TargetIsWhole
  BY DEF FileInv, Named, TargetIsWhole
<1>2. QED
  BY <1>1, MaterializerInvariant, PTL

(* A bridge that goes on to the load finds its content under the name, or  *)
(* was overtaken.                                                          *)
THEOREM StoredIsThere == Spec => StoredMeansThere
<1>1. FileInv /\ [Next]_vars =>
        [\A b \in Bridges : pc[b] # "stored" /\ pc'[b] = "stored" =>
            \/ Holds(b)'
            \/ b \in raced]_vars
  <2>1. SUFFICES ASSUME FileInv, [Next]_vars, NEW b \in Bridges,
                        pc[b] # "stored", pc'[b] = "stored"
                 PROVE  Holds(b)'
    OBVIOUS
  <2>2. Read(b) \/ Replace(b)
    BY <2>1 DEF FileInv, TypeOK, Next, vars, Step, Begin, Look, Read, MakeDirectory, MakeTemp,
                Write, Sync, Replace, ReplaceFails, CleanUp, Die, Flush, PowerFails, Goto
  <2>3. CASE Read(b)
    BY <2>1, <2>3 DEF Read, Goto, FileInv, TypeOK, Holds
  <2>4. CASE Replace(b)
    <3>1. target'[path[b]] = temp[b] /\ UNCHANGED <<path, want>>
      BY <2>1, <2>4 DEF Replace, FileInv, TypeOK
    <3>2. temp[b] # Null /\ temp[b].data = want[b]
      BY <2>1, <2>4 DEF Replace, At, FileInv, Temps
    <3>3. QED
      BY <3>1, <3>2 DEF Holds
  <2>5. QED
    BY <2>2, <2>3, <2>4
<1>2. QED
  BY <1>1, MaterializerInvariant, PTL DEF Spec, StoredMeansThere

(* A name gets another file by the replacement of a bridge at it, or when  *)
(* the power fails.                                                        *)
LEMMA TargetChanges ==
    ASSUME TypeOK, [Next]_vars, NEW n \in Paths, target'[n] # target[n]
    PROVE  \/ PowerFails
           \/ \E b \in Bridges : Replace(b) /\ path[b] = n
<1>1. target' = target \/ PowerFails \/ \E b \in Bridges : Replace(b)
  BY DEF Next, vars, Step, Begin, Look, Read, MakeDirectory, MakeTemp, Write, Sync,
         ReplaceFails, CleanUp, Die, Flush
<1>2. ASSUME NEW b \in Bridges, Replace(b)
      PROVE  path[b] = n
  BY <1>2 DEF Replace, TypeOK
<1>3. QED
  BY <1>1, <1>2

(* Only a bridge that was overtaken finds another file when it replaces.   *)
LEMMA ReplacerRaced ==
    ASSUME TypeOK, Looks, NEW b \in Bridges, Replace(b), target[path[b]] # Null
    PROVE  b \in raced
  BY DEF Replace, At, Looks

(* What is there is replaced by a bridge that was overtaken, or by what    *)
(* the disk had when the power failed.                                     *)
THEOREM OnlyRacersReplace == Spec => OnlyRacersOverwrite
<1>1. FileInv /\ [Next]_vars =>
        [\A n \in Paths : target[n] # Null /\ target'[n] # target[n] =>
            \/ \E b \in raced : pc[b] = "replace" /\ path[b] = n
            \/ \A b \in Bridges : pc'[b] = "dead"]_vars
  <2>1. SUFFICES ASSUME FileInv, [Next]_vars, NEW n \in Paths,
                        target[n] # Null, target'[n] # target[n]
                 PROVE  \/ \E b \in raced : pc[b] = "replace" /\ path[b] = n
                        \/ \A b \in Bridges : pc'[b] = "dead"
    OBVIOUS
  <2>2. CASE PowerFails
    BY <2>2 DEF PowerFails
  <2>3. ASSUME NEW b \in Bridges, Replace(b), path[b] = n
        PROVE  \E a \in raced : pc[a] = "replace" /\ path[a] = n
    BY <2>1, <2>3, ReplacerRaced DEF Replace, At, FileInv
  <2>4. QED
    BY <2>1, <2>2, <2>3, TargetChanges DEF FileInv
<1>2. QED
  BY <1>1, MaterializerInvariant, PTL DEF Spec, OnlyRacersOverwrite

-----------------------------------------------------------------------------
(* One bridge alone is never overtaken.                                    *)
NoneRaced == raced = {}

(* A single bridge never replaces a configuration that is there: this is   *)
(* what MatchBridge assumes of its step WriteConfig.                       *)
THEOREM SoleBridgeKeepsFile ==
    ASSUME \A a, b \in Bridges : a = b
    PROVE  Spec => [][\A n \in Paths : target[n] # Null /\ target'[n] # target[n] =>
                          \A b \in Bridges : pc'[b] = "dead"]_vars
<1>1. Init => NoneRaced
  BY DEF Init, NoneRaced
<1>2. NoneRaced /\ [Next]_vars => NoneRaced'
  BY DEF NoneRaced, Next, vars, Step, Begin, Look, Read, MakeDirectory, MakeTemp, Write, Sync,
         Replace, Overtaken, ReplaceFails, CleanUp, Die, Flush, PowerFails
<1>3. Spec => []NoneRaced
  BY <1>1, <1>2, PTL DEF Spec
<1>4. FileInv /\ NoneRaced /\ [Next]_vars =>
        [\A n \in Paths : target[n] # Null /\ target'[n] # target[n] =>
            \A b \in Bridges : pc'[b] = "dead"]_vars
  <2>1. SUFFICES ASSUME FileInv, NoneRaced, [Next]_vars, NEW n \in Paths,
                        target[n] # Null, target'[n] # target[n]
                 PROVE  PowerFails
    BY DEF PowerFails
  <2>2. \A b \in Bridges : ~(Replace(b) /\ path[b] = n)
    BY <2>1, ReplacerRaced DEF FileInv, NoneRaced
  <2>3. QED
    BY <2>1, <2>2, TargetChanges DEF FileInv
<1>5. QED
  BY <1>3, <1>4, MaterializerInvariant, PTL DEF Spec
=============================================================================
