------------------------- MODULE MatchBridge_proofs -------------------------
(***************************************************************************)
(* Rows: what each operation of the journal makes of one.  Beside others:  *)
(* what a step of MatchBridge does where another process takes steps in    *)
(* between, under Working and Shared, and under Inspected and Kept if no   *)
(* configuration is replaced; TwoBridges_proofs rests on this.  Alone:     *)
(* Inductive is an invariant of MatchBridge, for every set of commands,    *)
(* offers, servers and faults; the safety properties follow from it.       *)
(***************************************************************************)
EXTENDS MatchBridgeInvariant, TLAPS

(***************************************************************************)
(* Rows of the journal, and the operations on them.                        *)
(***************************************************************************)

(* What a row's state says of its other columns.                           *)
LEMMA RowShape ==
    ASSUME NEW I, NEW R, NEW row \in Rows(I, R)
    PROVE  /\ row.state \in {"ABSENT"} \cup CommandState
           /\ row.state = "ABSENT" => row = NoRow
           /\ row.state # "ABSENT" => row.identity \in I
           /\ row.state \in Terminal => row.result \in R
           /\ row.state \notin Terminal => row.result = Null
  BY DEF Rows, NoRow, CommandState, Terminal

(* observe returns a row of the identity asked for, or the row that was    *)
(* there.                                                                  *)
LEMMA ObservedRow ==
    ASSUME NEW I, NEW R, NEW row \in Rows(I, R), NEW id \in I
    PROVE  /\ Observed(row, id) \in Rows(I, R)
           /\ Observed(row, id).state # "ABSENT"
           /\ row.state = "ABSENT" => Observed(row, id) =
                 [identity |-> id, state |-> "RECEIVED", result |-> Null]
           /\ row.state # "ABSENT" => Observed(row, id) = row
           /\ ~Conflicts(row, id) => Observed(row, id).identity = id
  BY DEF Rows, NoRow, CommandState, Terminal, Observed, Conflicts

(* mark_applying keeps the identity and leaves no result.                  *)
LEMMA AppliedRow ==
    ASSUME NEW I, NEW R, NEW row \in Rows(I, R), MayApply(row)
    PROVE  /\ Applied(row) \in Rows(I, R)
           /\ Applied(row) = [identity |-> row.identity, state |-> "APPLYING",
                              result |-> Null]
           /\ row.state = "APPLYING" => Applied(row) = row
  BY DEF Rows, NoRow, CommandState, Terminal, Applied, MayApply

(* mark_succeeded and mark_failed keep the identity and store the result.  *)
LEMMA CompletedRow ==
    ASSUME NEW I, NEW R, NEW row \in Rows(I, R), NEW state \in Terminal, NEW code \in R,
           MayComplete(row, state, code)
    PROVE  /\ Completed(row, state, code) \in Rows(I, R)
           /\ Completed(row, state, code) =
                 [identity |-> row.identity, state |-> state, result |-> code]
           /\ row.state \in {"APPLYING", state}
           /\ row.state \in Terminal => Completed(row, state, code) = row
<1>1. /\ row.state \in {"APPLYING", state}
      /\ row.state # "ABSENT"
  BY DEF MayComplete, Terminal
<1>2. Completed(row, state, code) \in Rows(I, R)
  BY <1>1, RowShape DEF Rows, Completed
<1>3. row.state \in Terminal => Completed(row, state, code) = row
  <2>1. SUFFICES ASSUME row.state \in Terminal
                 PROVE  Completed(row, state, code) = row
    OBVIOUS
  <2>2. row.state = state /\ row.result = code
    BY <2>1 DEF MayComplete, Terminal
  <2>3. row \in [identity: I, state: Terminal, result: R]
    BY <2>1 DEF Rows, NoRow, Terminal
  <2>4. QED
    BY <2>2, <2>3 DEF Completed
<1>4. QED
  BY <1>1, <1>2, <1>3 DEF Completed

(***************************************************************************)
(* Beside others.                                                          *)
(***************************************************************************)

(* What BridgeConstants says of one offer.                                 *)
LEMMA OfferFields ==
    ASSUME NEW o \in Offers
    PROVE  /\ o.command \in Commands /\ o.server \in ServerKeys /\ o.match \in Matches
           /\ o.lineup \in Lineups
           /\ Identity(o) \in Identities
           /\ Identity(o).server = o.server /\ Identity(o).match = o.match
           /\ Config(o) \in Configs
           /\ Roster[o.lineup] \in Rosters
           /\ o # Null
  BY BridgeConstants DEF BridgeConstants, OfferRecord, Identity, Identities, Config, Configs

(* What the invariant says of the claimed command.                         *)
LEMMA ClaimedCommand ==
    ASSUME TypeOK, Working, pc \notin {"down", "idle"}
    PROVE  /\ claim \in Offers
           /\ claim.command \in Commands
           /\ ClaimedRow \in Rows(Identities, Codes)
  BY OfferFields DEF TypeOK, Working, ClaimedRow

(* The journal moves by one transition of the claimed command at a time.   *)
Moves(c) ==
    \/ journal'[c] = journal[c]
    \/ journal[c].state = "ABSENT" /\ journal'[c].state = "RECEIVED"
    \/ /\ journal'[c].identity = journal[c].identity
       /\ \/ journal[c].state = "RECEIVED" /\ journal'[c].state = "APPLYING"
          \/ journal[c].state = "APPLYING" /\ journal'[c].state \in Terminal

LEMMA LaunchType ==
    ASSUME TypeOK, Working, pc = "load", Launch
    PROVE  loads' \in SUBSET [server: Servers, match: Matches] /\ launches' \in [Commands -> Nat]
  BY ClaimedCommand, OfferFields DEF TypeOK, Working, Launch

LEMMA ConcludeType ==
    ASSUME TypeOK, Working, pc \in {"succeed", "fail"},
           NEW state \in Terminal, NEW code \in Codes, Conclude(state, code)
    PROVE  TypeOK'
<1>1. journal' \in [Commands -> Rows(Identities, Codes)]
  BY ClaimedCommand, CompletedRow DEF Conclude, Record, ClaimedRow, TypeOK
<1>2. QED
  BY <1>1 DEF Conclude, TypeOK, Labels, Outcomes, central, host

LEMMA MessageType ==
    ASSUME TypeOK, Working, pc = "submit"
    PROVE  Message \in [command: Commands, result: Outcomes]
<1>1. ClaimedRow.state \in Terminal /\ ClaimedRow.result \in Codes
  BY ClaimedCommand, RowShape DEF Working
<1>2. QED
  BY <1>1, ClaimedCommand DEF Working, Message, Outcomes

LEMMA TypeStep ==
    ASSUME TypeOK, Working, Shared, [Next]_vars
    PROVE  TypeOK'
<1> USE BridgeConstants DEF BridgeConstants
<1>0. CASE UNCHANGED vars
  BY <1>0 DEF TypeOK, vars, bridge, central, host
<1>1. CASE Restart
  BY <1>1 DEF TypeOK, Restart, Leave, Labels, central, host
<1>2. CASE \E o \in Offers : Claim(o)
  BY <1>2 DEF TypeOK, Claim, Labels, host
<1>3. CASE Proceed
  <2>1. CASE ObserveRefused
    BY <2>1 DEF TypeOK, ObserveRefused, Leave, Labels, central, host
  <2>2. CASE Observe
    <3> DEFINE entry == Observed(ClaimedRow, Identity(claim))
    <3>1. /\ claim \in Offers /\ claim.command \in Commands
          /\ entry \in Rows(Identities, Codes)
      BY <2>2, ClaimedCommand, OfferFields, ObservedRow DEF Observe
    <3>2. journal' \in [Commands -> Rows(Identities, Codes)]
      BY <2>2, <3>1 DEF Observe, Record, ClaimedRow, TypeOK
    <3>3. pc' \in Labels /\ claim' \in Offers \cup {Null} /\ polls' \in 0..MaxPolls
      BY <2>2, <3>1 DEF Observe, Dispatch, Goto, TypeOK, Labels
    <3>4. result' \in Outcomes \cup {Null}
      <4>1. entry.state \in Terminal => entry.result \in Codes
        BY <3>1, RowShape
      <4>2. QED
        BY <2>2, <4>1 DEF Observe, Dispatch, Goto, TypeOK, Outcomes, ClaimedRow
    <3>5. QED
      BY <2>2, <3>2, <3>3, <3>4 DEF Observe, TypeOK, central, host
  <2>3. CASE MarkApplying
    <3>1. journal' \in [Commands -> Rows(Identities, Codes)]
      BY <2>3, ClaimedCommand, AppliedRow DEF MarkApplying, Record, ClaimedRow, TypeOK
    <3>2. QED
      BY <2>3, <3>1 DEF MarkApplying, Goto, TypeOK, Labels, central, host
  <2>4. CASE WriteConfig
    <3>1. files' \in [Servers -> [Matches -> Configs \cup {Null}]]
      BY <2>4, ClaimedCommand, OfferFields DEF WriteConfig, TypeOK
    <3>2. QED
      BY <2>4, <3>1 DEF WriteConfig, Goto, TypeOK, Labels, central, host
  <2>5. CASE ReuseConfig
    BY <2>5 DEF TypeOK, ReuseConfig, Goto, Labels, central, host
  <2>6. CASE MaterializeFails
    BY <2>6 DEF TypeOK, MaterializeFails, Goto, Labels, central, host
  <2>7. CASE LoadSent
    <3>1. loads' \in SUBSET [server: Servers, match: Matches] /\ launches' \in [Commands -> Nat]
      BY <2>7, LaunchType DEF LoadSent
    <3>2. QED
      BY <2>7, <3>1 DEF TypeOK, LoadSent, Labels, central
  <2>8. CASE ReadArtifact
    BY <2>8 DEF TypeOK, ReadArtifact, Goto, Labels, central, host
  <2>9. CASE ReadStatus
    BY <2>9 DEF TypeOK, ReadStatus, Goto, Labels, central, host
  <2>10. CASE ReadGet5
    BY <2>10 DEF TypeOK, ReadGet5, Goto, Labels, central, host
  <2>11. CASE InspectAgain
    BY <2>11 DEF TypeOK, InspectAgain, Labels, central, host
  <2>12. CASE GiveUp
    BY <2>12 DEF TypeOK, GiveUp, Leave, Labels, central, host
  <2>13. CASE MarkSucceeded
    BY <2>13, ConcludeType DEF MarkSucceeded, Terminal, Codes
  <2>14. CASE MarkFailed
    BY <2>14, ConcludeType DEF MarkFailed, Terminal, Codes
  <2>15. CASE SubmitResult
    <3>1. Message \in [command: Commands, result: Outcomes]
      BY <2>15, MessageType DEF SubmitResult
    <3>2. QED
      BY <2>15, <3>1 DEF TypeOK, SubmitResult, Accept, Leave, Labels, host
  <2>16. CASE SubmitRefused
    BY <2>16 DEF TypeOK, SubmitRefused, Leave, Labels, central, host
  <2>17. QED
    BY <1>3, <2>1, <2>2, <2>3, <2>4, <2>5, <2>6, <2>7, <2>8, <2>9, <2>10, <2>11, <2>12,
       <2>13, <2>14, <2>15, <2>16 DEF Proceed
<1>4. CASE Fail
  <2>1. CASE \E o \in Offers : ClaimResponseLost(o)
    <3>1. PICK o \in Offers : ClaimResponseLost(o)
      BY <2>1
    <3>2. lease' \in [Commands -> BOOLEAN]
      BY <3>1 DEF ClaimResponseLost, TypeOK
    <3>3. QED
      BY <3>1, <3>2 DEF TypeOK, ClaimResponseLost, Leave, Labels, host
  <2>2. CASE JournalRaises \/ TempFileDenied
    BY <2>2 DEF TypeOK, JournalRaises, TempFileDenied, Leave, Labels, central, host
  <2>3. CASE LoadUncertain
    <3>1. loads' \in SUBSET [server: Servers, match: Matches] /\ launches' \in [Commands -> Nat]
      BY <2>3, LaunchType DEF LoadUncertain
    <3>2. QED
      BY <2>3, <3>1 DEF TypeOK, LoadUncertain, Leave, Labels, central
  <2>4. CASE LoadNotLaunched
    BY <2>4 DEF TypeOK, LoadNotLaunched, Goto, Labels, central, host
  <2>5. CASE LoadReplyUndecodable
    <3>1. loads' \in SUBSET [server: Servers, match: Matches] /\ launches' \in [Commands -> Nat]
      BY <2>5, LaunchType DEF LoadReplyUndecodable
    <3>2. QED
      BY <2>5, <3>1 DEF TypeOK, LoadReplyUndecodable, Goto, Labels, central
  <2>6. CASE CrashWhileLoading
    <3>1. loads' \in SUBSET [server: Servers, match: Matches] /\ launches' \in [Commands -> Nat]
      BY <2>6, LaunchType DEF CrashWhileLoading
    <3>2. QED
      BY <2>6, <3>1 DEF TypeOK, CrashWhileLoading, Leave, Labels, central
  <2>7. CASE SubmitUnanswered
    <3>1. Message \in [command: Commands, result: Outcomes]
      BY <2>7, MessageType DEF SubmitUnanswered
    <3>2. QED
      BY <2>7, <3>1 DEF TypeOK, SubmitUnanswered, Leave, Labels, host
  <2>8. CASE Crash
    BY <2>8 DEF TypeOK, Crash, Leave, Labels, central, host
  <2>9. QED
    BY <1>4, <2>1, <2>2, <2>3, <2>4, <2>5, <2>6, <2>7, <2>8 DEF Fail
<1>5. CASE Environment
  <2>1. CASE \E c \in Commands : LeaseExpires(c)
    BY <2>1 DEF TypeOK, LeaseExpires, bridge, host
  <2>2. CASE \E m \in wire : DeliverLate(m)
    BY <2>2 DEF TypeOK, DeliverLate, Accept, bridge, host
  <2>3. CASE \E l \in loads : ServerLoads(l) \/ ServerDropsLoad(l)
    <3>1. PICK l \in loads : ServerLoads(l) \/ ServerDropsLoad(l)
      BY <2>3
    <3>2. l.server \in Servers /\ l.match \in Matches /\ loads' \subseteq loads
      BY <3>1 DEF ServerLoads, ServerDropsLoad, TypeOK
    <3>3. game' \in [Servers -> [match: Matches \cup {Null}, map: Maps]]
      <4>1. CASE game' = [game EXCEPT ![l.server].match = l.match]
        BY <3>2, <4>1 DEF TypeOK
      <4>2. CASE game' = game
        BY <4>2 DEF TypeOK
      <4>3. QED
        BY <3>1, <4>1, <4>2 DEF ServerLoads, ServerDropsLoad
    <3>4. QED
      BY <3>1, <3>2, <3>3 DEF TypeOK, ServerLoads, ServerDropsLoad, bridge, central
  <2>4. CASE \E s \in Servers : \E map \in Maps : ServerChangesMap(s, map)
    <3>1. PICK s \in Servers, map \in Maps : ServerChangesMap(s, map)
      BY <2>4
    <3>2. game' = [game EXCEPT ![s].map = map]
      BY <3>1 DEF ServerChangesMap
    <3>3. game' \in [Servers -> [match: Matches \cup {Null}, map: Maps]]
      BY <3>2 DEF TypeOK
    <3>4. QED
      BY <3>1, <3>3 DEF TypeOK, ServerChangesMap, bridge, central
  <2>5. CASE \E s \in Servers : ServerWritesNames(s)
    <3>1. PICK s \in Servers : ServerWritesNames(s)
      BY <2>5
    <3>2. game[s].match \in Matches /\ files[s][game[s].match] \in Configs
      <4>1. game[s].match # Null /\ Sent(s, game[s].match)
        BY <3>1 DEF ServerWritesNames, Shared
      <4>2. game[s].match \in Matches
        BY <4>1 DEF TypeOK
      <4>3. QED
        BY <4>1, <4>2 DEF TypeOK, Sent
    <3>3. Roster[files[s][game[s].match].lineup] \in Rosters
      BY <3>2 DEF Configs
    <3>4. names' \in [Servers -> [Matches -> Rosters \cup {Null}]]
      BY <3>1, <3>2, <3>3 DEF ServerWritesNames, TypeOK
    <3>5. QED
      BY <3>1, <3>4 DEF TypeOK, ServerWritesNames, bridge, central
  <2>6. CASE \E s \in Servers : ServerResets(s)
    <3>1. PICK s \in Servers : ServerResets(s)
      BY <2>6
    <3>2. game' = [game EXCEPT ![s].match = Null]
      BY <3>1 DEF ServerResets
    <3>3. game' \in [Servers -> [match: Matches \cup {Null}, map: Maps]]
      BY <3>2 DEF TypeOK
    <3>4. QED
      BY <3>1, <3>3 DEF TypeOK, ServerResets, bridge, central
  <2>7. CASE Calm
    BY <2>7 DEF TypeOK, Calm, bridge, central, host
  <2>8. QED
    BY <1>5, <2>1, <2>2, <2>3, <2>4, <2>5, <2>6, <2>7 DEF Environment
<1>6. QED
  BY <1>0, <1>1, <1>2, <1>3, <1>4, <1>5 DEF Next

-----------------------------------------------------------------------------
(* Three kinds of steps: those that write the journal, those that launch a *)
(* load, and all others.                                                   *)
Records == Observe \/ MarkApplying \/ MarkSucceeded \/ MarkFailed

Launches ==
    /\ pc = "load" /\ Launch
    /\ pc' \in {"artifact", "idle", "fail", "down"}
    /\ UNCHANGED <<journal, reported, wire, files, game, names>>

LEMMA StepKinds ==
    ASSUME [Next]_vars
    PROVE  Records \/ Launches \/ UNCHANGED <<journal, launches>>
<1>1. CASE UNCHANGED vars
  BY <1>1 DEF vars
<1>2. CASE Restart \/ \E o \in Offers : Claim(o)
  BY <1>2 DEF Restart, Claim
<1>3. CASE Proceed
  <2>1. CASE Records
    BY <2>1
  <2>2. CASE LoadSent
    BY <2>2 DEF LoadSent, Launches, central
  <2>3. CASE ObserveRefused \/ WriteConfig \/ ReuseConfig \/ MaterializeFails
    BY <2>3 DEF ObserveRefused, WriteConfig, ReuseConfig, MaterializeFails
  <2>4. CASE ReadArtifact \/ ReadStatus \/ ReadGet5 \/ InspectAgain \/ GiveUp
    BY <2>4 DEF ReadArtifact, ReadStatus, ReadGet5, InspectAgain, GiveUp
  <2>5. CASE SubmitResult \/ SubmitRefused
    BY <2>5 DEF SubmitResult, SubmitRefused
  <2>6. QED
    BY <1>3, <2>1, <2>2, <2>3, <2>4, <2>5 DEF Proceed, Records
<1>4. CASE Fail
  <2>1. CASE \E o \in Offers : ClaimResponseLost(o)
    BY <2>1 DEF ClaimResponseLost
  <2>2. CASE LoadUncertain \/ LoadReplyUndecodable \/ CrashWhileLoading
    BY <2>2 DEF LoadUncertain, LoadReplyUndecodable, CrashWhileLoading, Launches, Goto, Leave,
                central
  <2>3. CASE JournalRaises \/ TempFileDenied \/ LoadNotLaunched \/ SubmitUnanswered \/ Crash
    BY <2>3 DEF JournalRaises, TempFileDenied, LoadNotLaunched, SubmitUnanswered, Crash
  <2>4. QED
    BY <1>4, <2>1, <2>2, <2>3 DEF Fail
<1>5. CASE Environment
  BY <1>5 DEF Environment, LeaseExpires, DeliverLate, ServerLoads, ServerDropsLoad,
              ServerChangesMap, ServerWritesNames, ServerResets, Calm
<1>6. QED
  BY <1>1, <1>2, <1>3, <1>4, <1>5 DEF Next

(* The journal moves by one transition of the claimed command at a time,   *)
(* along the life cycle, and a terminal row does not move at all.          *)
LEMMA JournalStep ==
    ASSUME TypeOK, Working, [Next]_vars, NEW c \in Commands
    PROVE  /\ Moves(c)
           /\ journal'[c] # journal[c] => c = claim.command
           /\ journal'[c] # journal[c] /\ journal'[c].state = "FAILED" => pc = "fail"
           /\ journal'[c] # journal[c] /\ journal'[c].state = "SUCCEEDED" => pc = "succeed"
           /\ journal'[c] # journal[c] => UNCHANGED <<reported, wire, files, host, launches>>
<1>0. ASSUME Records PROVE claim \in Offers /\ claim.command \in Commands
                           /\ ClaimedRow \in Rows(Identities, Codes)
  BY <1>0, ClaimedCommand DEF Records, Observe, MarkApplying, MarkSucceeded, MarkFailed
<1>1. CASE Observe
  <2>1. /\ journal' = [journal EXCEPT ![claim.command] = Observed(ClaimedRow, Identity(claim))]
        /\ UNCHANGED <<reported, wire, files, host, launches>>
    BY <1>1 DEF Observe, Record, ClaimedRow, central
  <2>2. /\ ClaimedRow.state # "ABSENT" => Observed(ClaimedRow, Identity(claim)) = ClaimedRow
        /\ ClaimedRow.state = "ABSENT" =>
              Observed(ClaimedRow, Identity(claim)).state = "RECEIVED"
    BY <1>0, <1>1, OfferFields, ObservedRow DEF Records
  <2>3. QED
    BY <2>1, <2>2 DEF Moves, TypeOK, ClaimedRow
<1>2. CASE MarkApplying
  <2>1. /\ journal' = [journal EXCEPT ![claim.command] = Applied(ClaimedRow)]
        /\ UNCHANGED <<reported, wire, files, host, launches>>
    BY <1>2 DEF MarkApplying, Record, ClaimedRow, central
  <2>2. MayApply(ClaimedRow)
    BY <1>2 DEF MarkApplying, ClaimedRow
  <2>3. /\ ClaimedRow.state = "APPLYING" => Applied(ClaimedRow) = ClaimedRow
        /\ Applied(ClaimedRow).identity = ClaimedRow.identity
        /\ Applied(ClaimedRow).state = "APPLYING"
    BY <1>0, <1>2, <2>2, AppliedRow DEF Records
  <2>4. QED
    BY <2>1, <2>2, <2>3 DEF Moves, MayApply, TypeOK, ClaimedRow
<1>3. CASE MarkSucceeded
  <2>1. /\ journal' = [journal EXCEPT
                         ![claim.command] = Completed(ClaimedRow, "SUCCEEDED", "PREPARED")]
        /\ pc = "succeed"
        /\ UNCHANGED <<reported, wire, files, host, launches>>
    BY <1>3 DEF MarkSucceeded, Conclude, Record, ClaimedRow, central
  <2>2. MayComplete(ClaimedRow, "SUCCEEDED", "PREPARED")
    BY <1>3 DEF MarkSucceeded, Conclude, ClaimedRow
  <2>3. /\ ClaimedRow.state \in {"APPLYING", "SUCCEEDED"}
        /\ ClaimedRow.state \in Terminal =>
              Completed(ClaimedRow, "SUCCEEDED", "PREPARED") = ClaimedRow
    BY <1>0, <1>3, <2>2, CompletedRow DEF Records, Terminal, Codes
  <2>4. QED
    BY <2>1, <2>3 DEF Moves, TypeOK, ClaimedRow, Completed, Terminal
<1>4. CASE MarkFailed
  <2>1. /\ journal' = [journal EXCEPT
                         ![claim.command] = Completed(ClaimedRow, "FAILED", "LOCAL_ACTUATION_FAILED")]
        /\ pc = "fail"
        /\ UNCHANGED <<reported, wire, files, host, launches>>
    BY <1>4 DEF MarkFailed, Conclude, Record, ClaimedRow, central
  <2>2. MayComplete(ClaimedRow, "FAILED", "LOCAL_ACTUATION_FAILED")
    BY <1>4 DEF MarkFailed, Conclude, ClaimedRow
  <2>3. /\ ClaimedRow.state \in {"APPLYING", "FAILED"}
        /\ ClaimedRow.state \in Terminal =>
              Completed(ClaimedRow, "FAILED", "LOCAL_ACTUATION_FAILED") = ClaimedRow
    BY <1>0, <1>4, <2>2, CompletedRow DEF Records, Terminal, Codes
  <2>4. QED
    BY <2>1, <2>3 DEF Moves, TypeOK, ClaimedRow, Completed, Terminal
<1>5. CASE UNCHANGED journal
  BY <1>5 DEF Moves
<1>6. QED
  BY <1>1, <1>2, <1>3, <1>4, <1>5, StepKinds DEF Records, Launches

(* Only three steps send or deliver a result.                              *)
LEMMA ResultSteps ==
    ASSUME [Next]_vars
    PROVE  \/ UNCHANGED <<reported, wire>>
           \/ SubmitResult \/ SubmitUnanswered
           \/ \E m \in wire : DeliverLate(m)
<1>1. CASE UNCHANGED vars
  BY <1>1 DEF vars, central
<1>2. CASE Restart \/ \E o \in Offers : Claim(o)
  BY <1>2 DEF Restart, Claim, central
<1>3. CASE Proceed
  BY <1>3 DEF Proceed, ObserveRefused, Observe, MarkApplying, WriteConfig, ReuseConfig,
              MaterializeFails, LoadSent, ReadArtifact, ReadStatus, ReadGet5,
              InspectAgain, GiveUp, MarkSucceeded, MarkFailed, Conclude, SubmitRefused, central
<1>4. CASE Fail
  BY <1>4 DEF Fail, ClaimResponseLost, JournalRaises, TempFileDenied, LoadUncertain, LoadNotLaunched,
              LoadReplyUndecodable, CrashWhileLoading, Crash, central
<1>5. CASE Environment
  BY <1>5 DEF Environment, LeaseExpires, ServerLoads, ServerDropsLoad,
              ServerChangesMap, ServerWritesNames, ServerResets, Calm, central
<1>6. QED
  BY <1>1, <1>2, <1>3, <1>4, <1>5 DEF Next

(* Results.  A step that tells Central something tells what the journal    *)
(* holds; what was told before is terminal and does not move.              *)
LEMMA ToldStep ==
    ASSUME TypeOK, Working, [Next]_vars, NEW c \in Commands, NEW r \in Told(c)'
    PROVE  \/ r \in Told(c)
           \/ /\ c = claim.command /\ pc = "submit"
              /\ r = [outcome |-> journal[c].state, code |-> journal[c].result]
<1>1. CASE UNCHANGED <<reported, wire>>
  BY <1>1 DEF Told
<1>2. CASE SubmitResult \/ SubmitUnanswered
  <2>1. /\ pc = "submit" /\ claim.command \in Commands
        /\ Message = [command |-> claim.command,
                      result |-> [outcome |-> ClaimedRow.state, code |-> ClaimedRow.result]]
    BY <1>2, ClaimedCommand DEF SubmitResult, SubmitUnanswered, Working, Message
  <2>2. \/ reported' = [reported EXCEPT ![Message.command] = @ \cup {Message.result}]
             /\ wire' = wire
        \/ reported' = reported /\ wire' = wire \cup {Message}
    BY <1>2 DEF SubmitResult, SubmitUnanswered, Accept
  <2>3. QED
    BY <2>1, <2>2 DEF Told, TypeOK, ClaimedRow
<1>3. CASE \E m \in wire : DeliverLate(m)
  <2>1. PICK m \in wire : DeliverLate(m)
    BY <1>3
  <2>2. /\ wire' \subseteq wire
        /\ reported' = [reported EXCEPT ![m.command] = @ \cup {m.result}]
    BY <2>1 DEF DeliverLate, Accept
  <2>3. QED
    BY <2>1, <2>2 DEF Told, TypeOK
<1>4. QED
  BY <1>1, <1>2, <1>3, ResultSteps

LEMMA OneTruthStep ==
    ASSUME TypeOK, Working, OneTruth, [Next]_vars
    PROVE  OneTruth'
<1>1. SUFFICES ASSUME NEW c \in Commands, NEW r \in Told(c)'
               PROVE  journal'[c].state = r.outcome /\ journal'[c].result = r.code
  BY DEF OneTruth
<1>2. journal[c].state = r.outcome /\ journal[c].result = r.code
      /\ journal[c].state \in Terminal
  <2>1. CASE r \in Told(c)
    <3>1. r.outcome \in Terminal
      BY <2>1 DEF Told, TypeOK, Outcomes
    <3>2. QED
      BY <2>1, <3>1 DEF OneTruth
  <2>2. CASE c = claim.command /\ pc = "submit"
               /\ r = [outcome |-> journal[c].state, code |-> journal[c].result]
    BY <2>2 DEF Working, ClaimedRow
  <2>3. QED
    BY <2>1, <2>2, ToldStep
<1>3. journal'[c] = journal[c]
  BY <1>2, JournalStep DEF Moves, Terminal
<1>4. QED
  BY <1>2, <1>3

-----------------------------------------------------------------------------

(* Which steps touch the game servers, and which reach the labels Evidence *)
(* speaks of.                                                              *)
LEMMA ServerSteps ==
    ASSUME [Next]_vars
    PROVE  \/ Launches
           \/ UNCHANGED host
           \/ \E l \in loads : ServerLoads(l) \/ ServerDropsLoad(l)
           \/ \E s \in Servers : \/ \E map \in Maps : ServerChangesMap(s, map)
                                 \/ ServerWritesNames(s)
                                 \/ ServerResets(s)
<1>1. CASE UNCHANGED vars
  BY <1>1 DEF vars
<1>2. CASE Restart \/ \E o \in Offers : Claim(o)
  BY <1>2 DEF Restart, Claim
<1>3. CASE Proceed
  BY <1>3 DEF Proceed, ObserveRefused, Observe, MarkApplying, WriteConfig, ReuseConfig,
              MaterializeFails, LoadSent, Launches, ReadArtifact, ReadStatus, ReadGet5,
              InspectAgain, GiveUp, MarkSucceeded, MarkFailed, Conclude, SubmitResult,
              SubmitRefused, central
<1>4. CASE Fail
  BY <1>4 DEF Fail, ClaimResponseLost, JournalRaises, TempFileDenied, LoadUncertain, LoadNotLaunched,
              LoadReplyUndecodable, CrashWhileLoading, Launches, Goto, Leave, Crash,
              SubmitUnanswered, central
<1>5. CASE Environment
  BY <1>5 DEF Environment, LeaseExpires, DeliverLate, Calm
<1>6. QED
  BY <1>1, <1>2, <1>3, <1>4, <1>5 DEF Next

LEMMA LaunchedForStays ==
    ASSUME TypeOK, Working, IntentBeforeEffect, [Next]_vars, NEW i, LaunchedFor(i)
    PROVE  LaunchedFor(i)'
<1>1. PICK d \in Commands : /\ launches[d] > 0
                            /\ journal[d].identity.server = i.server
                            /\ journal[d].identity.match = i.match
  BY DEF LaunchedFor
<1>2. journal'[d].identity = journal[d].identity
  BY <1>1, JournalStep DEF Moves, IntentBeforeEffect, Terminal
<1>3. launches'[d] > 0
  <2>1. CASE Launches
    BY <1>1, <2>1 DEF Launches, Launch, TypeOK
  <2>2. CASE Records \/ UNCHANGED launches
    BY <1>1, <2>2 DEF Records, Observe, MarkApplying, MarkSucceeded, MarkFailed, Conclude
  <2>3. QED
    BY <2>1, <2>2, StepKinds
<1>4. QED
  BY <1>1, <1>2, <1>3 DEF LaunchedFor

(* A configuration that is there does not vanish.                          *)
LEMMA FilesStay ==
    ASSUME TypeOK, [Next]_vars, NEW s \in Servers, NEW m \in Matches, files[s][m] # Null
    PROVE  files'[s][m] = files[s][m]
<1>1. CASE WriteConfig
  BY <1>1 DEF WriteConfig, OnDisk, TypeOK
<1>2. CASE UNCHANGED files
  BY <1>2
<1>3. [Next]_vars => WriteConfig \/ UNCHANGED files
  <2>1. CASE UNCHANGED vars
    BY <2>1 DEF vars
  <2>2. CASE Restart \/ \E o \in Offers : Claim(o)
    BY <2>2 DEF Restart, Claim
  <2>3. CASE Proceed
    BY <2>3 DEF Proceed, ObserveRefused, Observe, MarkApplying, ReuseConfig,
                MaterializeFails, LoadSent, ReadArtifact, ReadStatus, ReadGet5,
                InspectAgain, GiveUp, MarkSucceeded, MarkFailed, Conclude, SubmitRefused,
                SubmitResult
  <2>4. CASE Fail
    BY <2>4 DEF Fail, ClaimResponseLost, JournalRaises, TempFileDenied, LoadUncertain,
                LoadNotLaunched, LoadReplyUndecodable, CrashWhileLoading, Crash,
                SubmitUnanswered
  <2>5. CASE Environment
    BY <2>5 DEF Environment, LeaseExpires, DeliverLate, ServerLoads, ServerDropsLoad,
                ServerChangesMap, ServerWritesNames, ServerResets, Calm
  <2>6. QED
    BY <2>1, <2>2, <2>3, <2>4, <2>5 DEF Next
<1>4. QED
  BY <1>1, <1>2, <1>3

LEMMA SentStays ==
    ASSUME TypeOK, Working, IntentBeforeEffect, [Next]_vars,
           NEW s \in Servers, NEW m \in Matches, Sent(s, m)
    PROVE  Sent(s, m)' /\ files'[s][m] = files[s][m]
  BY FilesStay, LaunchedForStays DEF Sent

(* A launch makes its own match sent.                                      *)
LEMMA LaunchSends ==
    ASSUME TypeOK, Working, Launches
    PROVE  \E s \in Servers, m \in Matches :
              /\ Sent(s, m)'
              /\ loads' = loads \cup {[server |-> s, match |-> m]}
<1>1. /\ claim \in Offers /\ claim.command \in Commands /\ claim.match \in Matches
      /\ claim.server \in Servers /\ ClaimedRow.identity = Identity(claim)
      /\ Identity(claim).server = claim.server /\ Identity(claim).match = claim.match
  BY ClaimedCommand, OfferFields DEF Launches, Working
<1>2. PICK s \in Servers, m \in Matches, c \in Commands :
           s = claim.server /\ m = claim.match /\ c = claim.command
  BY <1>1
<1>3. /\ launches' = [launches EXCEPT ![c] = @ + 1]
      /\ journal' = journal /\ files' = files
      /\ loads' = loads \cup {[server |-> s, match |-> m]}
  BY <1>2 DEF Launches, Launch
<1>4. launches'[c] > 0
  BY <1>3 DEF TypeOK
<1>5. LaunchedFor([server |-> s, match |-> m])'
  BY <1>1, <1>2, <1>3, <1>4 DEF LaunchedFor, ClaimedRow
<1>6. files[s][m] # Null
  BY <1>2 DEF Launches, Working
<1>7. Sent(s, m)'
  BY <1>3, <1>5, <1>6 DEF Sent
<1>8. QED
  BY <1>3, <1>7

LEMMA IntentStep ==
    ASSUME TypeOK, Working, IntentBeforeEffect, [Next]_vars
    PROVE  IntentBeforeEffect'
<1>1. SUFFICES ASSUME NEW c \in Commands, launches'[c] > 0
               PROVE  journal'[c].state \in {"APPLYING"} \cup Terminal
  BY DEF IntentBeforeEffect
<1>2. Moves(c) /\ (launches[c] > 0 => journal[c].state \in {"APPLYING"} \cup Terminal)
  BY JournalStep DEF IntentBeforeEffect
<1>3. CASE Launches
  <2>1. /\ ClaimedRow.state \in {"APPLYING"} \cup Terminal
        /\ claim.command \in Commands /\ journal' = journal
        /\ launches' = [launches EXCEPT ![claim.command] = launches[claim.command] + 1]
    BY <1>3, ClaimedCommand DEF Launches, Launch, Working
  <2>2. QED
    BY <1>1, <1>2, <2>1 DEF TypeOK, ClaimedRow
<1>4. CASE UNCHANGED launches
  BY <1>1, <1>2, <1>4 DEF Moves, Terminal
<1>5. CASE Records
  BY <1>4, <1>5 DEF Records, Observe, MarkApplying, MarkSucceeded, MarkFailed, Conclude
<1>6. QED
  BY <1>3, <1>4, <1>5, StepKinds

(* Every piece of evidence, and every command that is PREPARED, goes back  *)
(* to a launch.                                                            *)
LEMMA SharedStep ==
    ASSUME TypeOK, Working, Shared, [Next]_vars
    PROVE  Shared'
<1>0. IntentBeforeEffect' /\ OneTruth'
  BY IntentStep, OneTruthStep DEF Shared
<1>1. ASSUME NEW l \in loads'
      PROVE  Sent(l.server, l.match)'
  <2>1. CASE l \in loads
    <3>1. l.server \in Servers /\ l.match \in Matches /\ Sent(l.server, l.match)
      BY <2>1 DEF TypeOK, Shared
    <3>2. QED
      BY <3>1, SentStays DEF Shared
  <2>2. CASE Launches
    <3>1. PICK s \in Servers, m \in Matches :
             Sent(s, m)' /\ loads' = loads \cup {[server |-> s, match |-> m]}
      BY <2>2, LaunchSends
    <3>2. CASE l = [server |-> s, match |-> m]
      BY <3>1, <3>2
    <3>3. QED
      BY <2>1, <3>1, <3>2
  <2>3. CASE loads' \subseteq loads
    BY <2>1, <2>3
  <2>4. QED
    BY <2>2, <2>3, ServerSteps DEF host, ServerLoads, ServerDropsLoad, ServerChangesMap,
                                   ServerWritesNames, ServerResets
<1>2. ASSUME NEW s \in Servers, game'[s].match # Null
      PROVE  Sent(s, game[s].match)'
  <2>1. CASE game'[s].match = game[s].match
    <3>1. game[s].match \in Matches /\ Sent(s, game[s].match)
      BY <1>2, <2>1 DEF TypeOK, Shared
    <3>2. PICK m \in Matches : m = game[s].match
      BY <3>1
    <3>3. Sent(s, m)'
      BY <3>1, <3>2, SentStays DEF Shared
    <3>4. QED
      BY <2>1, <3>2, <3>3
  <2>2. CASE \E l \in loads : ServerLoads(l) /\ l.server = s
    <3>1. PICK l \in loads : ServerLoads(l) /\ l.server = s
      BY <2>2
    <3>2. l.match \in Matches /\ Sent(s, l.match)
      BY <3>1 DEF TypeOK, Shared
    <3>3. game'[s].match = l.match
      BY <3>1 DEF ServerLoads, TypeOK
    <3>4. Sent(s, l.match)'
      BY <3>2, SentStays DEF Shared
    <3>5. QED
      BY <3>3, <3>4
  <2>3. CASE \E l \in loads : ServerLoads(l) /\ l.server # s
    BY <2>1, <2>3 DEF ServerLoads, TypeOK
  <2>4. CASE \E t \in Servers : ServerResets(t) \/ \E map \in Maps : ServerChangesMap(t, map)
    <3>1. PICK t \in Servers : ServerResets(t) \/ \E map \in Maps : ServerChangesMap(t, map)
      BY <2>4
    <3>2. CASE ServerResets(t)
      <4>1. game' = [game EXCEPT ![t].match = Null]
        BY <3>2 DEF ServerResets
      <4>2. game'[s].match \in {Null, game[s].match}
        BY <4>1 DEF TypeOK
      <4>3. QED
        BY <1>2, <2>1, <4>2
    <3>3. CASE \E map \in Maps : ServerChangesMap(t, map)
      <4>1. PICK map \in Maps : game' = [game EXCEPT ![t].map = map]
        BY <3>3 DEF ServerChangesMap
      <4>2. game'[s].match = game[s].match
        BY <4>1 DEF TypeOK
      <4>3. QED
        BY <2>1, <4>2
    <3>4. QED
      BY <3>1, <3>2, <3>3
  <2>5. CASE UNCHANGED game
    BY <2>1, <2>5
  <2>6. QED
    BY <2>2, <2>3, <2>4, <2>5, ServerSteps
       DEF Launches, host, ServerDropsLoad, ServerWritesNames
<1>3. ASSUME NEW s \in Servers, NEW m \in Matches, names'[s][m] # Null
      PROVE  Sent(s, m)'
  <2>1. CASE names[s][m] # Null
    BY <2>1, SentStays DEF Shared
  <2>2. CASE names[s][m] = Null
    <3>1. names' # names
      BY <1>3, <2>2
    <3>2. PICK t \in Servers : ServerWritesNames(t)
      BY <3>1, ServerSteps DEF Launches, host, ServerLoads, ServerDropsLoad,
                               ServerChangesMap, ServerResets
    <3>3. t = s /\ game[s].match = m
      BY <1>3, <2>2, <3>2 DEF ServerWritesNames, TypeOK
    <3>4. Sent(s, m)
      BY <3>2, <3>3 DEF ServerWritesNames, Shared
    <3>5. QED
      BY <3>4, SentStays DEF Shared
  <2>3. QED
    BY <2>1, <2>2
<1>4. ASSUME NEW c \in Commands, journal'[c].state = "SUCCEEDED"
      PROVE  LaunchedFor(journal[c].identity)'
  <2>1. PICK i : journal[c].identity = i /\ journal'[c].identity = i
    BY <1>4, JournalStep DEF Moves
  <2>2. LaunchedFor(i)
    <3>1. CASE journal'[c] = journal[c]
      BY <1>4, <2>1, <3>1 DEF Shared
    <3>2. CASE journal'[c] # journal[c]
      <4>1. pc = "succeed" /\ c = claim.command
        BY <1>4, <3>2, JournalStep
      <4>2. /\ i = Identity(claim) /\ i.server = claim.server /\ i.match = claim.match
            /\ Sent(claim.server, claim.match)
        BY <2>1, <4>1, ClaimedCommand, OfferFields DEF Working, ClaimedRow
      <4>3. QED
        BY <4>2 DEF Sent, LaunchedFor
    <3>3. QED
      BY <3>1, <3>2
  <2>3. LaunchedFor(i)'
    BY <2>2, LaunchedForStays DEF Shared
  <2>4. QED
    BY <2>1, <2>3 DEF LaunchedFor
<1>5. QED
  BY <1>0, <1>1, <1>2, <1>3, <1>4 DEF Shared

-----------------------------------------------------------------------------
(* A step that is not this process's, be it of the other one or of the     *)
(* environment, keeps Working.                                             *)
LEMMA ElsewhereKeepsWorking ==
    ASSUME TypeOK, Working, UNCHANGED bridge, \A c \in Commands : Moves(c),
           \A s \in Servers, m \in Matches : files[s][m] # Null => files'[s][m] # Null,
           \A s \in Servers, m \in Matches : Sent(s, m) => Sent(s, m)'
    PROVE  Working'
<1>1. CASE pc \in {"down", "idle", "claimed"}
  BY <1>1 DEF Working, bridge
<1>2. CASE pc \notin {"down", "idle", "claimed"}
  <2>1. /\ claim \in Offers /\ claim.command \in Commands
        /\ claim.server \in Servers /\ claim.match \in Matches
        /\ ClaimedRow.state # "ABSENT" /\ ClaimedRow.identity = Identity(claim)
    BY <1>2, ClaimedCommand, OfferFields DEF Working
  <2>2. claim' = claim /\ pc' = pc /\ result' = result
    BY DEF bridge
  <2>3. /\ ClaimedRow'.state # "ABSENT" /\ ClaimedRow'.identity = Identity(claim)
        /\ ClaimedRow.state \in {"APPLYING"} \cup Terminal =>
              ClaimedRow'.state \in {"APPLYING"} \cup Terminal
        /\ ClaimedRow.state \in Terminal => ClaimedRow' = ClaimedRow
    BY <2>1, <2>2 DEF Moves, ClaimedRow, Terminal
  <2>4. pc = "load" => files'[claim.server][claim.match] # Null
    BY <2>1 DEF Working
  <2>5. pc \in {"status", "get5", "succeed"} => Sent(claim.server, claim.match)'
    <3>1. PICK s \in Servers, m \in Matches : s = claim.server /\ m = claim.match
      BY <2>1
    <3>2. pc \in {"status", "get5", "succeed"} => Sent(s, m)'
      BY <3>1 DEF Working
    <3>3. QED
      BY <2>2, <3>1, <3>2
  <2>6. Identity(claim)' = Identity(claim)
    BY <2>2 DEF Identity
  <2>7. QED
    BY <1>2, <2>1, <2>2, <2>3, <2>4, <2>5, <2>6 DEF Working
<1>3. QED
  BY <1>1, <1>2

LEMMA LeaveKeepsWorking ==
    ASSUME NEW label \in {"down", "idle"}, Leave(label)
    PROVE  Working'
  BY DEF Leave, Working

LEMMA GotoKeepsWorking ==
    ASSUME TypeOK, Working, NEW label \in {"load", "fail", "status", "get5", "succeed"},
           Goto(label), UNCHANGED <<journal, launches>>,
           pc \in {"materialize", "load", "artifact", "status", "get5"},
           label = "load" => files'[claim.server][claim.match] # Null,
           label \in {"status", "get5", "succeed"} => Sent(claim.server, claim.match),
           label \in {"status", "get5", "succeed"} => UNCHANGED files
    PROVE  Working'
<1>1. /\ claim' = claim /\ pc' = label /\ claim # Null /\ Identity(claim)' = Identity(claim)
      /\ ClaimedRow' = ClaimedRow
  BY DEF Goto, Working, ClaimedRow, Identity
<1>2. label \in {"status", "get5", "succeed"} => Sent(claim.server, claim.match)'
  BY <1>1 DEF Sent, LaunchedFor
<1>3. QED
  BY <1>1, <1>2 DEF Working

LEMMA ConcludeKeepsWorking ==
    ASSUME TypeOK, Working, pc \in {"succeed", "fail"},
           NEW state \in Terminal, NEW code \in Codes, Conclude(state, code)
    PROVE  Working'
<1>1. /\ claim' = claim /\ pc' = "submit" /\ claim \in Offers /\ claim.command \in Commands
      /\ result' = [outcome |-> state, code |-> code]
      /\ journal' = [journal EXCEPT ![claim.command] = Completed(ClaimedRow, state, code)]
      /\ claim.server \in Servers /\ ClaimedRow.identity = Identity(claim)
  BY ClaimedCommand DEF Conclude, Record, ClaimedRow, Working
<1>2. ClaimedRow' = [identity |-> Identity(claim), state |-> state, result |-> code]
  BY <1>1 DEF ClaimedRow, Completed, TypeOK
<1>3. claim # Null
  BY <1>1, BridgeConstants DEF BridgeConstants
<1>4. QED
  BY <1>1, <1>2, <1>3 DEF Working, Identity, Terminal

LEMMA WorkingStep ==
    ASSUME TypeOK, Working, Shared, [Next]_vars
    PROVE  Working'
<1>0. ASSUME UNCHANGED bridge PROVE Working'
  <2>1. \A c \in Commands : Moves(c)
    BY JournalStep
  <2>2. \A s \in Servers, m \in Matches : files[s][m] # Null => files'[s][m] # Null
    BY FilesStay
  <2>3. \A s \in Servers, m \in Matches : Sent(s, m) => Sent(s, m)'
    BY SentStays DEF Shared
  <2>4. QED
    BY <1>0, <2>1, <2>2, <2>3, ElsewhereKeepsWorking
<1>1. CASE UNCHANGED vars
  BY <1>0, <1>1 DEF vars
<1>2. CASE Restart
  BY <1>2, LeaveKeepsWorking DEF Restart
<1>3. CASE \E o \in Offers : Claim(o)
  BY <1>3, OfferFields DEF Claim, Working
<1>4. CASE Proceed
  <2>1. CASE ObserveRefused \/ GiveUp \/ SubmitResult \/ SubmitRefused
    BY <2>1, LeaveKeepsWorking DEF ObserveRefused, GiveUp, SubmitResult, SubmitRefused
  <2>2. CASE Observe
    <3> DEFINE entry == Observed(ClaimedRow, Identity(claim))
    <3>1. /\ claim \in Offers /\ claim.command \in Commands /\ claim # Null
          /\ ClaimedRow \in Rows(Identities, Codes)
          /\ Identity(claim) \in Identities
      BY <2>2, ClaimedCommand, OfferFields DEF Observe
    <3>2. /\ claim' = claim /\ claim.server \in Servers
          /\ journal' = [journal EXCEPT ![claim.command] = entry]
          /\ Dispatch(entry)
          /\ ~Conflicts(ClaimedRow, Identity(claim))
      BY <2>2 DEF Observe, Record, Refused, Dispatch, Goto, ClaimedRow
    <3>3. ClaimedRow' = entry
      BY <3>1, <3>2 DEF ClaimedRow, TypeOK
    <3>4. entry.identity = Identity(claim) /\ entry.state # "ABSENT"
      BY <3>1, <3>2, ObservedRow
    <3>5. QED
      BY <3>1, <3>2, <3>3, <3>4 DEF Dispatch, Goto, Working, Identity, Terminal
  <2>3. CASE MarkApplying
    <3>1. /\ claim \in Offers /\ claim.command \in Commands /\ claim # Null
          /\ ClaimedRow \in Rows(Identities, Codes)
      BY <2>3, ClaimedCommand, OfferFields DEF MarkApplying
    <3>2. /\ pc = "received" /\ Goto("materialize")
          /\ journal' = [journal EXCEPT ![claim.command] = Applied(ClaimedRow)]
          /\ MayApply(ClaimedRow)
      BY <2>3 DEF MarkApplying, Record, ClaimedRow
    <3>3. ClaimedRow' = Applied(ClaimedRow)
      BY <3>1, <3>2 DEF ClaimedRow, Goto, TypeOK
    <3>4. ClaimedRow'.state = "APPLYING" /\ ClaimedRow'.identity = Identity(claim)
      BY <3>1, <3>2, <3>3, AppliedRow DEF Working
    <3>5. QED
      BY <3>1, <3>2, <3>4 DEF Goto, Working, Identity
  <2>4. CASE WriteConfig \/ ReuseConfig \/ MaterializeFails
    <3>1. ASSUME pc = "materialize"
          PROVE  /\ claim.server \in Servers /\ claim.match \in Matches
                 /\ Config(claim) # Null
      BY <3>1, ClaimedCommand, OfferFields, BridgeConstants
         DEF Working, Configs, BridgeConstants
    <3>2. CASE WriteConfig
      <4>1. files'[claim.server][claim.match] # Null
        BY <3>1, <3>2 DEF WriteConfig, TypeOK
      <4>2. QED
        BY <3>2, <4>1, GotoKeepsWorking DEF WriteConfig
    <3>3. CASE ReuseConfig
      BY <3>1, <3>3, GotoKeepsWorking DEF ReuseConfig, OnDisk
    <3>4. CASE MaterializeFails
      BY <3>4, GotoKeepsWorking DEF MaterializeFails
    <3>5. QED
      BY <2>4, <3>2, <3>3, <3>4
  <2>5. CASE LoadSent
    BY <2>5 DEF LoadSent, Working, ClaimedRow, Identity
  <2>6. CASE ReadArtifact
    <3>1. /\ claim.server \in Servers /\ claim.match \in Matches
          /\ Roster[claim.lineup] # Null
      BY <2>6, ClaimedCommand, OfferFields, BridgeConstants
         DEF ReadArtifact, Working, BridgeConstants
    <3>2. Sent(claim.server, claim.match)
      BY <2>6, <3>1 DEF ReadArtifact, Shared
    <3>3. QED
      BY <2>6, <3>2, GotoKeepsWorking DEF ReadArtifact
  <2>7. CASE ReadStatus \/ ReadGet5
    <3>1. Sent(claim.server, claim.match)
      BY <2>7 DEF ReadStatus, ReadGet5, Working
    <3>2. QED
      BY <2>7, <3>1, GotoKeepsWorking DEF ReadStatus, ReadGet5
  <2>8. CASE InspectAgain
    BY <2>8 DEF InspectAgain, EvidenceMissing, Working, ClaimedRow, Identity
  <2>9. CASE MarkSucceeded \/ MarkFailed
    BY <2>9, ConcludeKeepsWorking DEF MarkSucceeded, MarkFailed, Terminal, Codes
  <2>10. QED
    BY <1>4, <2>1, <2>2, <2>3, <2>4, <2>5, <2>6, <2>7, <2>8, <2>9 DEF Proceed
<1>5. CASE Fail
  <2>1. CASE \E o \in Offers : ClaimResponseLost(o)
    BY <2>1, LeaveKeepsWorking DEF ClaimResponseLost
  <2>2. CASE JournalRaises \/ TempFileDenied \/ LoadUncertain \/ CrashWhileLoading
                \/ SubmitUnanswered \/ Crash
    BY <2>2, LeaveKeepsWorking
       DEF JournalRaises, TempFileDenied, LoadUncertain, CrashWhileLoading, SubmitUnanswered, Crash
  <2>3. CASE LoadNotLaunched
    BY <2>3, GotoKeepsWorking DEF LoadNotLaunched
  <2>4. CASE LoadReplyUndecodable
    BY <2>4 DEF LoadReplyUndecodable, Goto, Working, ClaimedRow, Identity
  <2>5. QED
    BY <1>5, <2>1, <2>2, <2>3, <2>4 DEF Fail
<1>6. CASE Environment
  BY <1>0, <1>6 DEF Environment, LeaseExpires, DeliverLate, ServerLoads, ServerDropsLoad,
                    ServerChangesMap, ServerWritesNames, ServerResets, Calm
<1>7. QED
  BY <1>1, <1>2, <1>3, <1>4, <1>5, <1>6 DEF Next

-----------------------------------------------------------------------------
(* Which steps lead to a label from which a launch is still to come.       *)
LEMMA PendingSteps ==
    ASSUME [Next]_vars, pc' \in {"received", "materialize", "load"}
    PROVE  \/ Observe /\ pc' = "received"
           \/ claim' = claim /\ UNCHANGED launches /\ pc \in {"received", "materialize", "load"}
<1>1. CASE UNCHANGED vars
  BY <1>1 DEF vars, bridge
<1>2. CASE Restart \/ \E o \in Offers : Claim(o)
  BY <1>2 DEF Restart, Claim, Leave
<1>3. CASE Proceed
  <2>1. CASE Observe
    BY <2>1 DEF Observe, Dispatch, Goto
  <2>2. CASE MarkApplying \/ WriteConfig \/ ReuseConfig \/ MaterializeFails
    BY <2>2 DEF MarkApplying, WriteConfig, ReuseConfig, MaterializeFails, Goto
  <2>3. QED
    BY <1>3, <2>1, <2>2
       DEF Proceed, ObserveRefused, LoadSent, ReadArtifact, ReadStatus, ReadGet5, InspectAgain,
           GiveUp, MarkSucceeded, MarkFailed, Conclude, SubmitResult, SubmitRefused, Goto, Leave
<1>4. CASE Fail
  BY <1>4 DEF Fail, ClaimResponseLost, JournalRaises, TempFileDenied, LoadUncertain,
              LoadNotLaunched, LoadReplyUndecodable, CrashWhileLoading, Crash,
              SubmitUnanswered, Goto, Leave
<1>5. CASE Environment
  BY <1>5 DEF Environment, LeaseExpires, DeliverLate, ServerLoads, ServerDropsLoad,
              ServerChangesMap, ServerWritesNames, ServerResets, Calm, bridge
<1>6. QED
  BY <1>1, <1>2, <1>3, <1>4, <1>5 DEF Next

(* A launch is owed only by a process that found the command new, and is   *)
(* owed no more once it has happened.                                      *)
LEMMA BudgetStep ==
    ASSUME TypeOK, Working, IntentBeforeEffect, [Next]_vars, NEW c \in Commands
    PROVE  launches'[c] = 0 \/ launches'[c] + Pending(c)' <= launches[c] + Pending(c)
<1>0. launches[c] \in Nat /\ Pending(c) \in {0, 1} /\ Pending(c)' \in {0, 1}
  BY DEF TypeOK, Pending
<1>1. CASE Launches
  <2>1. /\ claim # Null /\ claim.command \in Commands
        /\ launches' = [launches EXCEPT ![claim.command] = launches[claim.command] + 1]
    BY <1>1, ClaimedCommand DEF Launches, Launch, Working
  <2>2. Pending(c)' = 0
    BY <1>1 DEF Launches, Pending
  <2>3. CASE c = claim.command
    <3>1. Pending(c) = 1
      BY <1>1, <2>1, <2>3 DEF Launches, Pending, AtWork
    <3>2. launches'[c] = launches[c] + 1
      BY <2>1, <2>3 DEF TypeOK
    <3>3. QED
      BY <1>0, <2>2, <3>1, <3>2
  <2>4. CASE c # claim.command
    <3>1. launches'[c] = launches[c]
      BY <2>1, <2>4 DEF TypeOK
    <3>2. QED
      BY <1>0, <2>2, <3>1
  <2>5. QED
    BY <2>3, <2>4
<1>2. CASE ~Launches
  <2>1. launches' = launches
    BY <1>2, StepKinds
       DEF Records, Observe, MarkApplying, MarkSucceeded, MarkFailed, Conclude
  <2>2. CASE Pending(c)' = 0
    BY <1>0, <2>1, <2>2
  <2>3. CASE Pending(c)' = 1
    <3>1. pc' \in {"received", "materialize", "load"} /\ claim' # Null /\ claim'.command = c
      BY <2>3 DEF Pending, AtWork
    <3>2. CASE Observe /\ pc' = "received"
      <4>1. claim' = claim /\ claim.command = c /\ ClaimedRow \in Rows(Identities, Codes)
            /\ claim \in Offers
        BY <3>1, <3>2, ClaimedCommand DEF Observe, Dispatch, Goto
      <4>2. Observed(ClaimedRow, Identity(claim)).state = "RECEIVED"
        BY <3>2 DEF Observe, Dispatch, Goto, ClaimedRow, Terminal
      <4>3. journal[c].state \in {"ABSENT", "RECEIVED"}
        BY <4>1, <4>2, OfferFields, ObservedRow DEF ClaimedRow
      <4>4. ~(launches[c] > 0)
        BY <4>3 DEF IntentBeforeEffect, Terminal
      <4>5. QED
        BY <1>0, <2>1, <4>4
    <3>3. CASE claim' = claim /\ pc \in {"received", "materialize", "load"}
      <4>1. Pending(c) = 1
        BY <3>1, <3>3 DEF Pending, AtWork
      <4>2. QED
        BY <1>0, <2>1, <2>3, <4>1
    <3>4. QED
      BY <3>1, <3>2, <3>3, PendingSteps
  <2>4. QED
    BY <1>0, <2>2, <2>3
<1>3. QED
  BY <1>1, <1>2

-----------------------------------------------------------------------------
(* The steps MatchBridge has not: the file has appeared since the look at  *)
(* it, and is replaced, or mkstemp fails beside it.                        *)
Overwrite ==
    /\ pc = "materialize"
    /\ files' = [files EXCEPT ![claim.server][claim.match] = Config(claim)]
    /\ Goto("load")
    /\ UNCHANGED <<journal, lease, reported, wire, loads, game, names, launches, calm>>

(* What a step of this process does to itself and to what it shares.       *)
Orderly ==
    /\ TypeOK' /\ Working' /\ Shared'
    /\ \A c \in Commands : Moves(c)
    /\ \A s \in Servers, m \in Matches : files[s][m] # Null => files'[s][m] # Null
    /\ \A s \in Servers, m \in Matches : Sent(s, m) => Sent(s, m)'
    /\ \A c \in Commands :
          launches'[c] = 0 \/ launches'[c] + Pending(c)' <= launches[c] + Pending(c)

LEMMA OverwriteIsOrderly ==
    ASSUME TypeOK, Working, Shared, Overwrite
    PROVE  Orderly
<1>1. /\ claim \in Offers /\ claim.server \in Servers /\ claim.match \in Matches
      /\ Config(claim) \in Configs /\ Config(claim) # Null
  BY ClaimedCommand, OfferFields, BridgeConstants
     DEF Overwrite, Working, Configs, BridgeConstants
<1>2. files' \in [Servers -> [Matches -> Configs \cup {Null}]]
  BY <1>1 DEF Overwrite, TypeOK
<1>3. /\ \A s \in Servers, m \in Matches : files[s][m] # Null => files'[s][m] # Null
      /\ files'[claim.server][claim.match] # Null
  BY <1>1 DEF Overwrite, TypeOK
<1>4. \A i : LaunchedFor(i) => LaunchedFor(i)'
  BY DEF Overwrite, LaunchedFor
<1>5. \A s \in Servers, m \in Matches : Sent(s, m) => Sent(s, m)'
  BY <1>3, <1>4 DEF Sent
<1>6. TypeOK'
  BY <1>2 DEF Overwrite, Goto, TypeOK, Labels
<1>7. Working'
  BY <1>3, GotoKeepsWorking DEF Overwrite
<1>8. Shared'
  <2>1. IntentBeforeEffect' /\ OneTruth'
    BY DEF Overwrite, Shared, IntentBeforeEffect, OneTruth, Told
  <2>2. \A l \in loads' : Sent(l.server, l.match)'
    BY <1>5 DEF Overwrite, Shared, TypeOK
  <2>3. ASSUME NEW s \in Servers, game'[s].match # Null
        PROVE  Sent(s, game[s].match)'
    <3>1. PICK m \in Matches : m = game[s].match /\ game' = game
      BY <2>3 DEF Overwrite, TypeOK
    <3>2. Sent(s, m)'
      BY <2>3, <3>1, <1>5 DEF Shared
    <3>3. QED
      BY <3>1, <3>2
  <2>4. \A s \in Servers, m \in Matches : names'[s][m] # Null => Sent(s, m)'
    BY <1>5 DEF Overwrite, Shared
  <2>5. \A c \in Commands :
           journal'[c].state = "SUCCEEDED" => LaunchedFor(journal[c].identity)'
    BY DEF Overwrite, Shared, LaunchedFor
  <2>6. QED
    BY <2>1, <2>2, <2>3, <2>4, <2>5 DEF Shared
<1>9. \A c \in Commands : Moves(c) /\ launches'[c] + Pending(c)' <= launches[c] + Pending(c)
  BY DEF Overwrite, Goto, Moves, Pending, AtWork, TypeOK
<1>10. QED
  BY <1>3, <1>5, <1>6, <1>7, <1>8, <1>9 DEF Orderly

(* mkstemp fails where another process has written the file.               *)
Denied ==
    /\ pc = "materialize"
    /\ Leave("down")
    /\ UNCHANGED <<journal, central, files, host, launches, calm>>

LEMMA DeniedIsOrderly ==
    ASSUME TypeOK, Working, Shared, Denied
    PROVE  Orderly
<1> USE DEF Denied, central, host
<1>1. TypeOK'
  BY BridgeConstants DEF BridgeConstants, Leave, TypeOK, Labels
<1>2. Working'
  BY LeaveKeepsWorking
<1>3. \A i : LaunchedFor(i)' <=> LaunchedFor(i)
  BY DEF LaunchedFor
<1>4. \A s, m : Sent(s, m)' <=> Sent(s, m)
  BY <1>3 DEF Sent
<1>5. Shared'
  <2>1. IntentBeforeEffect' /\ OneTruth'
    BY DEF Shared, IntentBeforeEffect, OneTruth, Told
  <2>2. \A c \in Commands :
           journal'[c].state = "SUCCEEDED" => LaunchedFor(journal[c].identity)'
    BY DEF Shared, LaunchedFor
  <2>3. ASSUME NEW s \in Servers, game'[s].match # Null
        PROVE  Sent(s, game[s].match)'
    <3>1. PICK m : m = game[s].match /\ game' = game
      OBVIOUS
    <3>2. Sent(s, m)'
      BY <1>4, <2>3, <3>1 DEF Shared
    <3>3. QED
      BY <3>1, <3>2
  <2>4. QED
    BY <1>4, <2>1, <2>2, <2>3 DEF Shared
<1>6. \A c \in Commands : Moves(c) /\ launches'[c] + Pending(c)' <= launches[c] + Pending(c)
  BY DEF Leave, Moves, Pending, AtWork, TypeOK
<1>7. QED
  BY <1>1, <1>2, <1>4, <1>5, <1>6 DEF Orderly

LEMMA StepIsOrderly ==
    ASSUME TypeOK, Working, Shared, [Next]_vars
    PROVE  Orderly
<1>1. IntentBeforeEffect
  BY DEF Shared
<1>2. TypeOK' /\ Working' /\ Shared'
  BY TypeStep, WorkingStep, SharedStep
<1>3. QED
  BY <1>1, <1>2, JournalStep, FilesStay, SentStays, BudgetStep DEF Orderly

(* The other process does not disturb this one.                            *)
LEMMA OtherIsHarmless ==
    ASSUME TypeOK, Working, UNCHANGED bridge, \A c \in Commands : Moves(c),
           \A s \in Servers, m \in Matches : files[s][m] # Null => files'[s][m] # Null,
           \A s \in Servers, m \in Matches : Sent(s, m) => Sent(s, m)'
    PROVE  Working' /\ \A c \in Commands : Pending(c)' = Pending(c)
<1>1. \A c \in Commands : Pending(c)' = Pending(c)
  BY DEF bridge, Pending, AtWork
<1>2. QED
  BY <1>1, ElsewhereKeepsWorking

(* Nothing has happened yet.                                               *)
LEMMA InitShared ==
    ASSUME Init
    PROVE  TypeOK /\ Working /\ Shared /\ \A c \in Commands : launches[c] + Pending(c) = 0
<1> USE BridgeConstants DEF Init, BridgeConstants
<1>1. TypeOK
  <2>1. game \in [Servers -> [match: Matches \cup {Null}, map: Maps]]
    OBVIOUS
  <2>2. journal \in [Commands -> Rows(Identities, Codes)]
    BY DEF Rows
  <2>3. polls \in 0..MaxPolls /\ pc \in Labels
    BY DEF Labels
  <2>4. /\ files \in [Servers -> [Matches -> Configs \cup {Null}]]
        /\ names \in [Servers -> [Matches -> Rosters \cup {Null}]]
    OBVIOUS
  <2>5. QED
    BY <2>1, <2>2, <2>3, <2>4 DEF TypeOK
<1>2. Working
  BY DEF Working
<1>3. Shared
  BY DEF Shared, IntentBeforeEffect, OneTruth, Told, NoRow
<1>4. \A c \in Commands : launches[c] + Pending(c) = 0
  BY DEF Pending
<1>5. QED
  BY <1>1, <1>2, <1>3, <1>4

(***************************************************************************)
(* Beside others that replace no configuration.                            *)
(***************************************************************************)

(* No configuration gives way to another one in this step.                 *)
FilesKept ==
    \A s \in Servers, m \in Matches : files[s][m] # Null => files'[s][m] = files[s][m]

(* The evidence and what it stands for outlast the step.                   *)
Steady ==
    /\ Inspected' /\ Kept'
    /\ \A s \in Servers, m \in Matches : names[s][m] # Null => names'[s][m] = names[s][m]

(* Which steps reach the labels Inspected speaks of.                       *)
LEMMA LabelSteps ==
    ASSUME [Next]_vars, pc' \in {"status", "get5", "succeed"}
    PROVE  UNCHANGED bridge \/ ReadArtifact \/ ReadStatus \/ ReadGet5
<1>1. CASE UNCHANGED vars
  BY <1>1 DEF vars
<1>2. CASE Restart \/ \E o \in Offers : Claim(o)
  BY <1>2 DEF Restart, Claim, Leave
<1>3. CASE Proceed
  BY <1>3 DEF Proceed, ObserveRefused, Observe, Dispatch, MarkApplying, WriteConfig,
              ReuseConfig, MaterializeFails, LoadSent, InspectAgain, GiveUp,
              MarkSucceeded, MarkFailed, Conclude, SubmitResult, SubmitRefused, Goto, Leave
<1>4. CASE Fail
  BY <1>4 DEF Fail, ClaimResponseLost, JournalRaises, TempFileDenied, LoadUncertain, LoadNotLaunched,
              LoadReplyUndecodable, CrashWhileLoading, Crash, SubmitUnanswered, Goto, Leave
<1>5. CASE Environment
  BY <1>5 DEF Environment, LeaseExpires, DeliverLate, ServerLoads, ServerDropsLoad,
              ServerChangesMap, ServerWritesNames, ServerResets, Calm
<1>6. QED
  BY <1>1, <1>2, <1>3, <1>4, <1>5 DEF Next

(* A roster on disk is written over only with itself.                      *)
LEMMA NamesStay ==
    ASSUME TypeOK, Kept, [Next]_vars, NEW s \in Servers, NEW m \in Matches,
           names[s][m] # Null
    PROVE  names'[s][m] = names[s][m]
<1>1. CASE \E t \in Servers : ServerWritesNames(t)
  <2>1. PICK t \in Servers : ServerWritesNames(t)
    BY <1>1
  <2>2. names' = [names EXCEPT ![t][game[t].match] = Roster[files[t][game[t].match].lineup]]
    BY <2>1 DEF ServerWritesNames
  <2>3. names[s][m] = Roster[files[s][m].lineup]
    BY DEF Kept
  <2>4. QED
    BY <2>2, <2>3 DEF TypeOK
<1>2. CASE UNCHANGED names
  BY <1>2
<1>3. QED
  BY <1>1, <1>2, ServerSteps DEF Launches, host, ServerLoads, ServerDropsLoad,
                                 ServerChangesMap, ServerResets

(* What was read, while the cycle is past the artifact.                    *)
LEMMA InspectedRoster ==
    ASSUME TypeOK, Working, Inspected, pc \in {"status", "get5", "succeed"}
    PROVE  /\ claim.server \in Servers /\ claim.match \in Matches
           /\ Sent(claim.server, claim.match)
           /\ names[claim.server][claim.match] = Roster[claim.lineup]
           /\ Roster[claim.lineup] # Null
  BY ClaimedCommand, OfferFields, BridgeConstants DEF Working, Inspected, BridgeConstants

LEMMA InspectedStep ==
    ASSUME TypeOK, Working, Inspected, Kept, [Next]_vars
    PROVE  Inspected'
<1>1. SUFFICES ASSUME pc' \in {"status", "get5", "succeed"}
               PROVE  names'[claim'.server][claim'.match] = Roster[claim'.lineup]
  BY DEF Inspected
<1>2. claim' = claim /\ pc \in {"artifact", "status", "get5", "succeed"}
  BY <1>1, LabelSteps DEF bridge, ReadArtifact, ReadStatus, ReadGet5, Goto
<1>3. names[claim.server][claim.match] = Roster[claim.lineup]
  BY <1>1, LabelSteps DEF bridge, ReadArtifact, ReadStatus, ReadGet5, Inspected
<1>4. /\ claim.server \in Servers /\ claim.match \in Matches
      /\ Roster[claim.lineup] # Null
  BY <1>2, ClaimedCommand, OfferFields, BridgeConstants DEF Working, BridgeConstants
<1>5. QED
  BY <1>2, <1>3, <1>4, NamesStay

(* What the game server writes is the roster of the configuration it       *)
(* loaded, and that one is still there.                                    *)
LEMMA NamesStep ==
    ASSUME TypeOK, Working, Shared, Kept, [Next]_vars,
           NEW s \in Servers, NEW m \in Matches, names'[s][m] # Null
    PROVE  names'[s][m] = Roster[files'[s][m].lineup]
<1>1. CASE names[s][m] # Null
  <2>1. Sent(s, m) /\ names[s][m] = Roster[files[s][m].lineup]
    BY <1>1 DEF Shared, Kept
  <2>2. QED
    BY <1>1, <2>1, SentStays, NamesStay DEF Shared
<1>2. CASE names[s][m] = Null
  <2>1. PICK t \in Servers : ServerWritesNames(t)
    BY <1>2, ServerSteps DEF Launches, host, ServerLoads, ServerDropsLoad,
                             ServerChangesMap, ServerResets
  <2>2. t = s /\ game[s].match = m
    BY <1>2, <2>1 DEF ServerWritesNames, TypeOK
  <2>3. Sent(s, m) /\ names'[s][m] = Roster[files[s][m].lineup]
    BY <2>1, <2>2 DEF ServerWritesNames, Shared, TypeOK
  <2>4. QED
    BY <2>3, SentStays DEF Shared
<1>3. QED
  BY <1>1, <1>2

LEMMA ManagedStep ==
    ASSUME TypeOK, Working, ManagedOnly, [Next]_vars
    PROVE  ManagedOnly'
<1>1. SUFFICES ASSUME NEW c \in Commands, journal'[c].state # "ABSENT"
               PROVE  journal'[c].identity.server \in Servers
  BY DEF ManagedOnly
<1>2. CASE journal[c].state # "ABSENT"
  <2>1. journal'[c].identity = journal[c].identity
    BY <1>2, JournalStep DEF Moves
  <2>2. QED
    BY <1>2, <2>1 DEF ManagedOnly
<1>3. CASE journal[c].state = "ABSENT"
  <2>1. c = claim.command /\ journal'[c].state = "RECEIVED" /\ journal' # journal
    BY <1>1, <1>3, JournalStep DEF Moves
  <2>2. pc \notin {"received", "succeed", "fail"}
    BY <1>3, <2>1 DEF Working, ClaimedRow
  <2>3. Observe
    BY <2>1, <2>2, StepKinds
       DEF Records, Launches, MarkApplying, MarkSucceeded, MarkFailed
  <2>4. /\ claim \in Offers /\ claim.server \in Servers
        /\ ClaimedRow \in Rows(Identities, Codes) /\ ~Conflicts(ClaimedRow, Identity(claim))
        /\ journal' = [journal EXCEPT ![c] = Observed(ClaimedRow, Identity(claim))]
    BY <2>1, <2>3, ClaimedCommand DEF Observe, Refused, Record, ClaimedRow
  <2>5. journal'[c].identity = Identity(claim)
    BY <2>4, OfferFields, ObservedRow DEF TypeOK
  <2>6. QED
    BY <2>4, <2>5, OfferFields
<1>4. QED
  BY <1>2, <1>3

(* What PreparedMeansRosterLoaded asks of one command.                     *)
RosterIsThere(c) ==
    LET identity == journal[c].identity
        config == files[identity.server][identity.match]
    IN  /\ LaunchedFor(identity)
        /\ \E o \in Offers : /\ o.command = c /\ Identity(o) = identity
                             /\ config # Null
                             /\ Roster[config.lineup] = Roster[o.lineup]

(* Where files and launches stay, it holds on.                             *)
LEMMA RosterStaysThere ==
    ASSUME TypeOK, ManagedOnly, FilesKept, NEW c \in Commands, RosterIsThere(c),
           journal[c].state = "SUCCEEDED", journal'[c].identity = journal[c].identity,
           \A i : LaunchedFor(i) => LaunchedFor(i)'
    PROVE  RosterIsThere(c)'
<1>1. PICK i \in Identities : journal[c].identity = i /\ journal'[c].identity = i
  BY RowShape DEF TypeOK
<1>2. i.server \in Servers /\ i.match \in Matches
  BY <1>1 DEF ManagedOnly, Identities
<1>3. LaunchedFor(i)'
  BY <1>1 DEF RosterIsThere
<1>4. LaunchedFor(journal[c].identity)'
  BY <1>1, <1>3 DEF LaunchedFor
<1>5. files[i.server][i.match] # Null
  BY <1>1 DEF RosterIsThere
<1>6. files'[i.server][i.match] = files[i.server][i.match]
  BY <1>2, <1>5 DEF FilesKept
<1>7. QED
  BY <1>1, <1>4, <1>6 DEF RosterIsThere

LEMMA PreparedStep ==
    ASSUME TypeOK, Working, Shared, Inspected, Kept, [Next]_vars
    PROVE  PreparedMeansRosterLoaded'
<1>1. SUFFICES ASSUME NEW c \in Commands, journal'[c].state = "SUCCEEDED"
               PROVE  RosterIsThere(c)'
  BY DEF PreparedMeansRosterLoaded, RosterIsThere
<1>2. FilesKept /\ \A i : LaunchedFor(i) => LaunchedFor(i)'
  BY FilesStay, LaunchedForStays DEF FilesKept, Shared
<1>3. CASE journal'[c] = journal[c]
  <2>1. RosterIsThere(c)
    BY <1>1, <1>3 DEF Kept, PreparedMeansRosterLoaded, RosterIsThere
  <2>2. QED
    BY <1>1, <1>2, <1>3, <2>1, RosterStaysThere DEF Kept
<1>4. CASE journal'[c] # journal[c]
  <2>1. pc = "succeed" /\ c = claim.command /\ UNCHANGED <<files, launches>>
    BY <1>1, <1>4, JournalStep
  <2>2. PICK i \in Identities : /\ journal[c].identity = i /\ journal'[c].identity = i
                                /\ Identity(claim) = i
    BY <1>1, <1>4, <2>1, JournalStep, ClaimedCommand, OfferFields DEF Working, ClaimedRow, Moves
  <2>3. /\ claim \in Offers /\ i.server = claim.server /\ i.match = claim.match
        /\ i.server \in Servers /\ i.match \in Matches
        /\ Sent(i.server, i.match)
        /\ names[i.server][i.match] = Roster[claim.lineup]
        /\ Roster[claim.lineup] # Null
    BY <2>1, <2>2, InspectedRoster, ClaimedCommand, OfferFields
  <2>4. Roster[files[i.server][i.match].lineup] = Roster[claim.lineup]
    BY <2>3 DEF Kept
  <2>5. files[i.server][i.match] # Null /\ LaunchedFor(i)
    BY <2>3 DEF Sent, LaunchedFor
  <2>6. files'[i.server][i.match] = files[i.server][i.match]
    BY <1>2, <2>3, <2>5 DEF FilesKept
  <2>7. LaunchedFor(i)'
    BY <1>2, <2>5
  <2>8. LaunchedFor(journal[c].identity)'
    BY <2>2, <2>7 DEF LaunchedFor
  <2>9. QED
    BY <2>1, <2>2, <2>3, <2>4, <2>5, <2>6, <2>8 DEF RosterIsThere
<1>5. QED
  BY <1>3, <1>4

(* A step of this process.                                                 *)
LEMMA StepIsSteady ==
    ASSUME TypeOK, Working, Shared, Inspected, Kept, [Next]_vars
    PROVE  Steady
<1>1. Inspected' /\ PreparedMeansRosterLoaded' /\ ManagedOnly'
  BY InspectedStep, PreparedStep, ManagedStep DEF Kept
<1>2. \A s \in Servers, m \in Matches :
         names'[s][m] # Null => names'[s][m] = Roster[files'[s][m].lineup]
  BY NamesStep
<1>3. QED
  BY <1>1, <1>2, NamesStay DEF Steady, Kept

(* What the materializer does beside another one, if that one's            *)
(* configuration is the same, or not there.                                *)
LEMMA MaterializerIsSteady ==
    ASSUME TypeOK, Shared, Kept, Overwrite \/ Denied, FilesKept
    PROVE  Steady
<1>1. /\ pc' \notin {"status", "get5", "succeed"}
      /\ names' = names /\ journal' = journal /\ launches' = launches
  BY DEF Overwrite, Denied, Goto, Leave, host
<1>2. ASSUME NEW s \in Servers, NEW m \in Matches, names[s][m] # Null
      PROVE  names[s][m] = Roster[files'[s][m].lineup]
  <2>1. Sent(s, m)
    BY <1>2 DEF Shared
  <2>2. files'[s][m] = files[s][m]
    BY <2>1 DEF Sent, FilesKept
  <2>3. QED
    BY <1>2, <2>2 DEF Kept
<1>3. \A i : LaunchedFor(i) => LaunchedFor(i)'
  BY <1>1 DEF LaunchedFor
<1>4. ASSUME NEW c \in Commands, journal'[c].state = "SUCCEEDED"
      PROVE  RosterIsThere(c)'
  <2>1. RosterIsThere(c)
    BY <1>1, <1>4 DEF Kept, PreparedMeansRosterLoaded, RosterIsThere
  <2>2. QED
    BY <1>1, <1>3, <1>4, <2>1, RosterStaysThere DEF Kept
<1>5. PreparedMeansRosterLoaded'
  BY <1>4 DEF PreparedMeansRosterLoaded, RosterIsThere
<1>6. ManagedOnly'
  BY <1>1 DEF Kept, ManagedOnly
<1>7. QED
  BY <1>1, <1>2, <1>5, <1>6 DEF Steady, Inspected, Kept

(* A steady step of the other process leaves what this one has read.       *)
LEMMA OtherKeepsInspected ==
    ASSUME TypeOK, Working, Inspected, UNCHANGED bridge,
           \A s \in Servers, m \in Matches : names[s][m] # Null => names'[s][m] = names[s][m]
    PROVE  Inspected'
  BY InspectedRoster DEF bridge, Inspected

LEMMA InitKept == ASSUME Init PROVE Inspected /\ Kept
  BY DEF Init, Inspected, Kept, ManagedOnly, PreparedMeansRosterLoaded, NoRow

(***************************************************************************)
(* Alone.                                                                  *)
(***************************************************************************)

(* A cycle that ends, and a step that is not the bridge's, keep Cycle.     *)
LEMMA LeaveKeepsCycle ==
    ASSUME NEW label \in {"down", "idle"}, Leave(label)
    PROVE  Cycle'
  BY DEF Leave, Cycle

LEMMA ElsewhereKeepsCycle ==
    ASSUME Cycle, UNCHANGED <<bridge, journal, launches>>
    PROVE  Cycle'
  BY DEF Cycle, bridge, ClaimedRow

LEMMA GotoKeepsCycle ==
    ASSUME TypeOK, Cycle, NEW label \in {"load", "fail", "status", "get5", "succeed"},
           Goto(label), UNCHANGED <<journal, launches>>,
           pc \in {"materialize", "load", "artifact", "status", "get5"},
           label \in {"load", "fail"} => pc \in {"materialize", "load"}
    PROVE  Cycle'
  BY DEF Goto, Cycle, ClaimedRow

LEMMA CycleStep ==
    ASSUME TypeOK, Cycle, Working, IntentBeforeEffect, [Next]_vars
    PROVE  Cycle'
<1>0. CASE UNCHANGED vars
  BY <1>0, ElsewhereKeepsCycle DEF vars
<1>1. CASE Restart
  BY <1>1, LeaveKeepsCycle DEF Restart
<1>2. CASE \E o \in Offers : Claim(o)
  BY <1>2, OfferFields DEF Claim, Cycle
<1>3. CASE Proceed
  <2>1. CASE ObserveRefused \/ GiveUp \/ SubmitResult \/ SubmitRefused
    BY <2>1, LeaveKeepsCycle DEF ObserveRefused, GiveUp, SubmitResult, SubmitRefused
  <2>2. CASE Observe
    <3> DEFINE entry == Observed(ClaimedRow, Identity(claim))
    <3>1. claim.command \in Commands
      BY <2>2, ClaimedCommand DEF Observe
    <3>2. /\ claim' = claim /\ Dispatch(entry)
          /\ journal' = [journal EXCEPT ![claim.command] = entry]
      BY <2>2 DEF Observe, Record, Dispatch, Goto, ClaimedRow
    <3>3. ClaimedRow' = entry
      BY <3>1, <3>2 DEF ClaimedRow, TypeOK
    <3>4. QED
      BY <3>2, <3>3 DEF Dispatch, Goto, Cycle, Terminal
  <2>3. CASE MarkApplying
    <3>1. claim.command \in Commands /\ ClaimedRow \in Rows(Identities, Codes)
      BY <2>3, ClaimedCommand DEF MarkApplying
    <3>2. /\ pc = "received" /\ Goto("materialize") /\ UNCHANGED launches
          /\ journal' = [journal EXCEPT ![claim.command] = Applied(ClaimedRow)]
          /\ MayApply(ClaimedRow)
      BY <2>3 DEF MarkApplying, Record, ClaimedRow
    <3>3. ClaimedRow' = Applied(ClaimedRow)
      BY <3>1, <3>2 DEF ClaimedRow, Goto, TypeOK
    <3>4. ClaimedRow'.state = "APPLYING"
      BY <3>1, <3>2, <3>3, AppliedRow
    <3>5. launches[claim.command] = 0
      <4>1. ClaimedRow.state = "RECEIVED"
        BY <3>2 DEF Cycle
      <4>2. ~(launches[claim.command] > 0)
        BY <3>1, <4>1 DEF IntentBeforeEffect, ClaimedRow, Terminal
      <4>3. QED
        BY <3>1, <4>2 DEF TypeOK
    <3>6. QED
      BY <3>1, <3>2, <3>4, <3>5 DEF Goto, Cycle
  <2>4. CASE WriteConfig \/ ReuseConfig \/ MaterializeFails
    BY <2>4, GotoKeepsCycle DEF WriteConfig, ReuseConfig, MaterializeFails
  <2>5. CASE LoadSent
    BY <2>5 DEF LoadSent, Cycle, ClaimedRow
  <2>6. CASE ReadArtifact \/ ReadStatus \/ ReadGet5
    BY <2>6, GotoKeepsCycle DEF ReadArtifact, ReadStatus, ReadGet5
  <2>7. CASE InspectAgain
    BY <2>7 DEF InspectAgain, EvidenceMissing, Cycle, ClaimedRow
  <2>8. CASE MarkSucceeded \/ MarkFailed
    BY <2>8 DEF MarkSucceeded, MarkFailed, Conclude, Cycle
  <2>9. QED
    BY <1>3, <2>1, <2>2, <2>3, <2>4, <2>5, <2>6, <2>7, <2>8 DEF Proceed
<1>4. CASE Fail
  <2>1. CASE \E o \in Offers : ClaimResponseLost(o)
    BY <2>1, LeaveKeepsCycle DEF ClaimResponseLost
  <2>2. CASE JournalRaises \/ TempFileDenied \/ LoadUncertain \/ CrashWhileLoading \/ SubmitUnanswered \/ Crash
    BY <2>2, LeaveKeepsCycle
       DEF JournalRaises, TempFileDenied, LoadUncertain, CrashWhileLoading, SubmitUnanswered, Crash
  <2>3. CASE LoadNotLaunched
    BY <2>3, GotoKeepsCycle DEF LoadNotLaunched
  <2>4. CASE LoadReplyUndecodable
    BY <2>4 DEF LoadReplyUndecodable, May, Goto, Cycle, ClaimedRow
  <2>5. QED
    BY <1>4, <2>1, <2>2, <2>3, <2>4 DEF Fail
<1>5. CASE Environment
  BY <1>5, ElsewhereKeepsCycle
     DEF Environment, LeaseExpires, DeliverLate, ServerLoads, ServerDropsLoad,
         ServerChangesMap, ServerWritesNames, ServerResets, Calm
<1>6. QED
  BY <1>0, <1>1, <1>2, <1>3, <1>4, <1>5 DEF Next

-----------------------------------------------------------------------------
(* Launches.                                                               *)
LEMMA OneLaunchStep ==
    ASSUME TypeOK, Cycle, Working, AtMostOneLaunch, [Next]_vars
    PROVE  AtMostOneLaunch'
<1>1. SUFFICES ASSUME NEW c \in Commands
               PROVE  launches'[c] <= 1
  BY DEF AtMostOneLaunch
<1>2. launches[c] <= 1 /\ launches[c] \in Nat
  BY DEF AtMostOneLaunch, TypeOK
<1>3. CASE Launches
  <2>1. /\ launches[claim.command] = 0 /\ claim.command \in Commands
        /\ launches' = [launches EXCEPT ![claim.command] = launches[claim.command] + 1]
    BY <1>3, ClaimedCommand DEF Launches, Launch, Cycle
  <2>2. QED
    BY <1>2, <2>1 DEF TypeOK
<1>4. CASE Records \/ UNCHANGED launches
  BY <1>2, <1>4 DEF Records, Observe, MarkApplying, MarkSucceeded, MarkFailed, Conclude
<1>5. QED
  BY <1>3, <1>4, StepKinds

LEMMA FailedStep ==
    ASSUME TypeOK, Cycle, Working, FailedAreHarmless, [Next]_vars
    PROVE  FailedAreHarmless'
<1>1. SUFFICES ASSUME "undecodable" \notin Faults, NEW c \in Commands,
                      journal'[c].state = "FAILED"
               PROVE  launches'[c] = 0
  BY DEF FailedAreHarmless, FailedMeansNeverLaunched
<1>2. CASE journal'[c] # journal[c]
  <2>1. pc = "fail" /\ c = claim.command /\ UNCHANGED launches
    BY <1>1, <1>2, JournalStep
  <2>2. QED
    BY <1>1, <2>1 DEF Cycle
<1>3. CASE journal'[c] = journal[c]
  <2>1. launches[c] = 0
    BY <1>1, <1>3 DEF FailedAreHarmless, FailedMeansNeverLaunched
  <2>2. CASE Launches
    <3>1. ClaimedRow.state = "APPLYING" /\ claim.command \in Commands
      BY <2>2, ClaimedCommand DEF Launches, Cycle
    <3>2. c # claim.command
      BY <1>1, <1>3, <3>1 DEF ClaimedRow
    <3>3. QED
      BY <2>1, <2>2, <3>1, <3>2 DEF Launches, Launch, TypeOK
  <2>3. CASE Records \/ UNCHANGED launches
    BY <2>1, <2>3 DEF Records, Observe, MarkApplying, MarkSucceeded, MarkFailed, Conclude
  <2>4. QED
    BY <2>2, <2>3, StepKinds
<1>4. QED
  BY <1>2, <1>3

-----------------------------------------------------------------------------

-----------------------------------------------------------------------------
LEMMA InitInductive == Init => Inductive
<1> SUFFICES ASSUME Init PROVE Inductive
  OBVIOUS
<1>1. TypeOK /\ Working /\ Shared /\ Inspected /\ Kept
  BY InitShared, InitKept
<1>2. Cycle /\ AtMostOneLaunch /\ FailedAreHarmless
  BY DEF Init, Cycle, AtMostOneLaunch, FailedAreHarmless, FailedMeansNeverLaunched, NoRow
<1>3. QED
  BY <1>1, <1>2 DEF Inductive

LEMMA StepInductive == Inductive /\ [Next]_vars => Inductive'
<1> SUFFICES ASSUME Inductive, [Next]_vars PROVE Inductive'
  OBVIOUS
<1>1. TypeOK' /\ Working' /\ Shared'
  BY StepIsOrderly DEF Inductive, Orderly
<1>2. Inspected' /\ Kept'
  BY StepIsSteady DEF Inductive, Steady
<1>3. Cycle' /\ AtMostOneLaunch' /\ FailedAreHarmless'
  BY CycleStep, OneLaunchStep, FailedStep DEF Inductive, Shared
<1>4. QED
  BY <1>1, <1>2, <1>3 DEF Inductive

(* Inductive holds in every reachable state.                               *)
THEOREM InductiveInvariant == Spec => []Inductive
  BY InitInductive, StepInductive, PTL DEF Spec

(* Every variable keeps its type.                                          *)
THEOREM TypeCorrect == Spec => []TypeOK
<1>1. Inductive => TypeOK
  BY DEF Inductive
<1>2. QED
  BY <1>1, InductiveInvariant, PTL

(* matchzy_loadmatch is launched at most once per command, for any number  *)
(* of commands, crashes, restarts, lost answers and repeated claims.       *)
THEOREM LaunchedAtMostOnce == Spec => []AtMostOneLaunch
<1>1. Inductive => AtMostOneLaunch
  BY DEF Inductive
<1>2. QED
  BY <1>1, InductiveInvariant, PTL

(* A launch leaves a durable trace before it happens.                      *)
THEOREM IntentIsDurable == Spec => []IntentBeforeEffect
<1>1. Inductive => IntentBeforeEffect
  BY DEF Inductive, Shared
<1>2. QED
  BY <1>1, InductiveInvariant, PTL

(* What the cycle is about to record, the journal takes.                   *)
THEOREM JournalNeverRefuses == Spec => []TransitionsAreAllowed
<1>1. Inductive => TransitionsAreAllowed
  BY DEF Inductive, Working, Cycle, ClaimedRow, TransitionsAreAllowed, NotAllowed, MayApply,
         MayComplete
<1>2. QED
  BY <1>1, InductiveInvariant, PTL

(* Central never hears two outcomes of a command, and none but the         *)
(* journal's.                                                              *)
THEOREM CentralHearsOneTruth == Spec => []OneTruth
<1>1. Inductive => OneTruth
  BY DEF Inductive, Shared
<1>2. QED
  BY <1>1, InductiveInvariant, PTL

(* Where every answer of rcon-cli can be decoded, FAILED means that the    *)
(* load was never sent.                                                    *)
THEOREM FailedIsHarmless ==
    ASSUME "undecodable" \notin Faults
    PROVE  Spec => []FailedMeansNeverLaunched
<1>1. Inductive => FailedMeansNeverLaunched
  BY DEF Inductive, FailedAreHarmless
<1>2. QED
  BY <1>1, InductiveInvariant, PTL

(* PREPARED means that the bridge sent a load of the match, and that the   *)
(* configuration on the server has the roster Central asked for.           *)
THEOREM PreparedIsLoaded == Spec => []PreparedMeansRosterLoaded
<1>1. Inductive => PreparedMeansRosterLoaded
  BY DEF Inductive, Kept
<1>2. QED
  BY <1>1, InductiveInvariant, PTL

(* Loads only reach servers and matches the journal holds.                 *)
THEOREM LoadsAreJournaled == Spec => []LoadsAreRecorded
<1>1. Inductive => LoadsAreRecorded
  BY DEF Inductive, Shared, Sent, LoadsAreRecorded, LaunchedFor
<1>2. QED
  BY <1>1, InductiveInvariant, PTL

(* A configuration, once written, is never replaced.                       *)
THEOREM ConfigIsKept == Spec => ConfigNeverRewritten
<1>1. Inductive /\ [Next]_vars =>
        [\A s \in Servers, m \in Matches :
            files[s][m] # Null => files'[s][m] = files[s][m]]_vars
  BY FilesStay DEF Inductive
<1>2. QED
  BY <1>1, InductiveInvariant, PTL DEF Spec, ConfigNeverRewritten

-----------------------------------------------------------------------------
(* Refinements.                                                            *)

(* The journal of the bridge follows the life cycle of a command.          *)
THEOREM JournalFollowsLifecycle == Spec => ImplementsLifecycle
<1> DEFINE phase == [c \in Commands |-> journal[c].state]
<1>1. Init => Lifecycle!Init
  BY DEF Init, Lifecycle!Init, NoRow
<1>2. Inductive /\ [Next]_vars => [Lifecycle!Next]_phase
  <2>1. SUFFICES ASSUME Inductive, [Next]_vars PROVE [Lifecycle!Next]_phase
    OBVIOUS
  <2>2. CASE journal' = journal
    BY <2>2
  <2>3. CASE journal' # journal
    <3>1. PICK c \in Commands : journal'[c] # journal[c]
      BY <2>1, <2>3, TypeStep DEF Inductive, TypeOK
    <3>2. \A d \in Commands : d # c => journal'[d] = journal[d]
      BY <2>1, <3>1, JournalStep DEF Inductive
    <3>3. Moves(c)
      BY <2>1, JournalStep DEF Inductive
    <3>4. phase' = [phase EXCEPT ![c] = journal'[c].state]
      BY <3>2
    <3>5. Lifecycle!Receive(c) \/ Lifecycle!Start(c) \/ Lifecycle!Finish(c)
      BY <3>1, <3>3, <3>4
         DEF Moves, Lifecycle!Receive, Lifecycle!Start, Lifecycle!Finish,
             Lifecycle!Advance, Terminal
    <3>6. QED
      BY <3>5 DEF Lifecycle!Next
  <2>4. QED
    BY <2>2, <2>3
<1>3. QED
  BY <1>1, <1>2, InductiveInvariant, PTL DEF Spec, Lifecycle!Spec, ImplementsLifecycle

(* A result that arrives makes the command's outcome known, and no other.  *)
LEMMA AcceptTells ==
    ASSUME Inductive, Inductive', "undecodable" \notin Faults, UNCHANGED launches,
           NEW c \in Commands, NEW r \in Outcomes,
           reported' = [reported EXCEPT ![c] = @ \cup {r}]
    PROVE  Contract!Tell(c, r.outcome)
<1> DEFINE told == [d \in Commands |-> {q.outcome : q \in reported[d]}]
<1>1. \A q \in reported'[c] : q.outcome = r.outcome
  <2>1. \A q \in reported'[c] : journal'[c].state = q.outcome
    BY DEF Inductive, Shared, OneTruth, Told
  <2>2. r \in reported'[c]
    BY DEF Inductive, TypeOK
  <2>3. QED
    BY <2>1, <2>2
<1>2. r.outcome = "FAILED" => ~(launches[c] > 0)
  <2>1. journal'[c].state = r.outcome
    <3>1. r \in Told(c)'
      BY DEF Inductive, TypeOK, Told
    <3>2. QED
      BY <3>1 DEF Inductive, Shared, OneTruth
  <2>2. QED
    BY <2>1 DEF Inductive, FailedAreHarmless, FailedMeansNeverLaunched
<1>3. told[c] \subseteq {r.outcome}
  BY <1>1 DEF Inductive, TypeOK
<1>4. told' = [told EXCEPT ![c] = {r.outcome}]
  <2>1. told'[c] = {r.outcome}
    BY <1>1 DEF Inductive, TypeOK
  <2>2. \A d \in Commands : d # c => told'[d] = told[d]
    BY DEF Inductive, TypeOK
  <2>3. QED
    BY <2>1, <2>2
<1>5. QED
  BY <1>2, <1>3, <1>4 DEF Contract!Tell

(* Central's contract: at most one execution, one outcome, FAILED only of  *)
(* a command that was never executed.                                      *)
THEOREM BridgeKeepsContract ==
    ASSUME "undecodable" \notin Faults
    PROVE  Spec => ImplementsContract
<1> DEFINE executed == [c \in Commands |-> launches[c] > 0]
           told == [c \in Commands |-> {r.outcome : r \in reported[c]}]
<1>1. Init => Contract!Init
  <2>1. SUFFICES ASSUME Init PROVE Contract!Init
    OBVIOUS
  <2>2. \A c \in Commands : (launches[c] > 0) = FALSE
    BY <2>1 DEF Init
  <2>3. executed = [c \in Commands |-> FALSE]
    BY <2>2, Zenon
  <2>4. told = [c \in Commands |-> {}]
    BY <2>1 DEF Init
  <2>5. QED
    BY <2>3, <2>4 DEF Contract!Init
<1>2. Inductive /\ Inductive' /\ [Next]_vars => [Contract!Next]_<<executed, told>>
  <2>1. SUFFICES ASSUME Inductive, Inductive', [Next]_vars
                 PROVE  [Contract!Next]_<<executed, told>>
    OBVIOUS
  <2>2. CASE Launches
    <3>1. PICK c \in Commands :
             /\ launches[c] = 0 /\ journal[c].state = "APPLYING"
             /\ launches' = [launches EXCEPT ![c] = @ + 1]
      BY <2>1, <2>2, ClaimedCommand
         DEF Launches, Launch, Cycle, ClaimedRow, Inductive
    <3>2. reported[c] = {}
      <4>1. \A r \in reported[c] : r.outcome \in Terminal /\ r.outcome = "APPLYING"
        BY <2>1, <3>1 DEF Inductive, Shared, OneTruth, Told, TypeOK, Outcomes
      <4>2. QED
        BY <4>1 DEF Terminal
    <3>3. ~executed[c]
      <4>1. ~(launches[c] > 0)
        BY <3>1
      <4>2. QED
        BY <4>1, Zenon
    <3>4. told[c] = {} /\ told' = told
      <4>1. told[c] = {}
        BY <3>2
      <4>2. told' = told
        BY <2>2 DEF Launches
      <4>3. QED
        BY <4>1, <4>2
    <3>5. executed' = [executed EXCEPT ![c] = TRUE]
      <4>1. /\ (launches'[c] > 0) = TRUE
            /\ \A d \in Commands : d # c => launches'[d] = launches[d]
        BY <2>1, <3>1 DEF Inductive, TypeOK
      <4>2. \A d \in Commands : (launches'[d] > 0) =
                                   IF d = c THEN TRUE ELSE launches[d] > 0
        BY <4>1
      <4>3. QED
        BY <4>2, Zenon
    <3>6. QED
      BY <3>3, <3>4, <3>5 DEF Contract!Next, Contract!Execute
  <2>3. CASE Records \/ UNCHANGED launches
    <3>1. launches' = launches
      BY <2>3 DEF Records, Observe, MarkApplying, MarkSucceeded, MarkFailed, Conclude
    <3>2. CASE reported' = reported
      BY <3>1, <3>2
    <3>3. CASE SubmitResult
      <4>1. PICK c \in Commands, r \in Outcomes :
               reported' = [reported EXCEPT ![c] = @ \cup {r}]
        BY <2>1, <3>3, MessageType DEF SubmitResult, Accept, Inductive
      <4>2. QED
        BY <2>1, <3>1, <4>1, AcceptTells DEF Contract!Next, Outcomes, Terminal
    <3>4. CASE \E m \in wire : DeliverLate(m)
      <4>1. PICK c \in Commands, r \in Outcomes :
               reported' = [reported EXCEPT ![c] = @ \cup {r}]
        BY <2>1, <3>4 DEF DeliverLate, Accept, Inductive, TypeOK
      <4>2. QED
        BY <2>1, <3>1, <4>1, AcceptTells DEF Contract!Next, Outcomes, Terminal
    <3>5. QED
      BY <2>1, <3>2, <3>3, <3>4, ResultSteps DEF SubmitUnanswered
  <2>4. QED
    BY <2>1, <2>2, <2>3, StepKinds
<1>3. QED
  BY <1>1, <1>2, InductiveInvariant, PTL DEF Spec, Contract!Spec, Contract!contract,
                                              ImplementsContract
=============================================================================
