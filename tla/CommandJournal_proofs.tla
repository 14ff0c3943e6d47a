------------------------ MODULE CommandJournal_proofs ------------------------
(***************************************************************************)
(* For any number of connections, commands, identities, codes, payloads    *)
(* and clock readings: what the journal records stays recorded, and what an*)
(* operation returns answers its call.                                     *)
(***************************************************************************)
EXTENDS CommandJournal, TLAPS

-----------------------------------------------------------------------------
(* The three writes the operations make, and what they are made of.        *)

Received(c) ==
    /\ rows[c].state = "ABSENT"
    /\ \E identity \in Identities, now \in Instants :
          /\ rows' = [rows EXCEPT ![c] = [identity |-> identity, state |-> "RECEIVED",
                                          result |-> Null]]
          /\ stamps' = [stamps EXCEPT ![c] = [NoStamps EXCEPT !.first_seen = now,
                                                              !.updated = now]]

Started(c) ==
    /\ rows[c].state = "RECEIVED"
    /\ rows' = [rows EXCEPT ![c] = [identity |-> rows[c].identity, state |-> "APPLYING",
                                    result |-> Null]]
    /\ \E now \in Instants :
          stamps' = [stamps EXCEPT ![c] = [stamps[c] EXCEPT !.started = now, !.updated = now]]

Finished(c) ==
    /\ rows[c].state = "APPLYING"
    /\ \E state \in Terminal, result \in Results :
          rows' = [rows EXCEPT ![c] = [identity |-> rows[c].identity, state |-> state,
                                       result |-> result]]
    /\ \E now \in Instants :
          stamps' = [stamps EXCEPT ![c] = [stamps[c] EXCEPT !.completed = now, !.updated = now]]

Moves == \E c \in Commands : Received(c) \/ Started(c) \/ Finished(c)

LEMMA ResultType ==
  ASSUME NEW raw \in RawCodes, Trim[raw] # Null, NEW payload \in Payloads \cup {Null}
  PROVE  [code |-> Trim[raw], json |-> payload] \in Results
  BY DEF Results, Codes

(* A transaction writes one row, as one of the three, or writes nothing.   *)
LEMMA CompleteMoves ==
  ASSUME TypeOK, NEW p \in Conns, NEW c \in Commands, NEW state \in Terminal,
         NEW raw \in RawCodes, NEW payload \in Payloads \cup {Null},
         Complete(p, c, state, raw, payload)
  PROVE  Moves \/ UNCHANGED <<rows, stamps>>
<1> DEFINE result == [code |-> Trim[raw], json |-> payload]
<1>1. result \in Results /\ MayComplete(rows[c], state, result)
  BY ResultType DEF Complete
<1> HIDE DEF result
<1>2. rows[c] \in Rows(Identities, Results)
  BY DEF TypeOK
<1>3. Completed(rows[c], state, result) =
        [identity |-> rows[c].identity, state |-> state, result |-> result]
  BY <1>1, <1>2 DEF Rows, NoRow, CommandState, Terminal, Completed, MayComplete
<1>4. CASE rows[c].state = "APPLYING"
  <2>1. \E now \in Instants :
            Write(p, c, Null, Completed(rows[c], state, result),
                  [stamps[c] EXCEPT !.completed = now, !.updated = now])
    BY <1>4 DEF Complete, result
  <2>2. PICK now \in Instants :
            Write(p, c, Null, Completed(rows[c], state, result),
                  [stamps[c] EXCEPT !.completed = now, !.updated = now])
    BY <2>1
  <2>3. rows' = [rows EXCEPT ![c] = [identity |-> rows[c].identity, state |-> state,
                                     result |-> result]]
    BY <1>3, <2>2 DEF Write
  <2>4. stamps' = [stamps EXCEPT ![c] = [stamps[c] EXCEPT !.completed = now, !.updated = now]]
    BY <2>2 DEF Write
  <2>5. Finished(c)
    BY <1>1, <1>4, <2>3, <2>4 DEF Finished
  <2>6. QED
    BY <2>5 DEF Moves
<1>5. CASE rows[c].state # "APPLYING"
  BY <1>5 DEF Complete, ReturnSelected
<1>6. QED
  BY <1>4, <1>5

LEMMA AppliedIs ==
  ASSUME TypeOK, NEW c \in Commands, MayApply(rows[c])
  PROVE  Applied(rows[c]) =
           [identity |-> rows[c].identity, state |-> "APPLYING", result |-> Null]
<1>1. rows[c] \in Rows(Identities, Results)
  BY DEF TypeOK
<1>2. QED
  BY <1>1 DEF Rows, NoRow, CommandState, Terminal, Applied, MayApply

LEMMA OneWrite == TypeOK /\ Next => Moves \/ UNCHANGED <<rows, stamps>>
<1> SUFFICES ASSUME TypeOK, Next PROVE Moves \/ UNCHANGED <<rows, stamps>>
  OBVIOUS
<1>1. ASSUME NEW p \in Conns, ReadVersion(p) \/ InitializeSchema(p) \/ Close(p) \/ ReadBack(p)
      PROVE  UNCHANGED <<rows, stamps>>
  BY <1>1 DEF ReadVersion, InitializeSchema, Close, ReadBack
<1>2. ASSUME NEW p \in Conns, NEW c \in Commands, NEW identity \in Identities,
             Observe(p, c, identity)
      PROVE  Moves \/ UNCHANGED <<rows, stamps>>
  <2>1. CASE rows[c].state = "ABSENT"
    <3>1. Observed(rows[c], identity) =
            [identity |-> identity, state |-> "RECEIVED", result |-> Null]
      BY <2>1 DEF Observed
    <3>2. Received(c)
      BY <1>2, <2>1, <3>1 DEF Observe, Received, Write
    <3>3. QED
      BY <3>2 DEF Moves
  <2>2. CASE rows[c].state # "ABSENT"
    BY <1>2, <2>2 DEF Observe, ReturnSelected
  <2>3. QED
    BY <2>1, <2>2
<1>3. ASSUME NEW p \in Conns, NEW c \in Commands, MarkApplying(p, c)
      PROVE  Moves \/ UNCHANGED <<rows, stamps>>
  <2>1. CASE rows[c].state = "RECEIVED"
    <3>1. Applied(rows[c]) =
            [identity |-> rows[c].identity, state |-> "APPLYING", result |-> Null]
      BY <1>3, AppliedIs DEF MarkApplying
    <3>2. Started(c)
      BY <1>3, <2>1, <3>1 DEF MarkApplying, Started, Write
    <3>3. QED
      BY <3>2 DEF Moves
  <2>2. CASE rows[c].state # "RECEIVED"
    BY <1>3, <2>2 DEF MarkApplying, ReturnSelected
  <2>3. QED
    BY <2>1, <2>2
<1>4. ASSUME NEW p \in Conns, NEW c \in Commands, NEW raw \in RawCodes,
             NEW payload \in Payloads \cup {Null},
             MarkSucceeded(p, c, raw, payload) \/ MarkFailed(p, c, raw, payload)
      PROVE  Moves \/ UNCHANGED <<rows, stamps>>
  BY <1>4, CompleteMoves DEF MarkSucceeded, MarkFailed, Terminal
<1>5. QED
  BY <1>1, <1>2, <1>3, <1>4 DEF Next

-----------------------------------------------------------------------------
(* The inductive invariant.                                                *)

(* Where a connection is says what it knows of the schema.                 *)
SchemaKnown ==
    /\ version # 0 => table
    /\ \A p \in Conns :
          /\ conn[p] = "read_new" => version \in {0, CurrentVersion}
          /\ conn[p] \in {"read_current", "open"} => version = CurrentVersion /\ table

Answers(k, row) ==
    /\ k.asked # Null => row.identity = k.asked
    /\ Stage[row.state] >= Stage[k.reached]
    /\ k.reached \in Terminal => row.state = k.reached

(* Before the entry is read back, the row itself answers.                  *)
CallsAnswered ==
    \A p \in Conns :
        call[p] # Null =>
            Answers(call[p], IF call[p].entry = Null THEN rows[call[p].command]
                                                     ELSE call[p].entry)

JournalInv == TypeOK /\ StampsTellTheState /\ SchemaKnown /\ CallsAnswered

LEMMA InitJournal == Init => JournalInv
<1> SUFFICES ASSUME Init PROVE JournalInv
  OBVIOUS
<1>1. NoRow \in Rows(Identities, Results) /\ NoStamps \in StampRecord
  BY DEF Rows, NoStamps, StampRecord
<1>2. TypeOK
  BY <1>1 DEF Init, TypeOK
<1>3. StampsTellTheState
  BY DEF Init, StampsTellTheState, NoRow, NoStamps, Stage
<1>4. SchemaKnown /\ CallsAnswered
  BY DEF Init, SchemaKnown, CallsAnswered
<1>5. QED
  BY <1>2, <1>3, <1>4 DEF JournalInv

LEMMA RowsTypeStep ==
  TypeOK /\ (Moves \/ UNCHANGED <<rows, stamps>>) =>
    /\ rows' \in [Commands -> Rows(Identities, Results)]
    /\ stamps' \in [Commands -> StampRecord]
<1> SUFFICES ASSUME TypeOK, Moves
             PROVE  /\ rows' \in [Commands -> Rows(Identities, Results)]
                    /\ stamps' \in [Commands -> StampRecord]
  BY DEF TypeOK
<1>1. PICK c \in Commands : Received(c) \/ Started(c) \/ Finished(c)
  BY DEF Moves
<1>2. rows[c] \in Rows(Identities, Results) /\ stamps[c] \in StampRecord
  BY DEF TypeOK
<1>3. rows[c].state # "ABSENT" => rows[c].identity \in Identities
  BY <1>2 DEF Rows, NoRow
<1>4. \A identity \in Identities :
          /\ \A state \in {"RECEIVED", "APPLYING"} :
               [identity |-> identity, state |-> state, result |-> Null] \in Rows(Identities, Results)
          /\ \A state \in Terminal, result \in Results :
               [identity |-> identity, state |-> state, result |-> result] \in Rows(Identities, Results)
  BY DEF Rows
<1>5. \A now \in Instants :
          /\ [NoStamps EXCEPT !.first_seen = now, !.updated = now] \in StampRecord
          /\ [stamps[c] EXCEPT !.started = now, !.updated = now] \in StampRecord
          /\ [stamps[c] EXCEPT !.completed = now, !.updated = now] \in StampRecord
  BY <1>2 DEF NoStamps, StampRecord
<1>6. PICK row \in Rows(Identities, Results), stamp \in StampRecord :
          rows' = [rows EXCEPT ![c] = row] /\ stamps' = [stamps EXCEPT ![c] = stamp]
  <2>1. CASE Received(c)
    BY <1>4, <1>5, <2>1 DEF Received
  <2>2. CASE Started(c)
    <3>1. PICK now \in Instants :
              stamps' = [stamps EXCEPT ![c] = [stamps[c] EXCEPT !.started = now, !.updated = now]]
      BY <2>2 DEF Started
    <3>2. rows[c].identity \in Identities
      BY <1>3, <2>2 DEF Started
    <3>3. QED
      BY <1>4, <1>5, <2>2, <3>1, <3>2 DEF Started
  <2>3. CASE Finished(c)
    <3>1. PICK now \in Instants :
              stamps' = [stamps EXCEPT ![c] = [stamps[c] EXCEPT !.completed = now, !.updated = now]]
      BY <2>3 DEF Finished
    <3>2. rows[c].identity \in Identities
      BY <1>3, <2>3 DEF Finished
    <3>3. PICK state \in Terminal, result \in Results :
              rows' = [rows EXCEPT ![c] = [identity |-> rows[c].identity, state |-> state,
                                           result |-> result]]
      BY <2>3 DEF Finished
    <3>4. QED
      BY <1>4, <1>5, <3>1, <3>2, <3>3
  <2>4. QED
    BY <1>1, <2>1, <2>2, <2>3
<1>7. QED
  BY <1>6 DEF TypeOK

LEMMA TypeStep == TypeOK /\ [Next]_vars => TypeOK'
<1> SUFFICES ASSUME TypeOK, [Next]_vars PROVE TypeOK'
  OBVIOUS
<1>1. CASE UNCHANGED vars
  BY <1>1 DEF TypeOK, vars
<1>2. CASE Next
  <2>1. /\ rows' \in [Commands -> Rows(Identities, Results)]
        /\ stamps' \in [Commands -> StampRecord]
    BY <1>2, OneWrite, RowsTypeStep
  <2>2. ASSUME NEW p \in Conns, ReadVersion(p) \/ InitializeSchema(p) \/ Close(p)
        PROVE  TypeOK'
    BY <2>1, <2>2 DEF TypeOK, ReadVersion, InitializeSchema, Close, Versions, CurrentVersion
  <2>3. ASSUME NEW p \in Conns, ReadBack(p) PROVE TypeOK'
    <3>1. call[p] \in CallRecord /\ rows[call[p].command] \in Rows(Identities, Results)
      BY <2>3 DEF ReadBack, TypeOK, CallRecord
    <3>2. [call[p] EXCEPT !.entry = rows[call[p].command]] \in CallRecord
      BY <3>1 DEF CallRecord
    <3>3. QED
      BY <2>1, <2>3, <3>2 DEF ReadBack, TypeOK
  <2>4. ASSUME NEW p \in Conns, NEW c \in Commands, NEW asked \in Identities \cup {Null},
               NEW reached \in CommandState, ReturnSelected(p, c, asked, reached)
        PROVE  TypeOK'
    BY <2>1, <2>4 DEF ReturnSelected, TypeOK, CallRecord
  <2>5. ASSUME NEW p \in Conns, NEW c \in Commands, NEW asked \in Identities \cup {Null},
               NEW row, row.state \in CommandState, NEW stamp, Write(p, c, asked, row, stamp)
        PROVE  TypeOK'
    BY <2>1, <2>5 DEF Write, TypeOK, CallRecord
  <2>6. ASSUME NEW p \in Conns, NEW c \in Commands, NEW identity \in Identities,
               Observe(p, c, identity)
        PROVE  TypeOK'
    BY <2>4, <2>5, <2>6 DEF Observe, Observed, CommandState
  <2>7. ASSUME NEW p \in Conns, NEW c \in Commands, MarkApplying(p, c) PROVE TypeOK'
    <3>1. Applied(rows[c]).state = "APPLYING"
      <4>1. MayApply(rows[c])
        BY <2>7 DEF MarkApplying
      <4>2. Applied(rows[c]) =
              [identity |-> rows[c].identity, state |-> "APPLYING", result |-> Null]
        BY <4>1, AppliedIs
      <4>3. QED
        BY <4>2
    <3>2. "APPLYING" \in CommandState
      BY DEF CommandState
    <3>3. CASE rows[c].state = "RECEIVED"
      BY <2>5, <2>7, <3>1, <3>2, <3>3 DEF MarkApplying
    <3>4. CASE rows[c].state # "RECEIVED"
      BY <2>4, <2>7, <3>2, <3>4 DEF MarkApplying
    <3>5. QED
      BY <3>3, <3>4
  <2>8. ASSUME NEW p \in Conns, NEW c \in Commands, NEW state \in Terminal, NEW raw \in RawCodes,
               NEW payload \in Payloads \cup {Null}, Complete(p, c, state, raw, payload)
        PROVE  TypeOK'
    <3>1. state \in CommandState
      BY DEF CommandState
    <3>2. QED
      BY <2>4, <2>5, <2>8, <3>1 DEF Complete, Completed
  <2>9. QED
    BY <1>2, <2>2, <2>3, <2>6, <2>7, <2>8 DEF Next, MarkSucceeded, MarkFailed, Terminal
<1>3. QED
  BY <1>1, <1>2

(* A transition changes one row, and goes one stage up.                    *)
LEMMA OneStageUp ==
  ASSUME TypeOK, NEW c \in Commands, Received(c) \/ Started(c) \/ Finished(c)
  PROVE  /\ \A d \in Commands : d # c => rows'[d] = rows[d] /\ stamps'[d] = stamps[d]
         /\ rows[c].state # "ABSENT" => rows'[c].identity = rows[c].identity
         /\ rows[c].state \notin Terminal
         /\ Stage[rows'[c].state] = Stage[rows[c].state] + 1
<1>1. c \in DOMAIN rows /\ c \in DOMAIN stamps /\ DOMAIN rows = Commands /\ DOMAIN stamps = Commands
  BY DEF TypeOK
<1>2. \E row, stamp : rows' = [rows EXCEPT ![c] = row] /\ stamps' = [stamps EXCEPT ![c] = stamp]
  <2>1. CASE Received(c)
    BY <2>1 DEF Received
  <2>2. CASE Started(c)
    BY <2>2 DEF Started
  <2>3. CASE Finished(c)
    BY <2>3 DEF Finished
  <2>4. QED
    BY <2>1, <2>2, <2>3
<1>3. \A d \in Commands : d # c => rows'[d] = rows[d] /\ stamps'[d] = stamps[d]
  BY <1>1, <1>2
<1>4. /\ rows[c].state # "ABSENT" => rows'[c].identity = rows[c].identity
      /\ rows[c].state \notin Terminal
      /\ Stage[rows'[c].state] = Stage[rows[c].state] + 1
  <2>1. CASE Received(c)
    <3>1. PICK identity \in Identities :
              rows' = [rows EXCEPT ![c] = [identity |-> identity, state |-> "RECEIVED",
                                           result |-> Null]]
      BY <2>1 DEF Received
    <3>2. rows[c].state = "ABSENT" /\ rows'[c].state = "RECEIVED"
      BY <1>1, <2>1, <3>1 DEF Received
    <3>3. QED
      BY <3>2 DEF Terminal, Stage
  <2>2. CASE Started(c)
    <3>1. rows[c].state = "RECEIVED" /\ rows'[c].state = "APPLYING"
          /\ rows'[c].identity = rows[c].identity
      BY <1>1, <2>2 DEF Started
    <3>2. QED
      BY <3>1 DEF Terminal, Stage
  <2>3. CASE Finished(c)
    <3>1. PICK state \in Terminal, result \in Results :
              rows' = [rows EXCEPT ![c] = [identity |-> rows[c].identity, state |-> state,
                                           result |-> result]]
      BY <2>3 DEF Finished
    <3>2. rows[c].state = "APPLYING" /\ rows'[c].state \in Terminal
          /\ rows'[c].identity = rows[c].identity
      BY <1>1, <2>3, <3>1 DEF Finished
    <3>3. QED
      BY <3>2 DEF Terminal, Stage
  <2>4. QED
    BY <2>1, <2>2, <2>3
<1>5. QED
  BY <1>3, <1>4

LEMMA StampsStep ==
  TypeOK /\ StampsTellTheState /\ (Moves \/ UNCHANGED <<rows, stamps>>) => StampsTellTheState'
<1> SUFFICES ASSUME TypeOK, StampsTellTheState, Moves PROVE StampsTellTheState'
  BY DEF StampsTellTheState
<1>1. PICK c \in Commands : Received(c) \/ Started(c) \/ Finished(c)
  BY DEF Moves
<1>2. \A d \in Commands : d # c => rows'[d] = rows[d] /\ stamps'[d] = stamps[d]
  BY <1>1, OneStageUp
<1>3. c \in DOMAIN rows /\ c \in DOMAIN stamps /\ stamps[c] \in StampRecord
  BY DEF TypeOK
<1> DEFINE Tells(row, s) ==
              /\ (s.first_seen # Null) <=> (Stage[row.state] >= 1)
              /\ (s.started # Null) <=> (Stage[row.state] >= 2)
              /\ (s.completed # Null) <=> (Stage[row.state] = 3)
              /\ s.updated = CASE Stage[row.state] <= 1 -> s.first_seen
                               [] Stage[row.state] = 2 -> s.started
                               [] Stage[row.state] = 3 -> s.completed
<1>4. Tells(rows[c], stamps[c])
  BY DEF StampsTellTheState
<1>5. \A now \in Instants : now # Null
  BY JournalConstants DEF JournalConstants
<1>6. Tells(rows'[c], stamps'[c])
  <2>1. CASE Received(c)
    <3>0. PICK identity \in Identities, now \in Instants :
              /\ rows' = [rows EXCEPT ![c] = [identity |-> identity, state |-> "RECEIVED",
                                              result |-> Null]]
              /\ stamps' = [stamps EXCEPT ![c] = [NoStamps EXCEPT !.first_seen = now,
                                                                  !.updated = now]]
      BY <2>1 DEF Received
    <3>1. /\ rows'[c].state = "RECEIVED"
          /\ stamps'[c] = [NoStamps EXCEPT !.first_seen = now, !.updated = now]
      BY <1>3, <3>0
    <3>2. /\ stamps'[c].first_seen = now /\ stamps'[c].updated = now
          /\ stamps'[c].started = Null /\ stamps'[c].completed = Null
      BY <3>1 DEF NoStamps
    <3>3. QED
      BY <1>5, <3>1, <3>2 DEF Stage
  <2>2. CASE Started(c)
    <3>1. PICK now \in Instants :
              stamps' = [stamps EXCEPT ![c] = [stamps[c] EXCEPT !.started = now, !.updated = now]]
      BY <2>2 DEF Started
    <3>2. rows'[c].state = "APPLYING" /\ rows[c].state = "RECEIVED"
      BY <1>3, <2>2 DEF Started
    <3>3. /\ stamps'[c].started = now /\ stamps'[c].updated = now
          /\ stamps'[c].first_seen = stamps[c].first_seen
          /\ stamps'[c].completed = stamps[c].completed
      BY <1>3, <3>1 DEF StampRecord
    <3>4. QED
      BY <1>4, <1>5, <3>2, <3>3 DEF Stage
  <2>3. CASE Finished(c)
    <3>1. PICK now \in Instants :
              stamps' = [stamps EXCEPT ![c] = [stamps[c] EXCEPT !.completed = now, !.updated = now]]
      BY <2>3 DEF Finished
    <3>2. rows'[c].state \in Terminal /\ rows[c].state = "APPLYING"
      BY <1>3, <2>3 DEF Finished
    <3>3. /\ stamps'[c].completed = now /\ stamps'[c].updated = now
          /\ stamps'[c].first_seen = stamps[c].first_seen
          /\ stamps'[c].started = stamps[c].started
      BY <1>3, <3>1 DEF StampRecord
    <3>4. QED
      BY <1>4, <1>5, <3>2, <3>3 DEF Stage, Terminal
  <2>4. QED
    BY <1>1, <2>1, <2>2, <2>3
<1>7. \A d \in Commands : Tells(rows'[d], stamps'[d])
  <2>1. ASSUME NEW d \in Commands, d # c PROVE Tells(rows'[d], stamps'[d])
    <3>1. Tells(rows[d], stamps[d])
      BY DEF StampsTellTheState
    <3>2. QED
      BY <1>2, <2>1, <3>1
  <2>2. QED
    BY <1>6, <2>1
<1>8. QED
  BY <1>7 DEF StampsTellTheState

(* Only a connection that found a new file sets the version, and to that of*)
(* every other connection that may get that far.                           *)
LEMMA SchemaStep == TypeOK /\ SchemaKnown /\ [Next]_vars => SchemaKnown'
<1> SUFFICES ASSUME TypeOK, SchemaKnown, [Next]_vars PROVE SchemaKnown'
  OBVIOUS
<1> USE DEF SchemaKnown, TypeOK, CurrentVersion
<1>1. CASE UNCHANGED vars
  BY <1>1 DEF vars
<1>2. ASSUME NEW p \in Conns, ReadVersion(p) PROVE SchemaKnown'
  BY <1>2 DEF ReadVersion
<1>3. ASSUME NEW p \in Conns, InitializeSchema(p) PROVE SchemaKnown'
  BY <1>3 DEF InitializeSchema
<1>4. ASSUME NEW p \in Conns, Close(p) PROVE SchemaKnown'
  BY <1>4 DEF Close
<1>5. CASE UNCHANGED <<version, table, conn>>
  BY <1>5
<1>6. ASSUME NEW p \in Conns, ReadBack(p) PROVE SchemaKnown'
  BY <1>5, <1>6 DEF ReadBack
<1>7. ASSUME NEW p \in Conns, NEW c \in Commands, NEW identity \in Identities,
             Observe(p, c, identity)
      PROVE  SchemaKnown'
  BY <1>5, <1>7 DEF Observe, Write, ReturnSelected
<1>8. ASSUME NEW p \in Conns, NEW c \in Commands, MarkApplying(p, c)
      PROVE  SchemaKnown'
  BY <1>5, <1>8 DEF MarkApplying, Write, ReturnSelected
<1>9. ASSUME NEW p \in Conns, NEW c \in Commands, NEW state \in Terminal, NEW raw \in RawCodes,
             NEW payload \in Payloads \cup {Null}, Complete(p, c, state, raw, payload)
      PROVE  SchemaKnown'
  BY <1>5, <1>9 DEF Complete, Write, ReturnSelected
<1>10. QED
  BY <1>1, <1>2, <1>3, <1>4, <1>6, <1>7, <1>8, <1>9
     DEF Next, MarkSucceeded, MarkFailed, Terminal

LEMMA StageOfStates ==
    /\ \A state \in CommandState : Stage[state] \in 1..3
    /\ \A state \in {"ABSENT"} \cup CommandState : Stage[state] \in 0..3
    /\ Stage["ABSENT"] = 0
    /\ \A state \in Terminal : Stage[state] = 3
  BY DEF Stage, CommandState, Terminal

(* A row that answers a call keeps answering it.                           *)
LEMMA StillAnswers ==
  ASSUME TypeOK, Moves \/ UNCHANGED <<rows, stamps>>,
         NEW k \in CallRecord, Answers(k, rows[k.command])
  PROVE  Answers(k, rows'[k.command])
<1> DEFINE c == k.command
<1>1. c \in Commands /\ k.reached \in CommandState /\ rows[c] \in Rows(Identities, Results)
  BY DEF CallRecord, TypeOK
<1>2. /\ Stage[k.reached] \in 1..3 /\ Stage[rows[c].state] \in 0..3
      /\ rows[c].state = "ABSENT" => Stage[rows[c].state] = 0
  BY <1>1, StageOfStates DEF Rows, NoRow, CommandState, Terminal
<1>3. CASE rows'[c] = rows[c]
  BY <1>3 DEF Answers
<1>4. CASE rows'[c] # rows[c]
  <2>1. PICK d \in Commands : Received(d) \/ Started(d) \/ Finished(d)
    BY <1>4 DEF Moves
  <2>2. d = c
    BY <1>1, <1>4, <2>1, OneStageUp
  <2>3. /\ rows[c].state # "ABSENT" => rows'[c].identity = rows[c].identity
        /\ rows[c].state \notin Terminal
        /\ Stage[rows'[c].state] = Stage[rows[c].state] + 1
    BY <2>1, <2>2, OneStageUp
  <2>4. rows[c].state # "ABSENT"
    BY <1>2 DEF Answers
  <2>5. QED
    BY <1>2, <2>3, <2>4 DEF Answers
<1>5. QED
  BY <1>3, <1>4

LEMMA CallsStep ==
  TypeOK /\ CallsAnswered /\ [Next]_vars => CallsAnswered'
<1> SUFFICES ASSUME TypeOK, CallsAnswered, [Next]_vars PROVE CallsAnswered'
  OBVIOUS
<1>1. Moves \/ UNCHANGED <<rows, stamps>>
  BY OneWrite DEF vars
<1>2. call \in [Conns -> CallRecord \cup {Null}] /\ rows \in [Commands -> Rows(Identities, Results)]
  BY DEF TypeOK
<1>3. ASSUME NEW p \in Conns, call[p] # Null,
             call'[p] = call[p]
      PROVE  Answers(call[p], IF call[p].entry = Null THEN rows'[call[p].command]
                                                     ELSE call[p].entry)
  <2>1. call[p] \in CallRecord
    BY <1>2, <1>3
  <2>2. Answers(call[p], IF call[p].entry = Null THEN rows[call[p].command] ELSE call[p].entry)
    BY <1>3 DEF CallsAnswered
  <2>3. QED
    BY <1>1, <2>1, <2>2, StillAnswers
<1>4. CASE UNCHANGED call
  BY <1>3, <1>4 DEF CallsAnswered
<1>5. ASSUME NEW p \in Conns, NEW k, call' = [call EXCEPT ![p] = k],
             k # Null => Answers(k, IF k.entry = Null THEN rows'[k.command] ELSE k.entry)
      PROVE  CallsAnswered'
  <2>1. ASSUME NEW q \in Conns, call'[q] # Null
        PROVE  Answers(call'[q], IF call'[q].entry = Null THEN rows'[call'[q].command]
                                                          ELSE call'[q].entry)
    <3>1. CASE q = p
      BY <1>2, <1>5, <2>1, <3>1
    <3>2. CASE q # p
      <4>1. call'[q] = call[q]
        BY <1>2, <1>5, <3>2
      <4>2. QED
        BY <1>3, <2>1, <4>1
    <3>3. QED
      BY <3>1, <3>2
  <2>2. QED
    BY <2>1 DEF CallsAnswered
<1>6. ASSUME NEW p \in Conns, ReadVersion(p) \/ InitializeSchema(p) PROVE CallsAnswered'
  BY <1>4, <1>6 DEF ReadVersion, InitializeSchema
<1>7. ASSUME NEW p \in Conns, Close(p) PROVE CallsAnswered'
  BY <1>5, <1>7 DEF Close
<1>8. ASSUME NEW p \in Conns, ReadBack(p) PROVE CallsAnswered'
  <2> DEFINE row == rows[call[p].command]
             k == [call[p] EXCEPT !.entry = row]
  <2>1. call[p] \in CallRecord /\ call[p] # Null /\ call[p].entry = Null
    BY <1>2, <1>8 DEF ReadBack
  <2>2. Answers(call[p], row)
    BY <2>1 DEF CallsAnswered
  <2>3. /\ k.command = call[p].command /\ k.asked = call[p].asked
        /\ k.reached = call[p].reached /\ k.entry = row
    BY <2>1 DEF CallRecord
  <2>4. Answers(k, row)
    BY <2>2, <2>3 DEF Answers
  <2>5. rows' = rows /\ call' = [call EXCEPT ![p] = k]
    BY <1>2, <1>8 DEF ReadBack
  <2> HIDE DEF k, row
  <2>6. Answers(k, IF k.entry = Null THEN rows'[k.command] ELSE k.entry)
    BY <2>3, <2>4, <2>5 DEF row
  <2>7. QED
    BY <1>5, <2>5, <2>6
<1>9. ASSUME NEW p \in Conns, NEW c \in Commands, NEW asked \in Identities \cup {Null},
             NEW reached \in CommandState, ReturnSelected(p, c, asked, reached),
             asked # Null => rows[c].identity = asked,
             Stage[rows[c].state] >= Stage[reached],
             reached \in Terminal => rows[c].state = reached
      PROVE  CallsAnswered'
  <2> DEFINE k == [command |-> c, asked |-> asked, reached |-> reached, entry |-> rows[c]]
  <2>1. call' = [call EXCEPT ![p] = k] /\ rows' = rows
    BY <1>9 DEF ReturnSelected
  <2>2. Answers(k, rows[c]) /\ k.entry = rows[c] /\ k.command = c
    BY <1>9 DEF Answers
  <2> HIDE DEF k
  <2>3. QED
    BY <1>5, <2>1, <2>2
<1>10. ASSUME NEW p \in Conns, NEW c \in Commands, NEW asked \in Identities \cup {Null},
              NEW row, row.state \in CommandState, NEW stamp, Write(p, c, asked, row, stamp),
              asked # Null => row.identity = asked
       PROVE  CallsAnswered'
  <2> DEFINE k == [command |-> c, asked |-> asked, reached |-> row.state, entry |-> Null]
  <2>1. call' = [call EXCEPT ![p] = k] /\ rows'[c] = row
    BY <1>2, <1>10 DEF Write
  <2>2. Answers(k, row)
    BY <1>10, StageOfStates DEF Answers
  <2>3. k.entry = Null /\ k.command = c
    OBVIOUS
  <2> HIDE DEF k
  <2>4. QED
    BY <1>5, <2>1, <2>2, <2>3
<1>11. ASSUME NEW p \in Conns, NEW c \in Commands, NEW identity \in Identities,
              Observe(p, c, identity)
       PROVE  CallsAnswered'
  <2>1. rows[c] \in Rows(Identities, Results)
    BY <1>2
  <2>2. rows[c].state # "ABSENT" => rows[c].identity = identity /\ rows[c].state \in CommandState
    BY <1>11, <2>1 DEF Observe, Conflicts, Rows, NoRow, CommandState, Terminal
  <2>3. "RECEIVED" \in CommandState /\ "RECEIVED" \notin Terminal /\ Stage["RECEIVED"] = 1
    BY DEF CommandState, Terminal, Stage
  <2>4. CASE rows[c].state = "ABSENT"
    <3>1. Observed(rows[c], identity) =
            [identity |-> identity, state |-> "RECEIVED", result |-> Null]
      BY <2>4 DEF Observed
    <3>2. /\ Observed(rows[c], identity).identity = identity
          /\ Observed(rows[c], identity).state \in CommandState
      BY <2>3, <3>1
    <3>3. QED
      BY <1>10, <1>11, <2>4, <3>2 DEF Observe
  <2>5. CASE rows[c].state # "ABSENT"
    <3>1. Stage[rows[c].state] >= Stage["RECEIVED"]
      BY <2>2, <2>3, <2>5, StageOfStates
    <3>2. ReturnSelected(p, c, identity, "RECEIVED")
      BY <1>11, <2>5 DEF Observe
    <3>3. QED
      BY <1>9, <2>2, <2>3, <2>5, <3>1, <3>2
  <2>6. QED
    BY <2>4, <2>5
<1>12. ASSUME NEW p \in Conns, NEW c \in Commands, MarkApplying(p, c)
       PROVE  CallsAnswered'
  <2>1. MayApply(rows[c])
    BY <1>12 DEF MarkApplying
  <2>2. Applied(rows[c]) =
          [identity |-> rows[c].identity, state |-> "APPLYING", result |-> Null]
    BY <2>1, AppliedIs
  <2>3. "APPLYING" \in CommandState /\ "APPLYING" \notin Terminal /\ Stage["APPLYING"] = 2
    BY DEF CommandState, Terminal, Stage
  <2>4. Applied(rows[c]).state = "APPLYING"
    BY <2>2
  <2>5. CASE rows[c].state = "RECEIVED"
    BY <1>10, <1>12, <2>3, <2>4, <2>5 DEF MarkApplying
  <2>6. CASE rows[c].state # "RECEIVED"
    <3>1. rows[c].state = "APPLYING" /\ ReturnSelected(p, c, Null, "APPLYING")
      BY <1>12, <2>1, <2>6 DEF MarkApplying, MayApply
    <3>2. QED
      BY <1>9, <2>3, <3>1
  <2>7. QED
    BY <2>5, <2>6
<1>13. ASSUME NEW p \in Conns, NEW c \in Commands, NEW state \in Terminal, NEW raw \in RawCodes,
              NEW payload \in Payloads \cup {Null}, Complete(p, c, state, raw, payload)
       PROVE  CallsAnswered'
  <2>1. state \in CommandState /\ Stage[state] = 3
    BY StageOfStates DEF CommandState
  <2>2. CASE rows[c].state = "APPLYING"
    BY <1>10, <1>13, <2>1, <2>2 DEF Complete, Completed
  <2>3. CASE rows[c].state # "APPLYING"
    <3>1. rows[c].state = state /\ ReturnSelected(p, c, Null, state)
      BY <1>13, <2>3 DEF Complete, MayComplete
    <3>2. QED
      BY <1>9, <2>1, <3>1
  <2>4. QED
    BY <2>2, <2>3
<1>14. CASE UNCHANGED vars
  BY <1>4, <1>14 DEF vars
<1>15. QED
  BY <1>6, <1>7, <1>8, <1>11, <1>12, <1>13, <1>14 DEF Next, MarkSucceeded, MarkFailed, Terminal

THEOREM JournalInvariant == Spec => []JournalInv
<1>1. Init => JournalInv
  BY InitJournal
<1>2. JournalInv /\ [Next]_vars => JournalInv'
  <2> SUFFICES ASSUME JournalInv, [Next]_vars PROVE JournalInv'
    OBVIOUS
  <2>1. TypeOK' /\ SchemaKnown' /\ CallsAnswered'
    BY TypeStep, SchemaStep, CallsStep DEF JournalInv
  <2>2. StampsTellTheState'
    BY OneWrite, StampsStep DEF JournalInv, vars
  <2>3. QED
    BY <2>1, <2>2 DEF JournalInv
<1>3. QED
  BY <1>1, <1>2, PTL DEF Spec

-----------------------------------------------------------------------------
(* Every row the journal holds is a row its code can make.                 *)
THEOREM JournalTypeCorrect == Spec => []TypeOK
<1>1. JournalInv => TypeOK
  BY DEF JournalInv
<1>2. QED
  BY <1>1, JournalInvariant, PTL

(* The stamps tell the state, whatever the clock shows.                    *)
THEOREM StampsAreRight == Spec => []StampsTellTheState
<1>1. JournalInv => StampsTellTheState
  BY DEF JournalInv
<1>2. QED
  BY <1>1, JournalInvariant, PTL

(* An open connection works on this release's schema, although user_version*)
(* is read outside the transaction that creates it.                        *)
THEOREM SchemaIsCurrent == Spec => []OpenMeansCurrentSchema
<1>1. JournalInv => OpenMeansCurrentSchema
  BY DEF JournalInv, SchemaKnown, OpenMeansCurrentSchema
<1>2. QED
  BY <1>1, JournalInvariant, PTL

(* The entry read back after the COMMIT answers the call.                  *)
THEOREM EntriesAnswer == Spec => []EntryAnswersTheCall
<1>1. JournalInv => EntryAnswersTheCall
  <2> SUFFICES ASSUME JournalInv, NEW p \in Conns, call[p] # Null, call[p].entry # Null
               PROVE  Answers(call[p], call[p].entry)
    BY DEF EntryAnswersTheCall, Answers
  <2>1. QED
    BY DEF JournalInv, CallsAnswered
<1>2. QED
  BY <1>1, JournalInvariant, PTL

(* A database of another release is left as it is.                         *)
THEOREM OtherReleaseIsLeftAlone == Spec => OtherReleaseUntouched
<1>1. JournalInv /\ [Next]_vars =>
        [version \notin {0, CurrentVersion} => UNCHANGED <<version, table, rows, stamps>>]_vars
  <2> SUFFICES ASSUME JournalInv, Next, version \notin {0, CurrentVersion}
               PROVE  UNCHANGED <<version, table, rows, stamps>>
    OBVIOUS
  <2>1. \A p \in Conns : conn[p] = "closed"
    BY DEF JournalInv, SchemaKnown, TypeOK
  <2>2. ASSUME NEW p \in Conns, ReadVersion(p) PROVE FALSE
    BY <2>2 DEF ReadVersion
  <2>3. ASSUME NEW p \in Conns, InitializeSchema(p) \/ Close(p) \/ ReadBack(p) PROVE FALSE
    BY <2>1, <2>3 DEF InitializeSchema, Close, ReadBack
  <2>4. ASSUME NEW p \in Conns, Ready(p) PROVE FALSE
    BY <2>1, <2>4 DEF Ready
  <2>5. ASSUME NEW p \in Conns, NEW c \in Commands, NEW identity \in Identities,
               Observe(p, c, identity)
        PROVE  FALSE
    BY <2>4, <2>5 DEF Observe
  <2>6. ASSUME NEW p \in Conns, NEW c \in Commands, MarkApplying(p, c) PROVE FALSE
    BY <2>4, <2>6 DEF MarkApplying
  <2>7. ASSUME NEW p \in Conns, NEW c \in Commands, NEW raw \in RawCodes,
               NEW payload \in Payloads \cup {Null},
               MarkSucceeded(p, c, raw, payload) \/ MarkFailed(p, c, raw, payload)
        PROVE  FALSE
    BY <2>4, <2>7 DEF MarkSucceeded, MarkFailed, Complete
  <2>8. QED
    BY <2>2, <2>3, <2>5, <2>6, <2>7 DEF Next
<1>2. QED
  BY <1>1, JournalInvariant, PTL DEF Spec, OtherReleaseUntouched

(* Identities and first stamps never change, terminal rows not at all.     *)
THEOREM RecordsStay == Spec => RecordsAreKept
<1> DEFINE Kept(c) ==
        /\ rows[c].state # "ABSENT" =>
              /\ rows'[c].identity = rows[c].identity
              /\ stamps'[c].first_seen = stamps[c].first_seen
        /\ rows[c].state = "APPLYING" => stamps'[c].started = stamps[c].started
        /\ rows[c].state \in Terminal => rows'[c] = rows[c] /\ stamps'[c] = stamps[c]
<1>1. JournalInv /\ [Next]_vars => [\A c \in Commands : Kept(c)]_vars
  <2> SUFFICES ASSUME TypeOK, Next, NEW c \in Commands PROVE Kept(c)
    BY DEF JournalInv
  <2>1. CASE UNCHANGED <<rows, stamps>>
    BY <2>1
  <2>2. ASSUME NEW d \in Commands, Received(d) \/ Started(d) \/ Finished(d) PROVE Kept(c)
    <3>1. d # c => rows'[c] = rows[c] /\ stamps'[c] = stamps[c]
      BY <2>2, OneStageUp
    <3>2. CASE d = c
      <4>1. /\ rows[c].state # "ABSENT" => rows'[c].identity = rows[c].identity
            /\ rows[c].state \notin Terminal
        BY <2>2, <3>2, OneStageUp
      <4>2. stamps[c] \in StampRecord /\ c \in DOMAIN stamps
        BY DEF TypeOK
      <4>3. CASE Received(c)
        BY <4>3 DEF Received, Terminal
      <4>4. CASE Started(c)
        <5>1. PICK now \in Instants :
                stamps' = [stamps EXCEPT ![c] = [stamps[c] EXCEPT !.started = now, !.updated = now]]
          BY <4>4 DEF Started
        <5>2. stamps'[c].first_seen = stamps[c].first_seen /\ rows[c].state = "RECEIVED"
          BY <4>2, <4>4, <5>1 DEF Started, StampRecord
        <5>3. QED
          BY <4>1, <5>2
      <4>5. CASE Finished(c)
        <5>1. PICK now \in Instants :
                stamps' = [stamps EXCEPT ![c] = [stamps[c] EXCEPT !.completed = now, !.updated = now]]
          BY <4>5 DEF Finished
        <5>2. /\ stamps'[c].first_seen = stamps[c].first_seen
              /\ stamps'[c].started = stamps[c].started
          BY <4>2, <5>1 DEF StampRecord
        <5>3. QED
          BY <4>1, <5>2
      <4>6. QED
        BY <2>2, <3>2, <4>3, <4>4, <4>5
    <3>3. QED
      BY <3>1, <3>2
  <2>3. QED
    BY <2>1, <2>2, OneWrite DEF Moves
<1>2. QED
  BY <1>1, JournalInvariant, PTL DEF Spec, RecordsAreKept

(* The journal implements the life cycle of a command: any number of       *)
(* connections together never skip a phase or leave one backwards.         *)
THEOREM JournalImplementsLifecycle == Spec => ImplementsLifecycle
<1> DEFINE phase == [c \in Commands |-> rows[c].state]
<1>1. Init => Lifecycle!Init
  BY DEF Init, Lifecycle!Init, NoRow
<1>2. JournalInv /\ [Next]_vars => [Lifecycle!Next]_phase
  <2> SUFFICES ASSUME TypeOK, [Next]_vars PROVE [Lifecycle!Next]_phase
    BY DEF JournalInv
  <2>1. CASE UNCHANGED <<rows, stamps>>
    BY <2>1
  <2>2. ASSUME NEW c \in Commands, Received(c) \/ Started(c) \/ Finished(c)
        PROVE  Lifecycle!Next
    <3>1. \A d \in Commands : d # c => rows'[d] = rows[d]
      BY <2>2, OneStageUp
    <3>2. c \in DOMAIN rows
      BY DEF TypeOK
    <3>3. \/ rows[c].state = "ABSENT" /\ rows'[c].state = "RECEIVED"
          \/ rows[c].state = "RECEIVED" /\ rows'[c].state = "APPLYING"
          \/ rows[c].state = "APPLYING" /\ rows'[c].state \in Terminal
      <4>1. CASE Received(c)
        <5>1. PICK identity \in Identities :
                rows' = [rows EXCEPT ![c] = [identity |-> identity, state |-> "RECEIVED",
                                             result |-> Null]]
          BY <4>1 DEF Received
        <5>2. QED
          BY <3>2, <4>1, <5>1 DEF Received
      <4>2. CASE Started(c)
        BY <3>2, <4>2 DEF Started
      <4>3. CASE Finished(c)
        <5>1. PICK state \in Terminal, result \in Results :
                rows' = [rows EXCEPT ![c] = [identity |-> rows[c].identity, state |-> state,
                                             result |-> result]]
          BY <4>3 DEF Finished
        <5>2. QED
          BY <3>2, <4>3, <5>1 DEF Finished
      <4>4. QED
        BY <2>2, <4>1, <4>2, <4>3
    <3>4. phase' = [phase EXCEPT ![c] = rows'[c].state]
      BY <3>1
    <3>5. Lifecycle!Receive(c) \/ Lifecycle!Start(c) \/ Lifecycle!Finish(c)
      BY <3>3, <3>4
         DEF Lifecycle!Receive, Lifecycle!Start, Lifecycle!Finish, Lifecycle!Advance, Terminal
    <3>6. QED
      BY <3>5 DEF Lifecycle!Next
  <2>3. Moves \/ UNCHANGED <<rows, stamps>>
    BY OneWrite DEF vars
  <2>4. QED
    BY <2>1, <2>2, <2>3 DEF Moves
<1>3. QED
  BY <1>1, <1>2, JournalInvariant, PTL DEF Spec, ImplementsLifecycle, Lifecycle!Spec
=============================================================================
