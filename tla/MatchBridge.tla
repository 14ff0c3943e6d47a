----------------------------- MODULE MatchBridge -----------------------------
(***************************************************************************)
(* The prepare cycle of the bridge (orchestration.prepare_one_cycle) and   *)
(* everything it touches: the Central Auth API that leases commands and is *)
(* told results, the journal, the configuration file on the game server's  *)
(* disk, the RCON load and the evidence the verifier reads back.           *)
(* A definition marked "mutant" is not part of the model: it is a bug that *)
(* the definition after it must not have (see README.md).                  *)
(*                                                                         *)
(* One action per durable or externally visible effect, in the order of    *)
(* the code, so that the process may die between any two of them.  Central,*)
(* rcon-cli and CS2/MatchZy are not in this repository: their actions say  *)
(* only what the code has to cope with.                                    *)
(***************************************************************************)
EXTENDS JournalRows, Naturals

CONSTANTS
    Commands, Assignments, ServerKeys, Matches, Maps,
    Lineups,    \* ordered teams A and B, as rendered into the configuration
    Rosters,    \* sets of SteamIDs
    Roster,     \* [Lineups -> Rosters]: who plays in a lineup
    Offers,     \* the command payloads Central may hand out
    Servers,    \* the server keys of this node's registry
    MaxPolls,   \* bound on the inspections of one wait_for_matchzy_prepared
    Faults      \* the kinds of failure that may happen, see May

OfferRecord == [command: Commands, assignment: Assignments, server: ServerKeys,
                match: Matches, map: Maps, lineup: Lineups]

FaultKinds == {"crash",         \* the process is killed (SIGKILL, OOM)
               "network",       \* a request or a response is lost
               "rcon",          \* rcon-cli cannot be launched, times out or exits non-zero
               "undecodable",   \* rcon-cli answers bytes that are not UTF-8
               "disk",          \* an error the materializer turns into MatchZyActuationError
               "mkstemp",       \* an error creating the temporary file
               "journal"}       \* SQLite raises: the file is locked, the disk is full

ASSUME BridgeConstants ==
    /\ Offers \subseteq OfferRecord
    /\ Servers \subseteq ServerKeys
    /\ Roster \in [Lineups -> Rosters]
    /\ MaxPolls \in Nat \ {0}
    /\ Faults \subseteq FaultKinds
    /\ Null \notin Offers /\ Null \notin Matches /\ Null \notin Rosters
    /\ Null \notin [map: Maps, lineup: Lineups]

VARIABLES
    pc,         \* the bridge: which effect of the cycle comes next
    claim,      \* the claimed command, or Null
    polls,      \* inspections left in this cycle
    result,     \* the outcome and code about to be submitted, or Null
    journal,    \* the rows of the journal, durable
    lease,      \* Central: whether a command is leased
    reported,   \* Central: the results it accepted for each command
    wire,       \* result requests sent and not (yet) taken by Central
    files,      \* hsc-match-bridge/<match>.json of each server, or Null
    loads,      \* matchzy_loadmatch requests that may still take effect
    game,       \* the loaded match (or Null) and the map of each server
    names,      \* the roster in MatchZyPlayerNames/Match_<match>.ini, or Null
    launches,   \* how often rcon-cli was launched to load for a command
    calm        \* no more faults (used by the liveness properties only)

bridge == <<pc, claim, polls, result>>
central == <<lease, reported, wire>>
host == <<loads, game, names>>
vars == <<bridge, journal, central, files, host, launches, calm>>

Identities == [assignment: Assignments, server: ServerKeys, match: Matches]
Codes == {"PREPARED", "LOCAL_ACTUATION_FAILED"}
Outcomes == [outcome: Terminal, code: Codes]
Configs == [map: Maps, lineup: Lineups]
Labels == {"down", "idle", "claimed", "received", "materialize", "load", "artifact",
           "status", "get5", "succeed", "fail", "submit"}

TypeOK ==
    /\ pc \in Labels
    /\ claim \in Offers \cup {Null}
    /\ polls \in 0..MaxPolls
    /\ result \in Outcomes \cup {Null}
    /\ journal \in [Commands -> Rows(Identities, Codes)]
    /\ lease \in [Commands -> BOOLEAN]
    /\ reported \in [Commands -> SUBSET Outcomes]
    /\ wire \in SUBSET [command: Commands, result: Outcomes]
    /\ files \in [Servers -> [Matches -> Configs \cup {Null}]]
    /\ loads \in SUBSET [server: Servers, match: Matches]
    /\ game \in [Servers -> [match: Matches \cup {Null}, map: Maps]]
    /\ names \in [Servers -> [Matches -> Rosters \cup {Null}]]
    /\ launches \in [Commands -> Nat]
    /\ calm \in BOOLEAN

(* A fresh installation: empty journal, no configuration, no match loaded. *)
Init ==
    /\ pc = "down" /\ claim = Null /\ polls = 0 /\ result = Null
    /\ journal = [c \in Commands |-> NoRow]
    /\ lease = [c \in Commands |-> FALSE]
    /\ reported = [c \in Commands |-> {}]
    /\ wire = {}
    /\ files = [s \in Servers |-> [m \in Matches |-> Null]]
    /\ loads = {}
    /\ game \in [Servers -> [match: {Null}, map: Maps]]
    /\ names = [s \in Servers |-> [m \in Matches |-> Null]]
    /\ launches = [c \in Commands |-> 0]
    /\ calm = FALSE

May(fault) == fault \in Faults /\ ~calm

Identity(o) == [assignment |-> o.assignment, server |-> o.server, match |-> o.match]
Config(o) == [map |-> o.map, lineup |-> o.lineup]

(* The cycle is over: back to the loop, or out of the process.             *)
Leave(label) == pc' = label /\ claim' = Null /\ polls' = 0 /\ result' = Null

AtWork(c) == claim # Null /\ claim.command = c

Goto(label) == pc' = label /\ UNCHANGED <<claim, polls, result>>

Record(row) == journal' = [journal EXCEPT ![claim.command] = row]

-----------------------------------------------------------------------------
(* The bridge: starting, claiming, observing.                              *)

(* main, run_daemon, and systemd's Restart=on-failure: every exception     *)
(* but ConnectionError ends the process, which is started again.           *)
Restart ==
    /\ pc = "down"
    /\ Leave("idle")
    /\ UNCHANGED <<journal, central, files, host, launches, calm>>

(* Central leases a command whose lease is free and that has no result.    *)
Claimable(o) == ~lease[o.command] /\ reported[o.command] = {}

Claim(o) ==
    /\ pc = "idle"
    /\ Claimable(o)
    /\ lease' = [lease EXCEPT ![o.command] = TRUE]
    /\ pc' = "claimed" /\ claim' = o
    /\ UNCHANGED <<polls, result, journal, reported, wire, files, host, launches, calm>>

(* Central leased the command but its response is lost or unreadable       *)
(* (ProtocolError), or the process dies before it has it.                  *)
ClaimResponseLost(o) ==
    /\ May("network") \/ May("crash")
    /\ pc = "idle"
    /\ Claimable(o)
    /\ lease' = [lease EXCEPT ![o.command] = TRUE]
    /\ Leave("down")
    /\ UNCHANGED <<journal, reported, wire, files, host, launches, calm>>

(* _resolve_server and observe raise: the server is not in the registry,   *)
(* the command is known under another identity, or it is SUCCEEDED with a  *)
(* code this program never writes.                                         *)
Refused(o, row) ==
    \/ o.server \notin Servers
    \/ Conflicts(row, Identity(o))
    \/ row.state = "SUCCEEDED" /\ row.result # "PREPARED"

ObserveRefusedInPlace ==                                       \* mutant
    pc = "claimed" /\ Refused(claim, journal[claim.command]) /\ UNCHANGED vars

ObserveRefused ==
    /\ pc = "claimed"
    /\ Refused(claim, journal[claim.command])
    /\ Leave("down")
    /\ UNCHANGED <<journal, central, files, host, launches, calm>>

(* observe, and the branch on entry.state: actuate, inspect once, or tell  *)
(* Central again what the journal holds.                                   *)
DispatchActuating(entry) ==                                    \* mutant
    \/ entry.state \in {"RECEIVED", "APPLYING"} /\ Goto("received")
    \/ entry.state \in Terminal /\ pc' = "submit"
         /\ result' = [outcome |-> entry.state, code |-> entry.result]
         /\ UNCHANGED <<claim, polls>>

DispatchAsPrepared(entry) ==                                   \* mutant
    \/ entry.state = "RECEIVED" /\ Goto("received")
    \/ entry.state = "APPLYING" /\ pc' = "artifact" /\ polls' = 1
         /\ UNCHANGED <<claim, result>>
    \/ entry.state \in Terminal /\ pc' = "submit"
         /\ result' = [outcome |-> "SUCCEEDED", code |-> "PREPARED"]
         /\ UNCHANGED <<claim, polls>>

DispatchNewOnly(entry) ==                                      \* mutant
    \/ entry.state = "RECEIVED" /\ Goto("received")
    \/ entry.state # "RECEIVED" /\ Leave("idle")

DispatchTrusting(entry) ==                                     \* mutant
    \/ entry.state = "RECEIVED" /\ Goto("received")
    \/ entry.state = "APPLYING" /\ Goto("succeed")
    \/ entry.state \in Terminal /\ pc' = "submit"
         /\ result' = [outcome |-> entry.state, code |-> entry.result]
         /\ UNCHANGED <<claim, polls>>

Dispatch(entry) ==
    \/ entry.state = "RECEIVED" /\ Goto("received")
    \/ entry.state = "APPLYING" /\ pc' = "artifact" /\ polls' = 1
         /\ UNCHANGED <<claim, result>>
    \/ entry.state \in Terminal /\ pc' = "submit"
         /\ result' = [outcome |-> entry.state, code |-> entry.result]
         /\ UNCHANGED <<claim, polls>>

Observe ==
    /\ pc = "claimed"
    /\ ~Refused(claim, journal[claim.command])
    /\ LET entry == Observed(journal[claim.command], Identity(claim))
       IN  Record(entry) /\ Dispatch(entry)
    /\ UNCHANGED <<central, files, host, launches, calm>>

MarkApplyingInMemory ==                                        \* mutant
    pc = "received" /\ Goto("materialize")
    /\ UNCHANGED <<journal, central, files, host, launches, calm>>

MarkApplying ==
    /\ pc = "received"
    /\ MayApply(journal[claim.command])
    /\ Record(Applied(journal[claim.command]))
    /\ Goto("materialize")
    /\ UNCHANGED <<central, files, host, launches, calm>>

(* An operation of the journal raises, because SQLite fails or because the *)
(* row does not allow it: nothing is written, and the process exits, even  *)
(* with all the evidence in its hands.                                     *)
NotAllowed(row) ==
    \/ pc = "received" /\ ~MayApply(row)
    \/ pc = "succeed" /\ ~MayComplete(row, "SUCCEEDED", "PREPARED")
    \/ pc = "fail" /\ ~MayComplete(row, "FAILED", "LOCAL_ACTUATION_FAILED")

JournalRaises ==
    /\ pc \in {"claimed", "received", "succeed", "fail"}
    /\ May("journal") \/ NotAllowed(journal[claim.command])
    /\ Leave("down")
    /\ UNCHANGED <<journal, central, files, host, launches, calm>>

-----------------------------------------------------------------------------
(* materialize_matchzy_config.  The file appears under its name at once    *)
(* (replace); a file that is already there is never written again.         *)
OnDisk == files[claim.server][claim.match]

WriteConfigOver ==                                             \* mutant
    /\ pc = "materialize"
    /\ files' = [files EXCEPT ![claim.server][claim.match] = Config(claim)]
    /\ Goto("load")
    /\ UNCHANGED <<journal, central, host, launches, calm>>

WriteConfig ==
    /\ pc = "materialize"
    /\ OnDisk = Null
    /\ files' = [files EXCEPT ![claim.server][claim.match] = Config(claim)]
    /\ Goto("load")
    /\ UNCHANGED <<journal, central, host, launches, calm>>

ReuseConfig ==
    /\ pc = "materialize"
    /\ OnDisk = Config(claim)
    /\ Goto("load")
    /\ UNCHANGED <<journal, central, files, host, launches, calm>>

(* Divergent content, or an error of read, mkdir, write, fsync or replace: *)
(* MatchZyActuationError with execution_uncertain=False.                   *)
MaterializeFails ==
    /\ pc = "materialize"
    /\ May("disk") \/ OnDisk \notin {Null, Config(claim)}
    /\ Goto("fail")
    /\ UNCHANGED <<journal, central, files, host, launches, calm>>

(* mkstemp is called outside the try: its OSError leaves prepare_one_cycle *)
(* and ends the process, with the command APPLYING.                        *)
TempFileDenied ==
    /\ pc = "materialize"
    /\ May("mkstemp")
    /\ OnDisk = Null
    /\ Leave("down")
    /\ UNCHANGED <<journal, central, files, host, launches, calm>>

-----------------------------------------------------------------------------
(* load_matchzy_match.  Whether and when a launched load takes effect is   *)
(* up to the server: the request stays in loads.                           *)
Launch ==
    /\ launches' = [launches EXCEPT ![claim.command] = @ + 1]
    /\ loads' = loads \cup {[server |-> claim.server, match |-> claim.match]}

(* Exit status 0; the wait for evidence begins.                            *)
LoadSentOnceMore ==                                            \* mutant
    pc = "load" /\ Launch /\ pc' = "artifact" /\ polls' = MaxPolls + 1
    /\ UNCHANGED <<claim, result, journal, central, files, game, names, calm>>

LoadSent ==
    /\ pc = "load"
    /\ Launch
    /\ pc' = "artifact" /\ polls' = MaxPolls
    /\ UNCHANGED <<claim, result, journal, central, files, game, names, calm>>

(* Timeout or non-zero exit status: execution_uncertain=True, UNCERTAIN.   *)
LoadUncertainFails ==                                          \* mutant
    pc = "load" /\ May("rcon") /\ Launch /\ Goto("fail")
    /\ UNCHANGED <<journal, central, files, game, names, calm>>

LoadUncertain ==
    /\ pc = "load"
    /\ May("rcon")
    /\ Launch
    /\ Leave("idle")
    /\ UNCHANGED <<journal, central, files, game, names, calm>>

(* The executable cannot be started: no load, execution_uncertain=False.   *)
LoadNotLaunched ==
    /\ pc = "load"
    /\ May("rcon")
    /\ Goto("fail")
    /\ UNCHANGED <<journal, central, files, host, launches, calm>>

(* subprocess.run(text=True) raises UnicodeDecodeError after the command   *)
(* ran; the same `except Exception` takes it for a failure to launch.      *)
LoadReplyUndecodable ==
    /\ pc = "load"
    /\ May("undecodable")
    /\ Launch
    /\ Goto("fail")
    /\ UNCHANGED <<journal, central, files, game, names, calm>>

(* The bridge dies while rcon-cli runs.                                    *)
CrashWhileLoading ==
    /\ pc = "load"
    /\ May("crash")
    /\ Launch
    /\ Leave("down")
    /\ UNCHANGED <<journal, central, files, game, names, calm>>

-----------------------------------------------------------------------------
(* inspect_matchzy_prepared: three pieces of evidence read one after the   *)
(* other while the server goes on.                                         *)
ReadArtifactOfAnyone ==                                        \* mutant
    pc = "artifact" /\ names[claim.server][claim.match] # Null /\ Goto("status")
    /\ UNCHANGED <<journal, central, files, host, launches, calm>>

ReadArtifact ==
    /\ pc = "artifact"
    /\ names[claim.server][claim.match] = Roster[claim.lineup]
    /\ Goto("status")
    /\ UNCHANGED <<journal, central, files, host, launches, calm>>

ReadStatus ==
    /\ pc = "status"
    /\ game[claim.server].map = claim.map
    /\ Goto("get5")
    /\ UNCHANGED <<journal, central, files, host, launches, calm>>

(* matchid, loaded_config_file and gamestate are those of one match.  The  *)
(* team names are "Team A" and "Team B" in every configuration.            *)
ReadGet5 ==
    /\ pc = "get5"
    /\ game[claim.server].match = claim.match
    /\ Goto("succeed")
    /\ UNCHANGED <<journal, central, files, host, launches, calm>>

EvidenceMissing ==
    \/ pc = "artifact" /\ names[claim.server][claim.match] # Roster[claim.lineup]
    \/ pc = "status" /\ game[claim.server].map # claim.map
    \/ pc = "get5" /\ game[claim.server].match # claim.match
    \/ pc \in {"status", "get5"} /\ (May("rcon") \/ May("undecodable"))

(* The deadline of wait_for_matchzy_prepared has not passed.               *)
InspectAgain ==
    /\ EvidenceMissing
    /\ polls > 1
    /\ pc' = "artifact" /\ polls' = polls - 1
    /\ UNCHANGED <<claim, result, journal, central, files, host, launches, calm>>

(* It has, or this was a reconciliation: UNCERTAIN, the row stays APPLYING.*)
GiveUpFailing ==                                               \* mutant
    EvidenceMissing /\ Goto("fail")
    /\ UNCHANGED <<journal, central, files, host, launches, calm>>

GiveUp ==
    /\ EvidenceMissing
    /\ Leave("idle")
    /\ UNCHANGED <<journal, central, files, host, launches, calm>>

-----------------------------------------------------------------------------
(* mark_succeeded, mark_failed, and the result for Central.                *)
Conclude(state, code) ==
    /\ MayComplete(journal[claim.command], state, code)
    /\ Record(Completed(journal[claim.command], state, code))
    /\ pc' = "submit"
    /\ result' = [outcome |-> state, code |-> code]
    /\ UNCHANGED <<claim, polls, central, files, host, launches, calm>>

MarkSucceeded == pc = "succeed" /\ Conclude("SUCCEEDED", "PREPARED")
MarkFailed == pc = "fail" /\ Conclude("FAILED", "LOCAL_ACTUATION_FAILED")

Message == [command |-> claim.command, result |-> result]

(* Central takes a result: the lease is over.                              *)
Accept(m) ==
    /\ reported' = [reported EXCEPT ![m.command] = @ \cup {m.result}]
    /\ lease' = [lease EXCEPT ![m.command] = FALSE]

SubmitResult ==
    /\ pc = "submit"
    /\ Accept(Message)
    /\ Leave("idle")
    /\ UNCHANGED <<journal, wire, files, host, launches, calm>>

(* The lease has lapsed and Central refuses its token: ProtocolError.      *)
SubmitRefused ==
    /\ pc = "submit"
    /\ ~lease[claim.command]
    /\ Leave("down")
    /\ UNCHANGED <<journal, central, files, host, launches, calm>>

(* No answer.  ConnectionError sends the bridge back to its loop, any      *)
(* other exception ends it.  The request may still arrive, or never.       *)
SubmitUnanswered ==
    /\ pc = "submit"
    /\ wire' = wire \cup {Message}
    /\ \/ May("network") /\ Leave("idle")
       \/ (May("network") \/ May("crash")) /\ Leave("down")
    /\ UNCHANGED <<journal, lease, reported, files, host, launches, calm>>

(* The process dies between two effects, or leaves the loop on an error.   *)
Crash ==
    /\ May("crash")
    /\ pc # "down"
    /\ Leave("down")
    /\ UNCHANGED <<journal, central, files, host, launches, calm>>

-----------------------------------------------------------------------------
(* Central: leases expire, late requests arrive.  Once faults are over, a  *)
(* lease outlasts the cycle it was given for.                              *)
LeaseExpires(c) ==
    /\ lease[c]
    /\ calm => ~AtWork(c)
    /\ lease' = [lease EXCEPT ![c] = FALSE]
    /\ UNCHANGED <<bridge, journal, reported, wire, files, host, launches, calm>>

DeliverLate(m) ==
    /\ m \in wire
    /\ wire' = wire \ {m}
    /\ Accept(m)
    /\ UNCHANGED <<bridge, journal, files, host, launches, calm>>

-----------------------------------------------------------------------------
(* The game servers.                                                       *)
ServerLoads(l) ==
    /\ l \in loads
    /\ files[l.server][l.match] # Null         \* MatchZy reads it now
    /\ loads' = loads \ {l}
    /\ game' = [game EXCEPT ![l.server].match = l.match]
    /\ UNCHANGED <<bridge, journal, central, files, names, launches, calm>>

ServerDropsLoad(l) ==
    /\ l \in loads
    /\ loads' = loads \ {l}
    /\ UNCHANGED <<bridge, journal, central, files, game, names, launches, calm>>

ServerChangesMap(s, map) ==
    /\ game' = [game EXCEPT ![s].map = map]
    /\ UNCHANGED <<bridge, journal, central, files, loads, names, launches, calm>>

(* MatchZy writes the roster of the match it loaded.                       *)
ServerWritesNames(s) ==
    /\ game[s].match # Null
    /\ names' = [names EXCEPT ![s][game[s].match] = Roster[files[s][game[s].match].lineup]]
    /\ UNCHANGED <<bridge, journal, central, files, loads, game, launches, calm>>

ServerResets(s) ==
    /\ game' = [game EXCEPT ![s].match = Null]
    /\ UNCHANGED <<bridge, journal, central, files, loads, names, launches, calm>>

Calm == ~calm /\ calm' = TRUE
    /\ UNCHANGED <<bridge, journal, central, files, host, launches>>

-----------------------------------------------------------------------------
(* What the bridge does when nothing fails.                                *)
Proceed ==
    \/ ObserveRefused \/ Observe \/ MarkApplying
    \/ WriteConfig \/ ReuseConfig \/ MaterializeFails
    \/ LoadSent
    \/ ReadArtifact \/ ReadStatus \/ ReadGet5 \/ InspectAgain \/ GiveUp
    \/ MarkSucceeded \/ MarkFailed
    \/ SubmitResult \/ SubmitRefused

Fail ==
    \/ \E o \in Offers : ClaimResponseLost(o)
    \/ JournalRaises \/ TempFileDenied
    \/ LoadUncertain \/ LoadNotLaunched \/ LoadReplyUndecodable \/ CrashWhileLoading
    \/ SubmitUnanswered
    \/ Crash

Environment ==
    \/ \E c \in Commands : LeaseExpires(c)
    \/ \E m \in wire : DeliverLate(m)
    \/ \E l \in loads : ServerLoads(l) \/ ServerDropsLoad(l)
    \/ \E s \in Servers :
          \/ \E map \in Maps : ServerChangesMap(s, map)
          \/ ServerWritesNames(s)
          \/ ServerResets(s)
    \/ Calm

Next ==
    \/ Restart
    \/ \E o \in Offers : Claim(o)
    \/ Proceed
    \/ Fail
    \/ Environment

Spec == Init /\ [][Next]_vars

(* systemd restarts the process, which goes on with its cycle; faults end; *)
(* Central lets leases expire and passes over no command for ever.         *)
Fairness ==
    /\ WF_vars(Restart)
    /\ WF_vars(Proceed)
    /\ WF_vars(Calm)
    /\ \A c \in Commands : WF_vars(LeaseExpires(c))
    /\ \A o \in Offers : SF_vars(Claim(o))

FairSpec == Spec /\ Fairness

-----------------------------------------------------------------------------
(* Safety.                                                                 *)

(* matchzy_loadmatch is launched at most once for a command, whatever      *)
(* crashes, lapsed leases and repeated claims lie in between               *)
(* (orchestration.py:163, "NEVER re-actuate").                             *)
AtMostOneLaunch == \A c \in Commands : launches[c] <= 1

(* No launch without a durable trace of the intent (orchestration.py:195). *)
IntentBeforeEffect ==
    \A c \in Commands : launches[c] > 0 => journal[c].state \in {"APPLYING"} \cup Terminal

(* Whatever Central was told, or may still be told by a request that is on *)
(* its way, is the journal's terminal state: never two outcomes.           *)
Told(c) == reported[c] \cup {m.result : m \in {n \in wire : n.command = c}}

OneTruth ==
    \A c \in Commands : \A r \in Told(c) :
        journal[c].state = r.outcome /\ journal[c].result = r.code

(* A command is recorded as FAILED only if its load was certainly never    *)
(* sent (orchestration.py:211).                                            *)
FailedMeansNeverLaunched ==
    \A c \in Commands : journal[c].state = "FAILED" => launches[c] = 0

LaunchedFor(identity) ==
    \E d \in Commands : launches[d] > 0 /\ journal[d].identity.server = identity.server
                                        /\ journal[d].identity.match = identity.match

(* The journal never refuses what the cycle is about to record: the row of *)
(* a claimed command does not move while its cycle is at work, although it *)
(* was observed long before, with a load, a wait and a lapsed lease between*)
(* (InvalidStateTransitionError, journal.py:243, :311).                    *)
TransitionsAreAllowed == claim # Null => ~NotAllowed(journal[claim.command])

(* A load is only ever requested for the server and match the journal      *)
(* holds for a command, also when Central offers the command anew with     *)
(* other data (journal.py:176-185).                                        *)
LoadsAreRecorded == \A l \in loads : LaunchedFor(l)

(* A command is PREPARED only if its server was sent a load of that match  *)
(* and holds the match's configuration with the roster the command asks    *)
(* for, although the evidence is read piece by piece from a server that    *)
(* changes, and possibly by a cycle that sent nothing itself.              *)
PreparedMeansRosterLoaded ==
    \A c \in Commands : journal[c].state = "SUCCEEDED" =>
        LET identity == journal[c].identity
            config == files[identity.server][identity.match]
        IN  /\ LaunchedFor(identity)
            /\ \E o \in Offers : /\ o.command = c /\ Identity(o) = identity
                                 /\ config # Null
                                 /\ Roster[config.lineup] = Roster[o.lineup]

(* A command is PREPARED only if the configuration the server loads is the *)
(* one the command specifies, teams included (README.md:71).               *)
PreparedMeansSpecLoaded ==
    \A c \in Commands : journal[c].state = "SUCCEEDED" =>
        \E o \in Offers : /\ o.command = c /\ Identity(o) = journal[c].identity
                         /\ files[o.server][o.match] = Config(o)

(* A command left APPLYING by a bridge that is not at work on it may have  *)
(* been executed: APPLYING stands for an uncertain execution (README.md:60)*)
OrphanMeansLaunched ==
    \A c \in Commands :
        (journal[c].state = "APPLYING" /\ ~AtWork(c)) => launches[c] > 0

(* The configuration of a match is never replaced by another one: the game *)
(* server and the verifier read it long after it was written.              *)
ConfigNeverRewritten ==
    [][\A s \in Servers, m \in Matches : files[s][m] # Null => files'[s][m] = files[s][m]]_vars

(* The journal of the bridge follows the life cycle of a command.          *)
Lifecycle == INSTANCE CommandLifecycle WITH phase <- [c \in Commands |-> journal[c].state]
ImplementsLifecycle == Lifecycle!Spec

(* Central's view of the bridge.                                           *)
Contract == INSTANCE PrepareContract WITH
                executed <- [c \in Commands |-> launches[c] > 0],
                told <- [c \in Commands |-> {r.outcome : r \in reported[c]}]
ImplementsContract == Contract!Spec

-----------------------------------------------------------------------------
(* Liveness, once faults are over.                                         *)

(* What has ended is reported to Central in the end, however many answers  *)
(* were lost, and whatever other commands Central offers in the meantime.  *)
TerminalIsReported ==
    \A c \in Commands : (journal[c].state \in Terminal) ~> (reported[c] # {})

(* A load that takes effect after its cycle gave up is recognized: it      *)
(* cannot be that a command stays APPLYING while all evidence is there.    *)
Evident(o) ==
    /\ names[o.server][o.match] = Roster[o.lineup]
    /\ game[o.server] = [match |-> o.match, map |-> o.map]

LateLoadReconciled ==
    \A o \in {x \in Offers : x.server \in Servers} :
        []<>~(journal[o.command].state = "APPLYING" /\ Evident(o))

(* A command for a managed server is taken up, even beside commands that   *)
(* make the process exit each time they are claimed.                       *)
ManagedCommandsStart ==
    \A o \in {x \in Offers : x.server \in Servers} :
        <>(journal[o.command].state # "ABSENT")
=============================================================================
