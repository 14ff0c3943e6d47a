# Verification of HSC Match Bridge

TLA+ modules that model the match bridge, TLC configurations that check them on
small instances, and TLAPS proofs of what matters most for every instance.
Paths such as `orchestration.py:162` are in `src/src/hsc_match_bridge/`;
`README.md:60` is `src/README.md`.

## The system

The bridge is one Python process on a game host. It claims `PREPARE_MATCH`
commands from the Central Auth API over HTTPS, writes a MatchZy configuration,
asks the game server over RCON to load it, reads the evidence that the match is
prepared, and reports an outcome. It is synchronous: one command at a time, no
threads. All its difficulty lies in what happens around it: it may die between
any two effects, Central hands out a command again when its lease lapses, and
the game server acts on a load in its own time.

| Component | State | Operations | Talks to |
|---|---|---|---|
| Command journal (`journal.py`, `models.py`) | SQLite file: schema version, one row per command with identity, state, result, four stamps | open and check the schema, `observe`, `mark_applying`, `mark_succeeded`, `mark_failed`, `get`, `close` | the orchestration; a second connection of `check` |
| Prepare orchestration (`orchestration.py`) | the claimed command, for one cycle | `prepare_one_cycle` (`intake_one_cycle` is not called any more) | client, journal, actuator, verifier |
| MatchZy actuator (`matchzy_actuator.py`) | `hsc-match-bridge/<match>.json` under each server's csgo directory | `materialize_matchzy_config`, `load_matchzy_match`, `execute_rcon_command` | disk, `rcon-cli` |
| PREPARED verifier (`matchzy_verifier.py`) | none | `inspect_matchzy_prepared`, `wait_for_matchzy_prepared` | MatchZy's player names file, `rcon-cli` |
| Client (`client.py`) | none | `heartbeat`, `claim`, `submit_result` | Central |
| Protocol parser (`protocol.py`) | none | `parse_claimed_command_payload` | the client |
| Renderer (`matchzy.py`) | none | `serialize_matchzy_config` | the actuator |
| Runtime loop (`runtime.py`) | last heartbeat, backoff, stop event | `run_bridge_loop` | client, orchestration, signals |
| Entry point (`main.py`) | exit status | `check`, `run`, signal handler | systemd (`Restart=on-failure`) |
| Configuration (`config.py`) | read once: the server registry | `load_config` | the environment |
| Central, game server, rcon-cli | leases and results; loaded match, map, player names | external | |

What makes each of them correct, and what is hard about it:

- **Journal.** No row goes backwards or changes identity; a terminal row never
  changes; what an operation returns answers the call. Hard: the schema version
  is read outside the transaction, the returned entry is read after the COMMIT,
  the clock may go backwards, terminal calls are repeated.
- **Orchestration.** A command is executed at most once, and only one outcome of
  it is ever told. Hard: crashes between any two effects, repeated claims, lost
  and late answers, a conflict between Central's data and the journal.
- **Actuator.** FAILED only if nothing was executed; a configuration is whole and
  is never exchanged under a running match. Hard: what a failure of rcon-cli says
  about the load, files left by other commands, a look at the file that is stale
  when it is replaced, a directory that is not synced.
- **Verifier.** PREPARED only if the match asked for is loaded. Hard: three reads
  at three moments, evidence that outlives its cause, a load that takes effect
  after the deadline.
- **Loop and process.** Outcomes reach Central, no command starves another,
  heartbeats keep coming, and a stop is heeded. Hard: every exception but
  `ConnectionError` ends the process, a cycle may be long, and a signal comes at
  any moment.
- **Parser, configuration, renderer.** What they admit can be recorded, verified
  and reported. Hard: each of five checks has rules of its own for the same field.

`PROJECT.json` lists the hazards line by line, with the properties that watch
them, and those nothing watches, with the reason.

## The modules

| Module | Models |
|---|---|
| `JournalRows` | one row of the journal, and what each operation makes of it |
| `CommandLifecycle` | abstract: a command is received, starts, ends once |
| `CommandJournal` | `journal.py` with any number of connections, on `JournalRows`; implements `CommandLifecycle` |
| `PrepareContract` | abstract: what Central relies on (one execution, one outcome, FAILED is harmless) |
| `MatchBridge` | the prepare cycle with journal, Central, disk, RCON and game servers, on `JournalRows`; implements `CommandLifecycle` and `PrepareContract` |
| `MatchBridgeInvariant` | the inductive invariant of `MatchBridge`, alone and beside another process |
| `TwoBridges` | two `MatchBridge` processes on one journal, disk and Central |
| `ConfigFile` | `materialize_matchzy_config`, one action per system call, any number of writers and files |
| `DetailedBridge` | `MatchBridge` with `ConfigFile` in place of its `materialize` step; implements `MatchBridge` |
| `DetailedTwo` | two `DetailedBridge` processes; implements `TwoBridges` |
| `BridgeLoop` | `run_bridge_loop`, the signal handler and systemd, in seconds |
| `Admission` | `load_config`, the parser and every later check of the same fields, as a pipeline |
| `CommandJournal_proofs`, `MatchBridge_proofs`, `TwoBridges_proofs`, `ConfigFile_proofs`, `DetailedBridge_proofs`, `DetailedTwo_proofs`, `BridgeLoop_proofs`, `Admission_proofs` | the proofs |
| `MCCommandJournal`, `MCMatchBridge`, `MCTwoBridges`, `MCConfigFile`, `MCDetailedTwo`, `MCAdmission`, `MCOffers` | the instances TLC checks (`BridgeLoop` needs none) |

`CommandJournal` and `MatchBridge` share the row operators, so that the journal
the bridge calls is the journal checked on its own.

### CommandJournal

Every operation is one `BEGIN IMMEDIATE` transaction, hence one action; one that
raises is rolled back and is no step. Two things are not in the transaction and
are actions of their own: reading `PRAGMA user_version` (`ReadVersion`, before
`InitializeSchema`), and the `get` after the COMMIT (`ReadBack`, after an
operation that wrote). `rows` holds identity, state and result, `stamps` the four
times, `call` what each connection's last operation was asked and returned.
`Trim` stands for `str.strip()` on result codes: TLC's instance has a code with
white space around it and a blank one. `Instants` is unordered: the wall clock
may show anything.

### MatchBridge

`pc` names the effect that comes next. One action per durable or visible effect,
in the order of `prepare_one_cycle`:

```
idle -Claim-> claimed -Observe-> received -MarkApplying-> materialize
  -WriteConfig/ReuseConfig-> load -LoadSent-> artifact -ReadArtifact-> status
  -ReadStatus-> get5 -ReadGet5-> succeed -MarkSucceeded-> submit -SubmitResult-> idle
```

From `claimed`, a row that is APPLYING goes to `artifact` with one inspection
(reconciliation), a terminal row to `submit` (the outcome is told again). A certain
failure goes through `fail` and `MarkFailed`. An operation of the journal that
raises (`JournalRaises`) writes nothing and ends the process. `Leave("idle")` is the
end of a cycle that returns or raises `ConnectionError`; `Leave("down")` is any
other exception, which ends the process, as `Crash` does; `Restart` is systemd.

Central leases a command that has no lease and no result, lets leases expire and
takes results. Lease tokens are not modelled: Central may take a result whose
lease has lapsed or refuse it, which covers whatever it does with the token. The
server takes a load at any time or never, changes its map, writes the player
names of the match it loaded, and is reset.

Data is abstracted to what the code compares: a lineup stands for the ordered
teams in the rendered configuration, `Roster` maps it to the set of SteamIDs the
verifier compares.

`Faults` names what may go wrong in a run: `crash`; `network` (lost requests and
answers); `rcon` (no launch, timeout, exit status); `undecodable` (an answer that
is not UTF-8); `disk` (failures the materializer turns into
`MatchZyActuationError`); `mkstemp` (the one it does not); `journal` (SQLite
raises).

### TwoBridges

Nothing in the code keeps a second `hsc-match-bridge run` from starting beside
the service (`README.md:15` only says that a process corresponds to a
bridgeNodeKey). `TwoBridges` instantiates `MatchBridge` twice: each process has its
own `pc`, `claim`, `polls` and `result`, everything else is shared. One thing is
added: between a process' look at the configuration and its replacement the other
may write the same file, which is then replaced (`OverwriteA`, `OverwriteB`), or
stays although mkstemp fails for the one that was overtaken (`DeniedA`,
`DeniedB`). That two materializers can do no more than this to each other is what
`DetailedTwo` is for.

What survives: intent before effect, one truth for Central (the journal lets the
first conclusion have it, `journal.py:297`), the command's life cycle, two
launches of a command in all, and PREPARED only where one of them sent a load. What does
not: `AtMostOneLaunch` (both may launch, `mark_applying` being idempotent,
`journal.py:236`), `FailedMeansNeverLaunched` (one fails to write the configuration
while the other loads it) and `PreparedMeansRosterLoaded` (the configuration that
was loaded may be overwritten; without that it holds, `TwoPrepareRosters`). They are
one-process properties, and the documentation asks for one process.

### ConfigFile

`pc` is the next system call of each bridge: exists, read, mkdir, mkstemp, write,
fsync, replace, unlink; `path` and `want` are the file it is at and the content it
is to put there. `target` is what the directories show, `disk` what a power
failure leaves of it: the code syncs the file but not the directory. A bridge may
die between any two calls; a file that was not synced may come back torn. `raced`
remembers which bridges were overtaken by another one since they began: the check
and the replacement are not atomic.

### DetailedBridge and DetailedTwo

`MatchBridge` takes the materializer for one step, `TwoBridges` adds by hand what
two of them may do to each other. These modules put the system calls back.
`DetailedBridge` has the variables of both modules, `pc` for the cycle and `calls`
for the materializer: `MarkApplying` also begins the materializer, `Materialize` is
the next system call together with what the cycle makes of its outcome (`Returns`,
`Raises`, `Exits`, `GoesOn`), everything else the bridge does happens when no call
is under way, and Central and the game servers act between any two calls. The
refinement mapping is `files`: a configuration is there when the directory shows
it. Every other variable of `MatchBridge` is its own. The step `WriteConfig` is then the
rename, `ReuseConfig` and the refusal of divergent content are the read,
`MaterializeFails` and `TempFileDenied` the call that raises, and all other calls
stutter. The power does not fail here: a file the directory has lost again is
`ConfigFile`'s subject, and `MatchBridge` would have to forget it, too.

`DetailedTwo` instantiates `DetailedBridge` twice on one directory. `TwoBridges`'
`overtaken` is mapped to those in `raced` that are still at the materializer.
`DetailedBridge` has no run of its own: `DetailedTwo` takes all its actions, in two
processes.

### BridgeLoop

One action per blocking call and per branch of the loop; `Tick` is possible only
within a call, a wait, or systemd's pause before a restart. The constants are the
code's (15 s, 1 s, 1 s, 15 s; 5 s for a request, 10 s for rcon-cli, 12 s of
inspections and a poll of half a second, rounded up; 30 s for an operation of the
journal that finds the file locked, `journal.py:60`; `RestartSec=5s`).
`CycleTime` adds up the longest cycle: claim, load, inspections of which the last
starts at the deadline, result, 53 s, and the three waits of `observe`,
`mark_applying` and `mark_succeeded` or `mark_failed`, 90 s: 143 s. With
`BusyTime = 0`, when nobody else writes the journal, it is 53 s. `stop_event.wait` is taken apart
(`WaitEnters`, `waiting`, `WaitEnds`, `WaitReturns`) because it holds the event's
lock at its two ends; `SignalInWait` is a signal that finds it so (fault
`window`). The other faults are `network` (ConnectionError), `refusal` (any other
exception, which leaves the process) and `crash`.

### Admission

One command passes all checks, in the order of the code: `load_config`, the parser
(`Claim`), `_resolve_server`, `CommandIdentity` and the journal's columns
(`Observe`), the renderer, the verifier's expectation, the address of the result.
The question is what a later check may take for granted of a field an earlier one
admitted. Texts are words with white space around them, numbers have their JSON
kind (in Python `True` is an int and `1.0 == 1`). A SteamID is a number, the script
its digits are written in (`\d` of a `str` is any decimal digit) and what follows
them (`$` matches before a final newline); a number below 10^16 has leading zeros in
its 17 digits (`FullNumbers` are those without). A word may have a lone surrogate,
which JSON can spell and UTF-8 cannot (`Encodable`). What MatchZy makes of a
configuration is external: it takes SteamIDs for numbers and lists them with the
names, both in quotes, in the format of `tests/test_matchzy_verifier.py:53-62`; the
verifier finds in the file whatever is 17 digits in quotes, names included (`IdsIn`). An exception anywhere ends the
process (`Exit`); the outside world is taken to work, since its failures are
`MatchBridge`'s subject.

Definitions marked `mutant` are not part of the model. Each is a bug that could
be made in the definition that follows it; with the bug in place the property it
is written for is violated, which shows that the property watches the code.
`PROJECT.json` pairs them.

## The runs

| Run | Question | Properties |
|---|---|---|
| `Journal` | two connections, a clock that goes backwards: do the columns tell the state, is what was recorded kept, are two connections to one file safe? | StampsTellTheState, EntryAnswersTheCall, OpenMeansCurrentSchema, RecordsAreKept, OtherReleaseUntouched, ImplementsLifecycle |
| `BridgeCycles` | two commands for two matches, with equal and with different players, one offered for an unknown server, too: what is executed, what do PREPARED and FAILED mean, what does Central hear? | TypeOK, AtMostOneLaunch, IntentBeforeEffect, OneTruth, LoadsAreRecorded, TransitionsAreAllowed, FailedMeansNeverLaunched, PreparedMeansRosterLoaded, ConfigNeverRewritten, ImplementsContract, ImplementsLifecycle |
| `BridgeReports` | after the faults: do outcomes arrive, does every command get its turn? | TerminalIsReported, LateLoadReconciled, ManagedCommandsStart |
| `TwoBridges` | two daemons: which promises survive? | OneTruth, IntentBeforeEffect, TwoLaunchesInAll, PreparedMeansLaunched, ImplementsLifecycle |
| `ConfigWriters` | two writers, death and power failure at any time: is the file whole, whose is it? | TargetIsWhole, StoredMeansThere, OnlyRacersOverwrite |
| `DetailedTwo` | two processes that meet, and die, at every system call: can they do more to each other than `TwoBridges` says, does each load find its file? | LoadsFindFiles, ImplementsTwo |
| `BridgeLoop` | the code's timing, every fault: how far apart are heartbeats, how long does a stop take? | TypeOK, HeartbeatCadence, StopLatency, ClaimsAreAnnounced, StopIsHeeded |
| `Admission` | one deviation from sound inputs: is what is admitted recordable, verifiable, reportable? | TargetIsTheClaim, PreparedRosterIsWhole, RecordableExactly, VerifiableExactly, ReportableExactly |
| `BridgeUndecodable` | finding 1 | FailedMeansNeverLaunched, violated |
| `BridgeMkstemp` | finding 2 | OrphanMeansLaunched, violated |
| `BridgeRegrouped` | finding 3 | PreparedMeansSpecLoaded, violated |
| `BridgeSignal` | finding 4 | StopEnds, violated |

**Bounds.** Two commands are enough for one to leave evidence for the other: the
code never relates three. In `BridgeCycles` both are offered for both matches, so
that a cycle meets a configuration that is equal to its own, one that is not, and
none, and every command is offered again in conflict with its row; one is offered
for a server this node does not manage. `BridgeReports` has a third command, of an
unknown server, to end the process while the others wait. One
server: servers share no state but the journal, whose rows are per command; a
second key, `mix9`, is in no registry. `MaxPolls` bounds the inspections of a
cycle (about 24 in the code); two, in `BridgeCycles`, show the server changing
between two of them, one is enough elsewhere, where later cycles inspect again.
`Journal` has one command, two identities for it, two connections and two
instants: no operation touches the row of another command, so races are about one
row or the schema. `TwoBridges` has one match, one map and two commands with two
rosters, without the disk and journal faults, which add nothing to two processes that
may die at any point. `ConfigWriters` has two writers, two contents and two names: a
third writer could only overtake as the second does. `DetailedTwo` has one command that
is leased a second time with another player, so that the two processes have
different contents for one file. Its faults are death at any call and mkstemp,
the only ones of which the outcome may depend on what the other has done to the
file; lost messages and rcon-cli are in the run `TwoBridges`, failures of the
disk in `BridgeCycles`, and the theorems have them all. `BridgeLoop` has the code's
constants; `Horizon` stops the count of seconds one past `MaxSilence`. `Admission`
has teams of two instead of five, keys of 4 characters instead of 64, match ids
from 2 to 4 instead of 10^6 to 2^63 - 1, SteamIDs 0, with a leading zero, and 1 to 5,
two scripts, three names that are 17 digits; its inputs differ from a sound one in one
text field and one number, or one text field and one team, or one part of the
configuration, which has every rule fail and pass beside every other check. No run
has a state constraint; launches are unbounded in the model and bounded by what
is proved of them.

**Deadlock** is checked wherever the system goes on for ever. `Journal` has it
off: a file of another release is refused and the model ends there.

**Fairness** (`FairSpec` of `MatchBridge`, for `BridgeReports`). `Restart` is weakly
fair: systemd restarts on failure after 5 s (the unit sets no start limit that 5 s
pauses would reach). `Proceed`, the cycle's steps without faults, is weakly fair:
the process is one thread whose calls all have timeouts. `Calm` is weakly fair:
faults end at some time; without it nothing is reported if the network is down for
good. Leases expire (weak fairness), and once calm a lease outlasts the cycle it was
given for. `Claim(o)` is strongly fair: Central passes over no command for ever
although it is claimable only now and then. These last two are assumptions about
Central, which is not in this repository. `FairSpec` of `BridgeLoop` has weak
fairness of `Proceed`, the steps of one thread that is scheduled, and of `Tick`:
time passes. No network fault has to end for `StopIsHeeded`: the loop looks at the
flag in every round.

## What the runs and proofs show

1. **A load is executed at most once** for a command (`AtMostOneLaunch`), never
   before the journal says so durably (`IntentBeforeEffect`). The journal never
   refuses what a single bridge is about to record (`TransitionsAreAllowed`),
   though the row was read long before: `InvalidStateTransitionError` is out of
   its reach.
2. **Central hears one truth**: all results it took, and all that may still
   arrive, are the journal's terminal state (`OneTruth`).
3. **PREPARED** means that the bridge sent the server a load of the match and the
   configuration there has the roster asked for (`PreparedMeansRosterLoaded`),
   although the evidence is read piecemeal and may stem from another command. It
   does not mean that the teams are those asked for: finding 3.
4. **FAILED** means that nothing was executed, as long as rcon-cli's answers can
   be decoded (`FailedMeansNeverLaunched`); otherwise finding 1.
5. With that assumption the bridge implements `PrepareContract`, and always
   `CommandLifecycle`.
6. Once faults are over, every terminal state is reported and a load that took
   effect late is recognized. A command that is refused ends the process each
   time, and still the others get their turn. A journal that raises in the middle
   of a cycle is no worse than a crash.
7. With two daemons Central still hears one truth (`OneTruth`), no load precedes
   its intent (`IntentBeforeEffect`), a load is executed
   at most twice in all (`TwoLaunchesInAll`), PREPARED goes back to a load of one of them
   (`PreparedMeansLaunched`); see above for what is lost.
8. **The game server never finds half a configuration** (`TargetIsWhole`), and a
   configuration is replaced only by a bridge that was overtaken between its look
   and its rename (`OnlyRacersOverwrite`). What `MatchBridge` and `TwoBridges` say
   holds with every system call of the materializer in the cycle
   (proved: `ImplementsBridge`; checked and proved: `ImplementsTwo`), and every load,
   of one bridge or of two, finds its file in place, complete and synced
   (`LoadsFindFiles`).
9. **Heartbeats** that do not fail are at most 170 s apart (`HeartbeatCadence`; the
   bound is met, with the backoff at its longest and the journal locked for 30 s at
   each of three operations; while nobody else writes the journal it is 80 s): the
   ~15 s of `docs/deployment-hostinger.md:263` are those of an idle bridge. A process
   claims nothing before Central answered a heartbeat of its own, within the
   interval (`ClaimsAreAnnounced`).
10. **A stop** takes at most one cycle (`StopLatency`) and is always heeded, unless
    finding 4 strikes. A cycle is 53 s while nobody else writes the journal, within
    systemd's default patience of 90 s. With the journal locked it may take 143 s:
    systemd then kills the process, which for `MatchBridge` is a crash.
11. **The journal** returns entries that answer the call although they are read
    after the COMMIT, and keeps what it recorded.
12. **What the parser admits** for a managed server
    - can be recorded, but for a match id beyond 2^63 - 1, or a lone surrogate in
      the command id, the assignment id or the server key (`RecordableExactly`);
    - can be recognized as PREPARED once it is loaded, but for a SteamID that is
      not spelled as its number is (a final newline, digits of another script,
      leading zeros), a player whose name is 17 digits but no player's SteamID, or
      a map key that is not exactly the name of a map (`VerifiableExactly`). Left
      out are names that spell a SteamID as MatchZy would not, and may pass for one;
    - can be reported, but for a command id that does not stand for itself in a
      URL: `/`, `?`, `#`, `%`, white space inside, control and non-ASCII characters
      (`ReportableExactly`).

    Such commands end the process or stay APPLYING; the three properties say that
    there are no others. The actuated server is the claimed and the journaled one
    (`TargetIsTheClaim`). The parser compares the texts of SteamIDs, so two
    spellings of one player pass it; but no such match is called PREPARED
    (`PreparedRosterIsWhole`, with the same names left out).

### Findings

1. `matchzy_actuator.py:137`: an answer of rcon-cli that is not UTF-8 makes
   `subprocess.run(text=True)` raise after the load was sent; the command is
   recorded and reported FAILED, for a load "certain" not to have been sent
   (`orchestration.py:211`).
2. `matchzy_actuator.py:70`: an `OSError` of `mkstemp` ends the process after
   `mark_applying`. The command stays APPLYING for ever though nothing was
   executed, against `matchzy_actuator.py:18` and `README.md:60`. A csgo
   directory that is not in the unit's `ReadWritePaths`
   (`deploy/hostinger/hsc-match-bridge.service:18`) or a full disk is enough.
3. `matchzy_verifier.py:109`: the team check compares constants, so teams are not
   verified, against `README.md:71`.
4. `main.py:87`: the signal handler calls `stop_event.set()`, which takes the lock
   that `stop_event.wait` holds while it enters and leaves its sleep. The lock is
   not reentrant and there is one thread: a SIGTERM in that window hangs the
   process, which neither ends (`runtime.py:32`) nor works until it is killed.

## The proofs

All theorems hold for every value of the constants that satisfies the module's named
assumption (`JournalConstants`, `BridgeConstants`, `FileConstants`,
`DetailedConstants`, `DetailedTwoConstants`, `LoopConstants`, `AdmissionConstants`,
`AdmissionInputs`, `TwoConstants`). Each module with theorems has one inductive
invariant, of which they are consequences.

**`MatchBridge_proofs`**, for any commands, offers, servers, matches, lineups,
`MaxPolls` and faults (two theorems assume in addition that `"undecodable"` is
not among the faults). The axis is `InductiveInvariant == Spec => []Inductive`.

The module has three parts. The first is about rows: what each operation of the
journal makes of one. The second, *Beside others*, says what one step of the cycle
does when another process may have written the journal and the directory in between,
under two invariants that such a process does not break: `Working` (the claimed
command's row has at least the state this process left it in, and the claim's
identity) and `Shared` (intent before effect, one truth, and that every load in
flight, loaded match, player names file and PREPARED row goes back to a launch).
`Orderly` sums up a step: it keeps both, moves rows along the life cycle only, and
leaves what was sent as sent. `BudgetStep` counts: `Pending` is the launch a process
at `received`, `materialize` or `load` still owes; only one that found the command
new comes to owe one, and then nothing was launched yet. `OtherIsHarmless` is the
other side: a process keeps `Working` under any orderly step that is not its own.

`PreparedMeansRosterLoaded` needs more than that, since the other process may
replace a configuration. Of steps that do not (`FilesKept`), `Steady` says that
`Inspected` and `Kept` hold on: the roster on disk is the one of a configuration
that is still there, and a cycle past the artifact has read the roster of its own
lineup.

The third, *Alone*, has `Inductive`: all of the above, and what only holds of a
process that nobody disturbs. The properties are not inductive by themselves.
`AtMostOneLaunch` needs to know that `launches` is 0 at `load`, which needs that it
is 0 while the row is RECEIVED, which is `IntentBeforeEffect`, and that the row does
not move under the cycle: `Cycle` says what row each `pc` works on, which also gives
`TransitionsAreAllowed` (`JournalNeverRefuses`). `OneTruth` needs that the result
about to be submitted is the row's (`Working`). A single process never replaces a
configuration (`FilesStay`), so `StepIsSteady` applies to each of its steps, as
`StepIsOrderly` does; what is left are `CycleStep`, `OneLaunchStep` and `FailedStep`.
The refinements map every step to one
step of the abstract specification or to a stutter.

**`TwoBridges_proofs`**, for two processes and the same constants (`TwoConstants`).
Each step is one process' or the environment's, hence orderly (`EveryStepIsOrderly`;
`OverwriteIsOrderly` for the file replaced after a stale look, `DeniedIsOrderly` for
the mkstemp that fails beside it), and harmless to the other (`OrderlyA`,
`OrderlyB`). `Budget`, launches plus both debts at most two, gives `TwoLaunchesInAll`:
a process that is started later finds the row APPLYING or terminal and owes nothing.
`TwoPrepareRosters` is the one-process promise from a weaker premise: as long as
neither process replaces a configuration by a different one
(`ConfigNeverRewritten`), PREPARED means for two what it means for one; the stale
look at the file is all that separates them. `TwoRefuseTheConcluded` says when the
journal raises `InvalidStateTransitionError`: only for a command that has its
terminal state, so that no outcome is lost with the process that exits. `A` and `PA`
are two instances of the same operators, one of the model and one of the module with
the lemmas; the lemmas `StepOfA`, `StepOfB` and so on only say that they agree.

**`CommandJournal_proofs`**, for any number of connections. `OneWrite` first
reduces every step to one of three writes of one row (`Received`, `Started`,
`Finished`) or to none. `EntryAnswersTheCall` is about entries that have been read
back; its strengthening `CallsAnswered` says of a call still to be read back that
the row already answers it, and rows only move on (`StillAnswers`). `SchemaKnown`
says of a connection that read version 0 that the version can since have become
only this release's. Stamps, life cycle and kept records follow from the three
writes.

**`ConfigFile_proofs`**, for any number of bridges and files. `FileInv` adds to the two
properties what a bridge relies on between calls (`Temps`: its temporary file is
its own, whole after the write, synced before the replacement; `Named`: so is all
that has the name; `Looks`: what it saw still holds unless it was overtaken). A
power failure leaves a named file whole because it was synced before it was
named.

**`DetailedBridge_proofs`**. `Joint` relates the cycle to its materializer: while a
system call is next, the cycle is at `materialize` (at `fail` for the unlink), the
call is for the claimed command's file and content, and `FileInv` holds of the
directories. *Beside others*, `Outcome` then says of every outcome of every call
which step of `MatchBridge` it is: the write, the reuse, the failure, the exit, none
at all, or, for a process that was overtaken, an overwrite or a denial. `FileInv`'s
`Looks` is what this takes: a process at the rename, or at mkstemp, still finds no
file, and one at the read still finds one, unless it was overtaken. *Alone*, nobody
is overtaken, and `DetailedImplements` follows, with what `MatchBridge` promises
(`DetailedKeepsPromises`). `LoadsFindTheirFiles` joins the two invariants:
`MatchBridge`'s says that a load goes back to a configuration, `FileInv` that what
has a name is whole and synced.

**`DetailedTwo_proofs`**, for the same constants. `Together` is `TwoBridges`'
invariant and `Joint` of both processes. A step of one keeps its own `Joint` as
above, and the other's because it leaves its calls alone, removes no file, and marks
it as overtaken when it changes the file (`StoreOfOthers`, `OtherKeepsJoint`,
`JointAfterA`, `JointAfterB`). `StepOfA` and `StepOfB` map steps: an outcome as
above, and `Overtakes` because a replacement is seen in the configurations exactly
if the two files differ, both being whole and synced (`ReplacementShows`). The
attempt to prove this showed that `TwoBridges` lacked `DeniedA` and `DeniedB`:
mkstemp may fail for a process beside a file that was not there when it looked.
`DetailedTwoKeepPromises` and `DetailedTwoPrepareRosters` transfer what
`TwoBridges_proofs` has, and `TwoLoadsFindTheirFiles` is `LoadsFindFiles`.

**`BridgeLoop_proofs`**, for any durations. `LoopInv` bounds the seconds spent in
the current call (`Durations`), bounds `late` by them, and says of the gate that a
heartbeat of this process was answered within the interval or the last call
(`Announced`). `HeartbeatCadence`
needs to know how long the next pause may be, which depends on how often the loop
has failed since the heartbeat, a geometric sum. Two invariants avoid the sum.
`Silence` bounds `since` at each `pc` by the last claim, a cycle and the pause.
`Backoffs` says that a backoff has been earned: since the heartbeat, which reset
it, the loop has waited all the shorter ones, so the one it is at exceeds the time since
the heartbeat by at most its initial value. Within the interval that keeps it in
`TameBackoffs`, defined without recursion as what is in every set that has the
initial backoff and is closed under doubling below the bound. That there is a
longest pause takes the well-ordering of the numbers
(`WellFoundedInduction`).

**`Admission_proofs`**, for any configurations and responses. `AdmissionInv` says
what is known at each check; that a match is prepared only with the evidence for it
(`EvidenceKnown`) is part of it. `TeamsAreWhole` counts: two teams of `TeamSize`
players with pairwise distinct texts are two disjoint sets of that size. Where
the verifier is satisfied the texts are spelled as their numbers are
(`FoundAsSpelled`), so there are as many numbers (`AsManyAsNumbers`), which is
`PreparedRosterIsWhole`. The three "exactly" theorems follow from the invariant: each
branch of a later check is decided by the few things that the parser leaves open.

Only model-checked: the liveness properties `TerminalIsReported`,
`LateLoadReconciled`, `ManagedCommandsStart`, `StopIsHeeded` (fairness is out of
the prover's reach). Only proved, and in no run: the type invariants of
`CommandJournal`, `ConfigFile` and `Admission`, the inductive invariants, and
`ImplementsBridge` of one process alone, whose system calls the run `DetailedTwo`
takes in both of its processes.

## Not modelled

- Failures of SQLite's durability: a committed transaction survives.
- Power failures outside `ConfigFile`: they take the game server and the player
  names with them, and a configuration whose name was not yet on disk.
- A newer release that initializes the same file at the same time.
- Seconds in the prepare cycle: its deadlines and intervals are nondeterministic
  in `MatchBridge`; `BridgeLoop` has their sum.
- A request that outlasts `CallTime`: urlopen's timeout is one per socket
  operation (`client.py:45`), so a slow peer can keep one open.
- Waiting for the journal elsewhere than in a cycle, and the disk's own time: opening
  a journal that is initialized only reads, which does not wait for a writer in
  WAL mode; a first start, which initializes it, is not timed; a write that
  found the file free is taken to return at once.
- `intake_one_cycle`: no entry point calls it. `__init__.py` has re-exports only.
- Argument parsing, the log, the layout of the JSON, the evidence parsers'
  syntax errors (each is the same as missing evidence), provisioning.
- Two registry entries that share a game directory: nothing says whether they may.

## Plan

Done: all modules above, with their runs and proofs. What would add most next:

1. The safety part of `LateLoadReconciled`: while the evidence for an APPLYING
   command is there, no inspection of it ends in `GiveUp`.
2. Any number of processes instead of two: `Working`, `Shared` and `Orderly` do not
   count them, only `Budget` does.
3. Power failures in the composition: `ConfigFile` has them, `MatchBridge` would
   have to let a configuration vanish that was renamed but not yet on disk.
