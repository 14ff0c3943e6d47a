------------------------------ MODULE Admission ------------------------------
(***************************************************************************)
(* What lets a command into the prepare cycle, and what the cycle can then *)
(* rely on: config.load_config with the server registry, the parser of the *)
(* claim response, _resolve_server, CommandIdentity, the columns of the    *)
(* journal, the renderer, the roster the verifier expects and the address  *)
(* of the result.  Each of them checks the same fields by rules of its own;*)
(* the model has one command pass through all of them.  The outside world  *)
(* works: what may go wrong there is MatchBridge's subject.                *)
(*                                                                         *)
(* A text is its words and the number of white space characters around     *)
(* them; a JSON number has its kind, because a Python bool is an int and   *)
(* 1.0 = 1; a SteamID is 17 digits, hence a number, the script they are    *)
(* written in, and what follows them.  Null stands for a field that is     *)
(* missing or of another JSON type.                                        *)
(***************************************************************************)
EXTENDS Integers, Sequences, FiniteSets

CONSTANTS
    Null,
    Words,           \* the non-blank texts without white space around them
    Length,          \* their lengths
    AbsolutePaths,   \* those that are absolute paths
    Encodable,       \* those UTF-8 can encode: without a lone surrogate
    PathSafe,        \* those that stand for themselves in the path of a URL
    MapNames,        \* the names under which the game server reports its maps
    IdsIn,           \* the SteamIDs the verifier's pattern finds in them, quoted
    HeaderSafe,      \* the texts http.client sends as a header
    SteamNumbers,    \* the numbers of at most 17 digits
    FullNumbers,     \* those of exactly 17: without a leading zero
    Scripts,         \* the scripts, "ascii" and others, the digits may be of
    TeamSize,        \* players of a team: 5
    MaxKeyLength,    \* of a server or node key: 64
    MinMatchId,      \* the least runtimeMatchId: 1_000_000
    MaxSqlite,       \* the largest SQLite INTEGER: 2^63 - 1
    Environments,    \* what the environment and the registry file may hold
    Responses        \* what Central may answer to a claim

ASSUME AdmissionConstants ==
    /\ Null \notin Words
    /\ Length \in [Words -> Nat]
    /\ Encodable \subseteq Words /\ MapNames \subseteq Words
    /\ FullNumbers \subseteq SteamNumbers /\ "ascii" \in Scripts
    /\ TeamSize \in Nat
    /\ MaxKeyLength \in Nat

Text == [word: Words \cup {Null}, pad: Nat]
Number == [kind: {"int", "float", "bool"}, value: Int]
SteamText == [number: SteamNumbers, script: Scripts, tail: {"none", "newline", "junk"}]

Entry == [unknownFields: BOOLEAN, serverKey: Text \cup {Null},
          csgoRoot: Text \cup {Null}, rconConfigPath: Text \cup {Null}]
RegistryFile == [readable: BOOLEAN, unknownFields: BOOLEAN, schemaVersion: Number \cup {Null},
                 servers: Seq(Entry) \cup {Null}]
Url == [scheme: {"https", "http"}, host: {"plain", "missing", "userinfo"},
        query: BOOLEAN, fragment: BOOLEAN, slashes: Nat]
Environment == [nodeKey: Text \cup {Null}, baseUrl: Url \cup {Null},
                credential: Text \cup {Null}, stateDb: Text \cup {Null},
                serversFile: Text \cup {Null}, rconExecutable: Text \cup {Null},
                registry: RegistryFile]

CleanFields == {"commandId", "assignmentId", "leaseToken", "competitiveMatchId"}
FilledFields == {"leaseExpiresAt", "serverKey", "poolKey", "mapKey", "displayName"}
TextFields == CleanFields \cup FilledFields
NumberFields == {"attempt", "specVersion", "runtimeMatchId", "poolVersion"}

Player == [playerAccountId: Text \cup {Null}, steamid64: SteamText \cup {Null},
           personaname: Text \cup {Null}]
Command == [commandType: {"PREPARE_MATCH", Null},
            text: [TextFields -> Text \cup {Null}],
            number: [NumberFields -> Number \cup {Null}],
            teamA: Seq(Player) \cup {Null}, teamB: Seq(Player) \cup {Null}]
Response == [ok: BOOLEAN, protocolVersion: Number \cup {Null}, command: Command \cup {Null}]

ServerRecord == [server_key: Text, csgo_root: Text, rcon_config_path: Text]
ConfigRecord == [base_url: Url, credential: Text, servers: Seq(ServerRecord)]
IdentityRecord == [command_id: Text, assignment_id: Text, server_key: Text,
                   runtime_match_id: Int]
RenderedRecord == [matchid: Int, map: Text, team1: SUBSET SteamText, team2: SUBSET SteamText,
                   names: SUBSET Words]

ASSUME AdmissionInputs ==
    /\ Environments \subseteq Environment
    /\ Responses \subseteq Response
    /\ IdsIn \in [Words -> SUBSET SteamText]
    /\ Null \notin Text \cup Number \cup SteamText \cup Seq(Player) \cup Command
    /\ Null \notin ServerRecord \cup ConfigRecord \cup IdentityRecord \cup RenderedRecord

(* str.strip, and the two rules the code has for a text it requires.       *)
Strip(text) == [text EXCEPT !.pad = 0]
Filled(text) == text # Null /\ text.word # Null
Clean(text) == Filled(text) /\ text.pad = 0
Size(text) == (IF text.word = Null THEN 0 ELSE Length[text.word]) + text.pad

IsInt(number) == number # Null /\ number.kind = "int"

-----------------------------------------------------------------------------
(* config.py                                                               *)

EntryOk(entry) ==
    /\ ~entry.unknownFields
    /\ Filled(entry.serverKey) /\ Size(Strip(entry.serverKey)) <= MaxKeyLength
    /\ Filled(entry.csgoRoot) /\ entry.csgoRoot.word \in AbsolutePaths
    /\ Filled(entry.rconConfigPath) /\ entry.rconConfigPath.word \in AbsolutePaths

DistinctRawKeys(entries) ==                                    \* mutant
    \A i, j \in DOMAIN entries : i # j => entries[i].serverKey # entries[j].serverKey

(* Distinct after normalization; the paths may well be shared.             *)
DistinctKeys(entries) ==
    \A i, j \in DOMAIN entries :
        i # j => Strip(entries[i].serverKey) # Strip(entries[j].serverKey)

RegistryOk(file) ==
    /\ file.readable /\ ~file.unknownFields
    /\ IsInt(file.schemaVersion) /\ file.schemaVersion.value = 2
    /\ file.servers # Null /\ file.servers # <<>>
    /\ \A i \in DOMAIN file.servers : EntryOk(file.servers[i])
    /\ DistinctKeys(file.servers)

ServerResource(entry) == [server_key |-> Strip(entry.serverKey),
                          csgo_root |-> Strip(entry.csgoRoot),
                          rcon_config_path |-> Strip(entry.rconConfigPath)]

(* A base URL: https, a host without credentials, and nothing after a path *)
(* whose trailing slashes are removed.                                     *)
BaseUrlOk(url) ==
    /\ url.scheme = "https"
    /\ url.host = "plain"
    /\ ~url.query /\ ~url.fragment

EnvironmentOk(env) ==
    /\ Filled(env.nodeKey) /\ Size(Strip(env.nodeKey)) <= MaxKeyLength
    /\ env.baseUrl # Null /\ BaseUrlOk(env.baseUrl)
    /\ Filled(env.credential)
    /\ Filled(env.stateDb)
    /\ Filled(env.serversFile)
    /\ Filled(env.rconExecutable) /\ env.rconExecutable.word \in AbsolutePaths
    /\ RegistryOk(env.registry)

(* BridgeConfig, what the cycle uses of it.  The credential is not trimmed.*)
BridgeConfig(env) ==
    [base_url |-> [env.baseUrl EXCEPT !.slashes = 0],
     credential |-> env.credential,
     servers |-> [i \in DOMAIN env.registry.servers |-> ServerResource(env.registry.servers[i])]]

-----------------------------------------------------------------------------
(* protocol.py: the parser refuses or takes over a payload unchanged.      *)

(* isinstance(v, bool) or v != 1: the float 1.0 passes.                    *)
VersionOk(number) == number # Null /\ number.kind # "bool" /\ number.value = 1

TextsUntrimmed(text) == \A f \in TextFields : Filled(text[f])  \* mutant

TextsOk(text) ==
    /\ \A f \in CleanFields : Clean(text[f])
    /\ \A f \in FilledFields : Filled(text[f])

NumbersFromOne(number) ==                                      \* mutant
    /\ VersionOk(number.specVersion)
    /\ \A f \in {"attempt", "runtimeMatchId", "poolVersion"} :
          IsInt(number[f]) /\ number[f].value >= 1

NumbersOk(number) ==
    /\ VersionOk(number.specVersion)
    /\ \A f \in {"attempt", "poolVersion"} : IsInt(number[f]) /\ number[f].value >= 1
    /\ IsInt(number.runtimeMatchId) /\ number.runtimeMatchId.value >= MinMatchId

(* ^\d{17}$: on a str, \d is a decimal digit of any script, and without    *)
(* fullmatch `$` also matches before a final newline.                      *)
SteamIdOk(steam) == steam # Null /\ steam.tail \in {"none", "newline"}

PlayerOk(player) ==
    /\ Clean(player.playerAccountId)
    /\ SteamIdOk(player.steamid64)
    /\ Clean(player.personaname)

TeamOk(team) ==
    /\ team # Null
    /\ Len(team) = TeamSize
    /\ \A i \in DOMAIN team : PlayerOk(team[i])

(* Over both teams; it is the texts that differ, not the numbers.          *)
DistinctWithin(a, b) ==                                        \* mutant
    \A team \in {a, b} : \A i, j \in DOMAIN team :
        i # j => /\ team[i].playerAccountId # team[j].playerAccountId
                 /\ team[i].steamid64 # team[j].steamid64

DistinctPlayers(a, b) ==
    LET all == a \o b
    IN  \A i, j \in DOMAIN all :
            i # j => /\ all[i].playerAccountId # all[j].playerAccountId
                     /\ all[i].steamid64 # all[j].steamid64

CommandOk(command) ==
    /\ command.commandType = "PREPARE_MATCH"
    /\ TextsOk(command.text)
    /\ Size(command.text.serverKey) <= MaxKeyLength
    /\ NumbersOk(command.number)
    /\ TeamOk(command.teamA) /\ TeamOk(command.teamB)
    /\ DistinctPlayers(command.teamA, command.teamB)

(* "command" is null where there is no work.                               *)
ResponseOk(response) ==
    /\ response.ok
    /\ VersionOk(response.protocolVersion)
    /\ response.command # Null => CommandOk(response.command)

-----------------------------------------------------------------------------
(* models.py, matchzy.py, matchzy_verifier.py                              *)

(* CommandIdentity.__post_init__ checks again, and strips the server key.  *)
IdentityOk(command) ==
    /\ Filled(command.text.commandId) /\ Filled(command.text.assignmentId)
    /\ Filled(command.text.serverKey) /\ Size(Strip(command.text.serverKey)) <= MaxKeyLength
    /\ IsInt(command.number.runtimeMatchId)
    /\ command.number.runtimeMatchId.value >= MinMatchId

CommandIdentity(command) == [command_id |-> command.text.commandId,
                             assignment_id |-> command.text.assignmentId,
                             server_key |-> Strip(command.text.serverKey),
                             runtime_match_id |-> command.number.runtimeMatchId.value]

(* The players of a team are a dictionary from SteamID to name.            *)
Players(team) == {team[i].steamid64 : i \in DOMAIN team}
Names(team) == {team[i].personaname.word : i \in DOMAIN team}

Rendered(command) == [matchid |-> command.number.runtimeMatchId.value,
                      map |-> command.text.mapKey,
                      team1 |-> Players(command.teamA),
                      team2 |-> Players(command.teamB),
                      names |-> Names(command.teamA) \cup Names(command.teamB)]

SteamTexts(config) == config.team1 \cup config.team2

(* External: MatchZy takes SteamIDs for numbers and lists them, with the   *)
(* names, in ASCII digits and without leading zeros.  The server plays a   *)
(* map it has, and reports its bare name.                                  *)
NamesFile(config) == {steam.number : steam \in SteamTexts(config)}
CurrentMap(config) == IF config.map.word \in MapNames THEN Strip(config.map) ELSE Null

(* The pattern "(\d{17})" finds the numbers of 17 digits, and the names     *)
(* that look like one: both are quoted in the file.                        *)
Bare(number) == [number |-> number, script |-> "ascii", tail |-> "none"]
FoundInNames(config) == UNION {IdsIn[name] : name \in config.names}
FoundIds(config) == {Bare(n) : n \in NamesFile(config) \cap FullNumbers}
                      \cup FoundInNames(config)

EvidentOfSome(command, config) ==                              \* mutant
    /\ FoundIds(config) \subseteq Players(command.teamA \o command.teamB)
    /\ CurrentMap(config) = command.text.mapKey

Evident(command, config) ==
    LET expected == Players(command.teamA \o command.teamB)
    IN  /\ Cardinality(expected) = 2 * TeamSize
        /\ FoundIds(config) = expected
        /\ CurrentMap(config) = command.text.mapKey

(* client.py: the id is put into the path of the URL as it is.             *)
Addressable(command) == Clean(command.text.commandId)
                        /\ command.text.commandId.word \in PathSafe

-----------------------------------------------------------------------------
VARIABLES
    pc,         \* which of the checks comes next
    config,     \* the node's BridgeConfig, or Null
    claimed,    \* the ClaimedCommand, or Null
    server,     \* the resource _resolve_server found for it, or Null
    identity,   \* the row the journal holds of it, or Null
    rendered    \* its MatchZy configuration, or Null

work == <<claimed, server, identity, rendered>>
vars == <<pc, config, work>>

(* What is known at each of the checks.                                    *)
TypeOK ==
    /\ pc \in {"down", "idle", "claimed", "resolved", "observed", "rendered", "prepared"}
    /\ config \in ConfigRecord \cup {Null}
    /\ claimed \in Command \cup {Null}
    /\ server \in ServerRecord \cup {Null}
    /\ identity \in IdentityRecord \cup {Null}
    /\ rendered \in RenderedRecord \cup {Null}
    /\ (config = Null) <=> (pc = "down")
    /\ (claimed = Null) <=> (pc \in {"down", "idle"})
    /\ (server = Null) <=> (pc \in {"down", "idle", "claimed"})
    /\ (identity = Null) <=> (pc \in {"down", "idle", "claimed", "resolved"})
    /\ (rendered = Null) <=> (pc \notin {"rendered", "prepared"})

Init ==
    /\ pc = "down" /\ config = Null
    /\ claimed = Null /\ server = Null /\ identity = Null /\ rendered = Null

Forget == claimed' = Null /\ server' = Null /\ identity' = Null /\ rendered' = Null

(* An exception of any of the checks leaves the cycle and the process.     *)
Exit == pc' = "down" /\ config' = Null /\ Forget

(* The cycle is over: back to the loop.                                    *)
Return == pc' = "idle" /\ Forget /\ UNCHANGED config

(* main, load_config: with a ConfigurationError the process ends at once.  *)
LoadConfig(env) ==
    /\ pc = "down"
    /\ EnvironmentOk(env)
    /\ pc' = "idle"
    /\ config' = BridgeConfig(env)
    /\ UNCHANGED work

(* client.claim: http.client refuses a header with a line break or beyond  *)
(* Latin-1.                                                                *)
ClaimRefused(response) ==
    /\ pc = "idle"
    /\ config.credential \notin HeaderSafe \/ ~ResponseOk(response)
    /\ Exit

Claim(response) ==
    /\ pc = "idle"
    /\ config.credential \in HeaderSafe
    /\ ResponseOk(response)
    /\ response.command # Null
    /\ pc' = "claimed" /\ claimed' = response.command
    /\ UNCHANGED <<config, server, identity, rendered>>

(* _resolve_server takes the first match; the claimed key is compared as   *)
(* it came, the registry's have been stripped.                             *)
Resolve ==
    /\ pc = "claimed"
    /\ \E i \in DOMAIN config.servers :
          /\ config.servers[i].server_key = claimed.text.serverKey
          /\ \A j \in 1..(i - 1) : config.servers[j].server_key # claimed.text.serverKey
          /\ server' = config.servers[i]
    /\ pc' = "resolved"
    /\ UNCHANGED <<config, claimed, identity, rendered>>

Unmanaged ==
    /\ pc = "claimed"
    /\ \A i \in DOMAIN config.servers : config.servers[i].server_key # claimed.text.serverKey
    /\ Exit

(* CommandIdentity, and SELECT FROM and INSERT INTO command_journal:       *)
(* sqlite3 binds integers of 64 bits and texts in UTF-8.                   *)
JournaledTexts == {"commandId", "assignmentId", "serverKey"}

Recordable(command) ==
    /\ IdentityOk(command)
    /\ command.number.runtimeMatchId.value <= MaxSqlite
    /\ \A f \in JournaledTexts : command.text[f].word \in Encodable

Observe ==
    /\ pc = "resolved"
    /\ Recordable(claimed)
    /\ pc' = "observed" /\ identity' = CommandIdentity(claimed)
    /\ UNCHANGED <<config, claimed, server, rendered>>

(* CommandValidationError, or sqlite3's OverflowError, UnicodeEncodeError. *)
ObserveRaises == pc = "resolved" /\ ~Recordable(claimed) /\ Exit

(* Materialized and loaded.                                                *)
Render ==
    /\ pc = "observed"
    /\ pc' = "rendered" /\ rendered' = Rendered(claimed)
    /\ UNCHANGED <<config, claimed, server, identity>>

(* wait_for_matchzy_prepared on the server that loaded it.                 *)
Prepared ==
    /\ pc = "rendered"
    /\ Evident(claimed, rendered)
    /\ pc' = "prepared"
    /\ UNCHANGED <<config, work>>

Uncertain == pc = "rendered" /\ ~Evident(claimed, rendered) /\ Return

(* submit_result; an address that is not the command's is a ProtocolError. *)
SubmitResult == pc = "prepared" /\ Addressable(claimed) /\ Return
SubmitRaises == pc = "prepared" /\ ~Addressable(claimed) /\ Exit

Next ==
    \/ \E env \in Environments : LoadConfig(env)
    \/ \E response \in Responses : Claim(response) \/ ClaimRefused(response)
    \/ Resolve \/ Unmanaged
    \/ Observe \/ ObserveRaises
    \/ Render
    \/ Prepared \/ Uncertain
    \/ SubmitResult \/ SubmitRaises

Spec == Init /\ [][Next]_vars

-----------------------------------------------------------------------------
(* A SteamID in the spelling the verifier finds a number in.               *)
IsBare(steam) == steam.number \in FullNumbers /\ steam = Bare(steam.number)
NamesAreBare(game) == \A steam \in FoundInNames(game) : IsBare(steam)

(* The key that was claimed, the key that is journaled and the key of the  *)
(* server that will be actuated are one and the same, although the claim   *)
(* is not stripped, the registry is and CommandIdentity strips again; and  *)
(* no other server of the registry has it.                                 *)
TargetIsTheClaim ==
    identity # Null =>
        /\ identity.server_key = claimed.text.serverKey
        /\ server.server_key = identity.server_key
        /\ \A i \in DOMAIN config.servers :
              config.servers[i].server_key = identity.server_key => config.servers[i] = server

(* A match that is PREPARED has TeamSize different players in each team    *)
(* and nobody in both.  The parser compares texts (protocol.py:266), and a *)
(* number has several that its pattern admits: they are keys of their own  *)
(* in the renderer's dictionaries, but one player, which only the verifier *)
(* can notice.  It may be misled by a name, see VerifiableExactly.         *)
PreparedRosterIsWhole ==
    pc = "prepared" /\ NamesAreBare(rendered) =>
        LET numbers(team) == {steam.number : steam \in team}
        IN  /\ Cardinality(numbers(rendered.team1)) = TeamSize
            /\ Cardinality(numbers(rendered.team2)) = TeamSize
            /\ numbers(rendered.team1) \cap numbers(rendered.team2) = {}

(* Of what the parser admits for a managed server, CommandIdentity refuses *)
(* nothing (its errors would end the process at each claim).  What cannot  *)
(* be recorded is a match id beyond SQLite's integers, and a journaled     *)
(* text with a lone surrogate, which JSON can spell and UTF-8 cannot.      *)
RecordableExactly ==
    [][pc = "resolved" =>
          ((pc' = "observed") <=>
              /\ claimed.number.runtimeMatchId.value <= MaxSqlite
              /\ \A f \in JournaledTexts : claimed.text[f].word \in Encodable)]_vars

(* What is admitted and loaded can be recognized as PREPARED, but for      *)
(* three kinds of command: a SteamID that is not written as its number     *)
(* is (a final newline, digits of another script, leading zeros), a player *)
(* whose name is 17 digits but no player's SteamID, and a map key that is  *)
(* not exactly the name of a map.  Where a name is 17 digits of another    *)
(* script, or with a leading zero, it can pass for such a SteamID; those   *)
(* commands are left out.                                                  *)
VerifiableExactly ==
    [][pc = "rendered" /\ NamesAreBare(rendered) =>
          ((pc' = "prepared") <=>
              /\ \A steam \in SteamTexts(rendered) : IsBare(steam)
              /\ FoundInNames(rendered) \subseteq SteamTexts(rendered)
              /\ claimed.text.mapKey.word \in MapNames /\ claimed.text.mapKey.pad = 0)]_vars

(* What is PREPARED can be reported, but for a command id that does not    *)
(* stand for itself in the path of the URL.                                *)
ReportableExactly ==
    [][pc = "prepared" =>
          ((pc' = "idle") <=> (claimed.text.commandId.word \in PathSafe))]_vars
=============================================================================
