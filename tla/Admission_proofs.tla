-------------------------- MODULE Admission_proofs --------------------------
(***************************************************************************)
(* For any team size, bounds, environments and responses: what the checks  *)
(* at the door leave to be relied on, and exactly what they let through    *)
(* that a later check cannot cope with.                                    *)
(***************************************************************************)
EXTENDS Admission, FiniteSetTheorems, FunctionTheorems, SequenceTheorems, TLAPS

-----------------------------------------------------------------------------
(* Texts, teams and players.                                               *)

LEMMA StripType == \A text \in Text : Strip(text) \in Text /\ Strip(text).pad = 0
  BY DEF Text, Strip

LEMMA StripClean == \A text \in Text : text.pad = 0 => Strip(text) = text
  BY DEF Text, Strip

LEMMA PlayersType ==
  ASSUME NEW team \in Seq(Player), TeamOk(team)
  PROVE  /\ team \in [1..TeamSize -> Player]
         /\ \A i \in 1..TeamSize : team[i].steamid64 \in SteamText
         /\ Players(team) \in SUBSET SteamText
         /\ Names(team) \in SUBSET Words
<1>1. team \in [1..TeamSize -> Player] /\ DOMAIN team = 1..TeamSize
  BY DEF TeamOk
<1>2. \A i \in 1..TeamSize : team[i].steamid64 \in SteamText
  BY <1>1 DEF TeamOk, PlayerOk, SteamIdOk, Player
<1>3. \A i \in 1..TeamSize : team[i].personaname.word \in Words
  BY <1>1 DEF TeamOk, PlayerOk, Clean, Filled, Player, Text
<1>4. QED
  BY <1>1, <1>2, <1>3 DEF Players, Names

(* Distinct SteamIDs are as many as the places they stand at.              *)
LEMMA AsManyAsPlaces ==
  ASSUME NEW n \in Nat, NEW f, DOMAIN f = 1..n,
         \A i, j \in 1..n : i # j => f[i] # f[j]
  PROVE  /\ IsFiniteSet({f[i] : i \in 1..n})
         /\ Cardinality({f[i] : i \in 1..n}) = n
<1> DEFINE S == {f[i] : i \in 1..n}
           g == [i \in 1..n |-> f[i]]
<1>1. g \in [1..n -> S] /\ (\A i, j \in 1..n : g[i] = g[j] => i = j)
  OBVIOUS
<1>2. \A s \in S : \E i \in 1..n : g[i] = s
  OBVIOUS
<1> HIDE DEF S, g
<1>3. g \in Bijection(1..n, S)
  BY <1>1, <1>2, Fun_IsBij
<1>4. ExistsBijection(1..n, S)
  BY <1>3 DEF ExistsBijection
<1>5. IsFiniteSet(1..n) /\ Cardinality(1..n) = n
  BY FS_Interval
<1>6. IsFiniteSet(S) /\ Cardinality(S) = n
  BY <1>4, <1>5, FS_Bijection
<1>7. QED
  BY <1>6 DEF S

LEMMA OneAfterTheOther ==
  ASSUME NEW a \in Seq(Player), NEW b \in Seq(Player)
  PROVE  /\ Len(a \o b) = Len(a) + Len(b)
         /\ \A i \in 1..Len(a) : (a \o b)[i] = a[i]
         /\ \A i \in 1..Len(b) : (a \o b)[Len(a) + i] = b[i]
         /\ \A k \in 1..(Len(a) + Len(b)) :
              \/ k \in 1..Len(a)
              \/ \E i \in 1..Len(b) : k = Len(a) + i
<1>1. Len(a) \in Nat /\ Len(b) \in Nat
  BY LenProperties
<1>2. /\ Len(a \o b) = Len(a) + Len(b)
      /\ \A i \in 1..(Len(a) + Len(b)) :
           (a \o b)[i] = IF i <= Len(a) THEN a[i] ELSE b[i - Len(a)]
  BY ConcatProperties
<1>3. ASSUME NEW i \in 1..Len(b)
      PROVE  (a \o b)[Len(a) + i] = b[i]
  <2>1. /\ Len(a) + i \in 1..(Len(a) + Len(b))
        /\ ~(Len(a) + i <= Len(a))
        /\ (Len(a) + i) - Len(a) = i
    BY <1>1
  <2>2. QED
    BY <1>2, <2>1
<1>4. ASSUME NEW k \in 1..(Len(a) + Len(b)), k \notin 1..Len(a)
      PROVE  \E i \in 1..Len(b) : k = Len(a) + i
  <2>1. (k - Len(a)) \in 1..Len(b) /\ k = Len(a) + (k - Len(a))
    BY <1>1, <1>4
  <2>2. QED
    BY <2>1
<1>5. \A i \in 1..Len(a) : (a \o b)[i] = a[i]
  BY <1>1, <1>2
<1>6. QED
  BY <1>2, <1>3, <1>4, <1>5

(* Two admitted teams: the players of each, of both, and none in common.   *)
LEMMA TeamsAreWhole ==
  ASSUME NEW a \in Seq(Player), NEW b \in Seq(Player), TeamOk(a), TeamOk(b),
         DistinctPlayers(a, b)
  PROVE  /\ IsFiniteSet(Players(a)) /\ Cardinality(Players(a)) = TeamSize
         /\ IsFiniteSet(Players(b)) /\ Cardinality(Players(b)) = TeamSize
         /\ Players(a) \cap Players(b) = {}
         /\ Players(a \o b) = Players(a) \cup Players(b)
         /\ Cardinality(Players(a \o b)) = 2 * TeamSize
<1>0. TeamSize \in Nat
  BY AdmissionConstants DEF AdmissionConstants
<1> DEFINE all == a \o b
<1>1. /\ Len(a) = TeamSize /\ Len(b) = TeamSize
      /\ DOMAIN a = 1..Len(a) /\ DOMAIN b = 1..Len(b)
      /\ DOMAIN all = 1..Len(all)
  <2>1. all \in Seq(Player)
    BY ConcatProperties
  <2>2. QED
    BY <2>1, LenProperties DEF TeamOk
<1>2. /\ DOMAIN a = 1..TeamSize /\ DOMAIN b = 1..TeamSize
      /\ DOMAIN all = 1..(TeamSize + TeamSize)
  BY <1>1, OneAfterTheOther
<1>3. /\ \A i \in 1..TeamSize : all[i] = a[i] /\ all[TeamSize + i] = b[i]
      /\ \A k \in 1..(TeamSize + TeamSize) :
           k \in 1..TeamSize \/ \E i \in 1..TeamSize : k = TeamSize + i
  <2>1. \A i \in 1..TeamSize : all[i] = a[i]
    BY <1>1, OneAfterTheOther
  <2>2. \A i \in 1..TeamSize : all[TeamSize + i] = b[i]
    <3>1. \A i \in 1..Len(b) : all[Len(a) + i] = b[i]
      BY OneAfterTheOther, Zenon
    <3> HIDE DEF all
    <3>2. QED
      BY <1>1, <3>1
  <2>3. \A k \in 1..(TeamSize + TeamSize) :
           k \in 1..TeamSize \/ \E i \in 1..TeamSize : k = TeamSize + i
    BY <1>1, OneAfterTheOther
  <2>4. QED
    BY <2>1, <2>2, <2>3
<1>4. \A i, j \in 1..(TeamSize + TeamSize) : i # j => all[i].steamid64 # all[j].steamid64
  <2>1. \A i, j \in DOMAIN all : i # j => all[i].steamid64 # all[j].steamid64
    BY Zenon DEF DistinctPlayers
  <2> HIDE DEF all
  <2>2. QED
    BY <1>2, <2>1
<1> HIDE DEF all
<1>5. \A i \in 1..TeamSize : i \in 1..(TeamSize + TeamSize) /\ (TeamSize + i) \in 1..(TeamSize + TeamSize)
  BY <1>0
<1>6. \A i, j \in 1..TeamSize : i # TeamSize + j /\ (i # j => TeamSize + i # TeamSize + j)
  BY <1>0
<1>7. ASSUME NEW i \in 1..TeamSize, NEW j \in 1..TeamSize, i # j
      PROVE  a[i].steamid64 # a[j].steamid64 /\ b[i].steamid64 # b[j].steamid64
  <2>1. all[i].steamid64 # all[j].steamid64
    BY <1>4, <1>5, <1>7
  <2>2. all[TeamSize + i].steamid64 # all[TeamSize + j].steamid64
    BY <1>4, <1>5, <1>6, <1>7
  <2>3. QED
    BY <1>3, <2>1, <2>2
<1>8. ASSUME NEW i \in 1..TeamSize, NEW j \in 1..TeamSize
      PROVE  a[i].steamid64 # b[j].steamid64
  <2>1. all[i].steamid64 # all[TeamSize + j].steamid64
    BY <1>4, <1>5, <1>6
  <2>2. QED
    BY <1>3, <2>1
<1>9. IsFiniteSet(Players(a)) /\ Cardinality(Players(a)) = TeamSize
  <2> DEFINE f == [i \in 1..TeamSize |-> a[i].steamid64]
  <2>1. DOMAIN f = 1..TeamSize /\ (\A i, j \in 1..TeamSize : i # j => f[i] # f[j])
    BY <1>7
  <2>2. Players(a) = {f[i] : i \in 1..TeamSize}
    BY <1>2 DEF Players
  <2> HIDE DEF f
  <2>3. QED
    BY <1>0, <2>1, <2>2, AsManyAsPlaces
<1>10. IsFiniteSet(Players(b)) /\ Cardinality(Players(b)) = TeamSize
  <2> DEFINE f == [i \in 1..TeamSize |-> b[i].steamid64]
  <2>1. DOMAIN f = 1..TeamSize /\ (\A i, j \in 1..TeamSize : i # j => f[i] # f[j])
    BY <1>7
  <2>2. Players(b) = {f[i] : i \in 1..TeamSize}
    BY <1>2 DEF Players
  <2> HIDE DEF f
  <2>3. QED
    BY <1>0, <2>1, <2>2, AsManyAsPlaces
<1>11. Players(a) \cap Players(b) = {}
  BY <1>2, <1>8 DEF Players
<1>12. Players(all) = Players(a) \cup Players(b)
  <2>1. \A k \in 1..(TeamSize + TeamSize) : all[k].steamid64 \in Players(a) \cup Players(b)
    BY <1>2, <1>3 DEF Players
  <2>2. Players(a) \subseteq Players(all) /\ Players(b) \subseteq Players(all)
    BY <1>2, <1>3, <1>5 DEF Players
  <2>3. Players(all) \subseteq Players(a) \cup Players(b)
    BY <1>2, <2>1 DEF Players
  <2>4. QED
    BY <2>2, <2>3
<1>13. Cardinality(Players(all)) = 2 * TeamSize
  <2>1. Cardinality(Players(a) \cup Players(b)) = TeamSize + TeamSize - Cardinality({})
    BY <1>9, <1>10, <1>11, FS_Union
  <2>2. Cardinality({}) = 0
    BY FS_EmptySet
  <2>3. TeamSize + TeamSize - 0 = 2 * TeamSize
    BY <1>0
  <2>4. QED
    BY <1>12, <2>1, <2>2, <2>3
<1>14. QED
  BY <1>9, <1>10, <1>11, <1>12, <1>13 DEF all

(* Where no name passes for another spelling, the verifier finds the       *)
(* SteamIDs of a game exactly if each is spelled as its number is, and the *)
(* names add none.                                                         *)
LEMMA FoundAsSpelled ==
  ASSUME NEW game, NamesAreBare(game)
  PROVE  (FoundIds(game) = SteamTexts(game)) <=>
           /\ \A steam \in SteamTexts(game) : IsBare(steam)
           /\ FoundInNames(game) \subseteq SteamTexts(game)
<1>1. \A n : Bare(n).number = n
  BY DEF Bare
<1>2. \A steam \in FoundIds(game) : IsBare(steam)
  BY <1>1 DEF FoundIds, IsBare, NamesAreBare
<1>3. FoundInNames(game) \subseteq FoundIds(game)
  BY DEF FoundIds
<1>4. ASSUME \A steam \in SteamTexts(game) : IsBare(steam),
             FoundInNames(game) \subseteq SteamTexts(game)
      PROVE  FoundIds(game) = SteamTexts(game)
  <2>1. SteamTexts(game) \subseteq FoundIds(game)
    BY <1>4 DEF FoundIds, NamesFile, IsBare
  <2>2. ASSUME NEW n \in NamesFile(game) PROVE Bare(n) \in SteamTexts(game)
    BY <1>4 DEF NamesFile, IsBare
  <2>3. FoundIds(game) \subseteq SteamTexts(game)
    BY <1>4, <2>2 DEF FoundIds
  <2>4. QED
    BY <2>1, <2>3
<1>5. QED
  BY <1>2, <1>3, <1>4

(* Texts that are spelled as their numbers are as many as the numbers.     *)
LEMMA AsManyAsNumbers ==
  ASSUME NEW team, IsFiniteSet(team), \A steam \in team : IsBare(steam)
  PROVE  Cardinality({steam.number : steam \in team}) = Cardinality(team)
<1> DEFINE numbers == {steam.number : steam \in team}
           number == [steam \in team |-> steam.number]
<1>1. number \in [team -> numbers]
  OBVIOUS
<1>2. \A s, t \in team : number[s] = number[t] => s = t
  BY DEF IsBare
<1>3. \A n \in numbers : \E s \in team : number[s] = n
  OBVIOUS
<1> HIDE DEF numbers, number
<1>4. ExistsBijection(team, numbers)
  BY <1>1, <1>2, <1>3, Fun_IsBij DEF ExistsBijection
<1>5. Cardinality(numbers) = Cardinality(team)
  BY <1>4, FS_Bijection
<1>6. QED
  BY <1>5 DEF numbers

-----------------------------------------------------------------------------
(* The inductive invariant: which check has passed what.                   *)

CommandKnown == claimed # Null => CommandOk(claimed)

RegistryKnown ==
    config # Null =>
        /\ \A i \in DOMAIN config.servers : config.servers[i].server_key.pad = 0
        /\ \A i, j \in DOMAIN config.servers :
              i # j => config.servers[i].server_key # config.servers[j].server_key

ServerKnown ==
    server # Null =>
        \E i \in DOMAIN config.servers :
            server = config.servers[i] /\ server.server_key = claimed.text.serverKey

IdentityKnown == identity # Null => identity = CommandIdentity(claimed)
RenderedKnown == rendered # Null => rendered = Rendered(claimed)
EvidenceKnown == pc = "prepared" => Evident(claimed, rendered)

AdmissionInv ==
    /\ TypeOK /\ CommandKnown /\ RegistryKnown /\ ServerKnown
    /\ IdentityKnown /\ RenderedKnown /\ EvidenceKnown

(* Null is none of the records.                                            *)
LEMMA NullIsNoRecord ==
    /\ Null \notin Text /\ Null \notin Number /\ Null \notin SteamText /\ Null \notin Command
    /\ Null \notin Seq(Player)
    /\ Null \notin ServerRecord /\ Null \notin ConfigRecord
    /\ Null \notin IdentityRecord /\ Null \notin RenderedRecord
  BY AdmissionInputs DEF AdmissionInputs

(* What an admitted command's fields are.                                  *)
LEMMA CommandFields ==
  ASSUME NEW command \in Command, CommandOk(command)
  PROVE  /\ \A f \in TextFields : command.text[f] \in Text /\ command.text[f].word # Null
         /\ \A f \in CleanFields : command.text[f].pad = 0
         /\ command.number.runtimeMatchId \in Number
         /\ command.number.runtimeMatchId.kind = "int"
         /\ command.number.runtimeMatchId.value \in Int
         /\ command.number.runtimeMatchId.value >= MinMatchId
         /\ command.teamA \in Seq(Player) /\ command.teamB \in Seq(Player)
<1>1. /\ command.text \in [TextFields -> Text \cup {Null}]
      /\ command.number \in [NumberFields -> Number \cup {Null}]
      /\ command.teamA \in Seq(Player) \cup {Null} /\ command.teamB \in Seq(Player) \cup {Null}
  BY DEF Command
<1>2. \A f \in TextFields : Filled(command.text[f])
  BY DEF CommandOk, TextsOk, Clean, TextFields
<1>3. \A f \in CleanFields : command.text[f].pad = 0
  BY DEF CommandOk, TextsOk, Clean
<1>4. /\ command.number.runtimeMatchId # Null
      /\ command.number.runtimeMatchId.kind = "int"
      /\ command.number.runtimeMatchId.value >= MinMatchId
  BY DEF CommandOk, NumbersOk, IsInt
<1>5. command.number.runtimeMatchId \in Number
  BY <1>1, <1>4 DEF NumberFields
<1>6. command.number.runtimeMatchId.value \in Int
  BY <1>5 DEF Number
<1>7. command.teamA # Null /\ command.teamB # Null
  BY DEF CommandOk, TeamOk
<1>8. \A f \in TextFields : command.text[f] \in Text /\ command.text[f].word # Null
  BY <1>1, <1>2 DEF Filled
<1>9. QED
  BY <1>1, <1>3, <1>4, <1>5, <1>6, <1>7, <1>8

(* What an admitted registry becomes.                                      *)
LEMMA RegistryLoaded ==
  ASSUME NEW env \in Environment, EnvironmentOk(env)
  PROVE  /\ BridgeConfig(env) \in ConfigRecord
         /\ DOMAIN BridgeConfig(env).servers = DOMAIN env.registry.servers
         /\ \A i \in DOMAIN env.registry.servers :
              BridgeConfig(env).servers[i].server_key = Strip(env.registry.servers[i].serverKey)
         /\ \A i \in DOMAIN env.registry.servers : env.registry.servers[i].serverKey \in Text
<1> DEFINE entries == env.registry.servers
<1>1. entries \in Seq(Entry) \cup {Null} /\ entries # Null
  BY DEF Environment, RegistryFile, EnvironmentOk, RegistryOk
<1>2. entries \in Seq(Entry)
  BY <1>1
<1>3. Len(entries) \in Nat /\ DOMAIN entries = 1..Len(entries) /\ entries \in [1..Len(entries) -> Entry]
  BY <1>2, LenProperties
<1>4. \A i \in DOMAIN entries : EntryOk(entries[i])
  BY DEF EnvironmentOk, RegistryOk
<1> HIDE DEF entries
<1>5. ASSUME NEW i \in DOMAIN entries
      PROVE  /\ entries[i].serverKey \in Text /\ entries[i].csgoRoot \in Text
             /\ entries[i].rconConfigPath \in Text
  <2>1. entries[i] \in Entry
    BY <1>3
  <2>2. QED
    BY <1>4, <2>1 DEF Entry, EntryOk, Filled
<1>6. \A i \in DOMAIN entries : ServerResource(entries[i]) \in ServerRecord
  BY <1>5, StripType DEF ServerResource, ServerRecord
<1> DEFINE servers == [i \in DOMAIN entries |-> ServerResource(entries[i])]
<1>7. servers \in Seq(ServerRecord)
  <2>1. servers \in [1..Len(entries) -> ServerRecord]
    BY <1>3, <1>6
  <2>2. QED
    BY <1>3, <2>1, SeqDef
<1>8. env.credential \in Text /\ env.baseUrl \in Url
  BY DEF Environment, EnvironmentOk, Filled
<1>9. [env.baseUrl EXCEPT !.slashes = 0] \in Url
  BY <1>8 DEF Url
<1>10. BridgeConfig(env) = [base_url |-> [env.baseUrl EXCEPT !.slashes = 0],
                            credential |-> env.credential, servers |-> servers]
  BY DEF BridgeConfig, entries
<1>11. BridgeConfig(env) \in ConfigRecord
  BY <1>7, <1>8, <1>9, <1>10 DEF ConfigRecord
<1>12. BridgeConfig(env).servers = servers
  BY <1>10
<1>13. QED
  BY <1>5, <1>11, <1>12 DEF entries, ServerResource

(* What is recorded and rendered of an admitted command.                   *)
LEMMA CommandPassedOn ==
  ASSUME NEW command \in Command, CommandOk(command)
  PROVE  /\ CommandIdentity(command) \in IdentityRecord
         /\ Rendered(command) \in RenderedRecord
         /\ IdentityOk(command)
<1> USE DEF TextFields, CleanFields, FilledFields
<1>1. /\ command.text.commandId \in Text /\ command.text.assignmentId \in Text
      /\ command.text.serverKey \in Text /\ command.text.mapKey \in Text
  BY CommandFields
<1>2. /\ command.text.commandId.word # Null /\ command.text.assignmentId.word # Null
      /\ command.text.serverKey.word # Null
  BY CommandFields
<1>3. CommandIdentity(command) \in IdentityRecord
  BY <1>1, StripType, CommandFields DEF CommandIdentity, IdentityRecord
<1>4. /\ Players(command.teamA) \in SUBSET SteamText /\ Players(command.teamB) \in SUBSET SteamText
      /\ Names(command.teamA) \in SUBSET Words /\ Names(command.teamB) \in SUBSET Words
  BY CommandFields, PlayersType DEF CommandOk
<1>5. Rendered(command) \in RenderedRecord
  BY <1>1, <1>4, CommandFields DEF Rendered, RenderedRecord
<1>6. Size(Strip(command.text.serverKey)) <= MaxKeyLength
  <2>1. /\ Strip(command.text.serverKey).word = command.text.serverKey.word
        /\ Strip(command.text.serverKey).pad = 0
    BY <1>1 DEF Strip, Text
  <2>2. command.text.serverKey.word \in Words /\ command.text.serverKey.pad \in Nat
    BY <1>1, <1>2 DEF Text
  <2>3. Length[command.text.serverKey.word] \in Nat /\ MaxKeyLength \in Nat
    BY <2>2, AdmissionConstants DEF AdmissionConstants
  <2>4. Length[command.text.serverKey.word] + command.text.serverKey.pad <= MaxKeyLength
    BY <1>2 DEF CommandOk, Size
  <2>5. Length[command.text.serverKey.word] + 0 <= MaxKeyLength
    BY <2>2, <2>3, <2>4
  <2>6. QED
    BY <1>2, <2>1, <2>5 DEF Size
<1>7. IdentityOk(command)
  BY <1>1, <1>2, <1>6, CommandFields, NullIsNoRecord DEF IdentityOk, Filled, IsInt
<1>8. QED
  BY <1>3, <1>5, <1>7

(* Its teams are as many texts as the payload has players.                 *)
TeamsOf(command) ==
    LET a == Players(command.teamA)
        b == Players(command.teamB)
        all == Players(command.teamA \o command.teamB)
    IN  /\ IsFiniteSet(a) /\ Cardinality(a) = TeamSize
        /\ IsFiniteSet(b) /\ Cardinality(b) = TeamSize
        /\ a \cap b = {}
        /\ all = a \cup b
        /\ Cardinality(all) = 2 * TeamSize

LEMMA TeamsAdmitted ==
  ASSUME NEW command \in Command, CommandOk(command)
  PROVE  TeamsOf(command)
<1>1. /\ command.teamA \in Seq(Player) /\ command.teamB \in Seq(Player)
      /\ TeamOk(command.teamA) /\ TeamOk(command.teamB)
      /\ DistinctPlayers(command.teamA, command.teamB)
  BY CommandFields DEF CommandOk
<1>2. QED
  BY <1>1, TeamsAreWhole DEF TeamsOf

(* The claimed server's key has no white space around it.                  *)
LEMMA KeyIsClean ==
  AdmissionInv /\ server # Null => claimed.text.serverKey.pad = 0
<1> SUFFICES ASSUME AdmissionInv, server # Null PROVE claimed.text.serverKey.pad = 0
  OBVIOUS
<1>1. config # Null
  BY DEF AdmissionInv, TypeOK
<1>2. PICK i \in DOMAIN config.servers :
          server = config.servers[i] /\ server.server_key = claimed.text.serverKey
  BY DEF AdmissionInv, ServerKnown
<1>3. config.servers[i].server_key.pad = 0
  BY <1>1 DEF AdmissionInv, RegistryKnown
<1>4. QED
  BY <1>2, <1>3

LEMMA InitAdmission == Init => AdmissionInv
  BY DEF Init, AdmissionInv, TypeOK, CommandKnown, RegistryKnown, ServerKnown, IdentityKnown,
         RenderedKnown, EvidenceKnown

LEMMA StepAdmission == AdmissionInv /\ [Next]_vars => AdmissionInv'
<1> SUFFICES ASSUME AdmissionInv, [Next]_vars PROVE AdmissionInv'
  OBVIOUS
<1> USE DEF AdmissionInv, TypeOK, CommandKnown, RegistryKnown, ServerKnown, IdentityKnown,
            RenderedKnown, EvidenceKnown
<1>1. CASE UNCHANGED vars
  BY <1>1 DEF vars, work
<1>2. CASE Exit
  BY <1>2 DEF Exit, Forget
<1>3. CASE pc # "down" /\ Return
  BY <1>3 DEF Return, Forget
<1>4. ASSUME NEW env \in Environments, LoadConfig(env)
      PROVE  AdmissionInv'
  <2>1. env \in Environment /\ EnvironmentOk(env) /\ config' = BridgeConfig(env)
    BY <1>4, AdmissionInputs DEF LoadConfig, AdmissionInputs
  <2>2. config' \in ConfigRecord /\ config' # Null
    BY <2>1, RegistryLoaded, NullIsNoRecord
  <2>3. \A i \in DOMAIN config'.servers : config'.servers[i].server_key.pad = 0
    BY <2>1, RegistryLoaded, StripType
  <2>4. \A i, j \in DOMAIN config'.servers :
            i # j => config'.servers[i].server_key # config'.servers[j].server_key
    BY <2>1, RegistryLoaded DEF EnvironmentOk, RegistryOk, DistinctKeys
  <2>5. QED
    BY <1>4, <2>2, <2>3, <2>4 DEF LoadConfig, work
<1>5. ASSUME NEW response \in Responses, Claim(response)
      PROVE  AdmissionInv'
  <2>1. response \in Response
    BY AdmissionInputs DEF AdmissionInputs
  <2>2. response.command \in Command /\ CommandOk(response.command)
    BY <1>5, <2>1 DEF Claim, Response, ResponseOk
  <2>3. QED
    BY <1>5, <2>2, NullIsNoRecord DEF Claim
<1>6. CASE Resolve
  <2>1. PICK i \in DOMAIN config.servers :
            server' = config.servers[i] /\ config.servers[i].server_key = claimed.text.serverKey
    BY <1>6 DEF Resolve
  <2>2. config \in ConfigRecord
    BY <1>6 DEF Resolve
  <2>3. config.servers \in Seq(ServerRecord)
    BY <2>2 DEF ConfigRecord
  <2>4. server' \in ServerRecord
    BY <2>1, <2>3, LenProperties
  <2>5. QED
    BY <1>6, <2>1, <2>4, NullIsNoRecord DEF Resolve
<1>7. CASE Observe
  <2>1. claimed \in Command /\ CommandOk(claimed)
    BY <1>7 DEF Observe
  <2>2. identity' \in IdentityRecord
    BY <1>7, <2>1, CommandPassedOn DEF Observe
  <2>3. QED
    BY <1>7, <2>2, NullIsNoRecord DEF Observe
<1>8. CASE Render
  <2>1. claimed \in Command /\ CommandOk(claimed)
    BY <1>8 DEF Render
  <2>2. rendered' \in RenderedRecord
    BY <1>8, <2>1, CommandPassedOn DEF Render
  <2>3. QED
    BY <1>8, <2>2, NullIsNoRecord DEF Render
<1>9. CASE Prepared
  BY <1>9 DEF Prepared, work
<1>10. QED
  BY <1>1, <1>2, <1>3, <1>4, <1>5, <1>6, <1>7, <1>8, <1>9
     DEF Next, ClaimRefused, Unmanaged, ObserveRaises, Uncertain, SubmitResult, SubmitRaises

THEOREM AdmissionInvariant == Spec => []AdmissionInv
<1>1. Init => AdmissionInv
  BY InitAdmission
<1>2. AdmissionInv /\ [Next]_vars => AdmissionInv'
  BY StepAdmission
<1>3. QED
  BY <1>1, <1>2, PTL DEF Spec

-----------------------------------------------------------------------------
(* At each of the checks it is known what the earlier ones established.    *)
THEOREM AdmissionTypeCorrect == Spec => []TypeOK
<1>1. AdmissionInv => TypeOK
  BY DEF AdmissionInv
<1>2. QED
  BY <1>1, AdmissionInvariant, PTL

(* The claimed key, the journaled key and the actuated server's key are    *)
(* one (_resolve_server, CommandIdentity), and only that server has it.    *)
THEOREM TargetIsUnambiguous == Spec => []TargetIsTheClaim
<1>1. AdmissionInv => TargetIsTheClaim
  <2> SUFFICES ASSUME AdmissionInv, identity # Null PROVE TargetIsTheClaim
    BY DEF TargetIsTheClaim
  <2>1. server # Null /\ claimed # Null /\ config # Null
    BY DEF AdmissionInv, TypeOK
  <2>2. claimed.text.serverKey \in Text
    <3>1. claimed \in Command /\ CommandOk(claimed)
      BY <2>1 DEF AdmissionInv, TypeOK, CommandKnown
    <3>2. QED
      BY <3>1, CommandFields DEF TextFields, FilledFields
  <2>3. identity.server_key = claimed.text.serverKey
    <3>1. identity.server_key = Strip(claimed.text.serverKey)
      BY DEF AdmissionInv, IdentityKnown, CommandIdentity
    <3>2. QED
      BY <2>1, <2>2, <3>1, KeyIsClean, StripClean
  <2>4. PICK i \in DOMAIN config.servers :
            server = config.servers[i] /\ server.server_key = claimed.text.serverKey
    BY <2>1 DEF AdmissionInv, ServerKnown
  <2>5. \A j \in DOMAIN config.servers : config.servers[j].server_key = server.server_key => j = i
    BY <2>1, <2>4 DEF AdmissionInv, RegistryKnown
  <2>6. QED
    BY <2>3, <2>4, <2>5 DEF TargetIsTheClaim
<1>2. QED
  BY <1>1, AdmissionInvariant, PTL

(* The game of a PREPARED match is what the payload asked for in number:   *)
(* TeamSize players in each team, all different.                           *)
THEOREM NoPlayerIsLost == Spec => []PreparedRosterIsWhole
<1>1. AdmissionInv => PreparedRosterIsWhole
  <2> SUFFICES ASSUME AdmissionInv, pc = "prepared", NamesAreBare(rendered)
               PROVE  PreparedRosterIsWhole
    BY DEF PreparedRosterIsWhole
  <2>1. /\ claimed \in Command /\ CommandOk(claimed) /\ rendered = Rendered(claimed)
        /\ Evident(claimed, rendered)
    BY DEF AdmissionInv, TypeOK, CommandKnown, RenderedKnown, EvidenceKnown
  <2>2. TeamsOf(claimed)
    BY <2>1, TeamsAdmitted
  <2> DEFINE team1 == rendered.team1
             team2 == rendered.team2
  <2>3. team1 = Players(claimed.teamA) /\ team2 = Players(claimed.teamB)
    BY <2>1 DEF Rendered
  <2>4. /\ IsFiniteSet(team1) /\ Cardinality(team1) = TeamSize
        /\ IsFiniteSet(team2) /\ Cardinality(team2) = TeamSize
        /\ team1 \cap team2 = {}
    BY <2>2, <2>3 DEF TeamsOf
  <2>5. FoundIds(rendered) = SteamTexts(rendered)
    BY <2>1, <2>2, <2>3 DEF Evident, TeamsOf, SteamTexts
  <2>6. \A steam \in team1 \cup team2 : IsBare(steam)
    BY <2>5, FoundAsSpelled DEF SteamTexts
  <2> HIDE DEF team1, team2
  <2> DEFINE numbers(team) == {steam.number : steam \in team}
  <2>7. Cardinality(numbers(team1)) = TeamSize /\ Cardinality(numbers(team2)) = TeamSize
    BY <2>4, <2>6, AsManyAsNumbers
  <2>8. numbers(team1) \cap numbers(team2) = {}
    <3>1. SUFFICES ASSUME NEW s \in team1, NEW t \in team2, s.number = t.number
                   PROVE  FALSE
      OBVIOUS
    <3>2. s = t
      BY <2>6, <3>1 DEF IsBare
    <3>3. QED
      BY <2>4, <3>2
  <2>9. QED
    BY <2>7, <2>8 DEF PreparedRosterIsWhole, team1, team2
<1>2. QED
  BY <1>1, AdmissionInvariant, PTL

(* CommandIdentity refuses no admitted command of a managed server; only   *)
(* the width of SQLite's integers and the encoding of its texts do.        *)
THEOREM OnlySqliteRefuses == Spec => RecordableExactly
<1> DEFINE Fits == /\ claimed.number.runtimeMatchId.value <= MaxSqlite
                   /\ \A f \in JournaledTexts : claimed.text[f].word \in Encodable
<1>1. AdmissionInv /\ [Next]_vars => [pc = "resolved" => ((pc' = "observed") <=> Fits)]_vars
  <2> SUFFICES ASSUME AdmissionInv, Next, pc = "resolved"
               PROVE  (pc' = "observed") <=> Fits
    OBVIOUS
  <2>1. claimed \in Command /\ CommandOk(claimed)
    BY DEF AdmissionInv, TypeOK, CommandKnown
  <2>2. Recordable(claimed) <=> Fits
    BY <2>1, CommandPassedOn DEF Recordable
  <2>3. Observe \/ ObserveRaises
    BY DEF Next, LoadConfig, Claim, ClaimRefused, Resolve, Unmanaged, Render, Prepared,
           Uncertain, SubmitResult, SubmitRaises
  <2> HIDE DEF Fits
  <2>4. QED
    BY <2>2, <2>3 DEF Observe, ObserveRaises, Exit
<1>2. QED
  BY <1>1, AdmissionInvariant, PTL DEF Spec, RecordableExactly

(* The verifier recognizes every admitted and loaded command whose         *)
(* SteamIDs are spelled as their numbers are, whose players' names are no  *)
(* further SteamIDs and whose map the server has, and no other.            *)
THEOREM OnlySpellingsDeceive == Spec => VerifiableExactly
<1> DEFINE Plain == /\ \A steam \in SteamTexts(rendered) : IsBare(steam)
                    /\ FoundInNames(rendered) \subseteq SteamTexts(rendered)
                    /\ claimed.text.mapKey.word \in MapNames /\ claimed.text.mapKey.pad = 0
<1>1. AdmissionInv /\ [Next]_vars =>
        [pc = "rendered" /\ NamesAreBare(rendered) => ((pc' = "prepared") <=> Plain)]_vars
  <2> SUFFICES ASSUME AdmissionInv, Next, pc = "rendered", NamesAreBare(rendered)
               PROVE  (pc' = "prepared") <=> Plain
    OBVIOUS
  <2>1. claimed \in Command /\ CommandOk(claimed) /\ rendered = Rendered(claimed)
    BY DEF AdmissionInv, TypeOK, CommandKnown, RenderedKnown
  <2>2. TeamsOf(claimed)
    BY <2>1, TeamsAdmitted
  <2> DEFINE expected == Players(claimed.teamA \o claimed.teamB)
  <2>3. rendered.team1 = Players(claimed.teamA) /\ rendered.team2 = Players(claimed.teamB)
        /\ rendered.map = claimed.text.mapKey
    BY <2>1 DEF Rendered
  <2>4. expected = SteamTexts(rendered) /\ Cardinality(expected) = 2 * TeamSize
    BY <2>2, <2>3 DEF TeamsOf, SteamTexts
  <2>5. (FoundIds(rendered) = expected) <=>
           /\ \A steam \in SteamTexts(rendered) : IsBare(steam)
           /\ FoundInNames(rendered) \subseteq SteamTexts(rendered)
    BY <2>4, FoundAsSpelled
  <2>6. (CurrentMap(rendered) = claimed.text.mapKey) <=>
           claimed.text.mapKey.word \in MapNames /\ claimed.text.mapKey.pad = 0
    <3>1. claimed.text.mapKey \in Text
      BY <2>1, CommandFields DEF TextFields, FilledFields
    <3>2. claimed.text.mapKey # Null
      BY <3>1, NullIsNoRecord
    <3>3. QED
      BY <2>3, <3>1, <3>2, StripType, StripClean DEF CurrentMap
  <2>7. Evident(claimed, rendered) <=> Plain
    BY <2>4, <2>5, <2>6 DEF Evident
  <2>8. Prepared \/ Uncertain
    BY DEF Next, LoadConfig, Claim, ClaimRefused, Resolve, Unmanaged, Observe, ObserveRaises,
           Render, SubmitResult, SubmitRaises
  <2> HIDE DEF Plain
  <2>9. QED
    BY <2>7, <2>8 DEF Prepared, Uncertain, Return
<1>2. QED
  BY <1>1, AdmissionInvariant, PTL DEF Spec, VerifiableExactly

(* What is PREPARED is reported, but for an id that is not its own path.   *)
THEOREM OnlyPathsMislead == Spec => ReportableExactly
<1>1. AdmissionInv /\ [Next]_vars =>
        [pc = "prepared" =>
           ((pc' = "idle") <=> (claimed.text.commandId.word \in PathSafe))]_vars
  <2> SUFFICES ASSUME AdmissionInv, Next, pc = "prepared"
               PROVE  (pc' = "idle") <=> (claimed.text.commandId.word \in PathSafe)
    OBVIOUS
  <2>1. claimed \in Command /\ CommandOk(claimed)
    BY DEF AdmissionInv, TypeOK, CommandKnown
  <2>2. Clean(claimed.text.commandId)
    BY <2>1 DEF CommandOk, TextsOk, CleanFields
  <2>3. SubmitResult \/ SubmitRaises
    BY DEF Next, LoadConfig, Claim, ClaimRefused, Resolve, Unmanaged, Observe, ObserveRaises,
           Render, Prepared, Uncertain
  <2>4. QED
    BY <2>2, <2>3 DEF SubmitResult, SubmitRaises, Addressable, Return, Exit
<1>2. QED
  BY <1>1, AdmissionInvariant, PTL DEF Spec, ReportableExactly
=============================================================================
