----------------------------- MODULE MCAdmission -----------------------------
(* Small instances of Admission for TLC: a sound payload and a sound       *)
(* environment, and everything that differs from them in one text, one     *)
(* number and one team, or in one part of the configuration.               *)
EXTENDS Admission

MCWords == {"id", "mix1", "mix2", "a/b", "/srv", "/opt", "way too long", "surrogate",
            "one", "five", "other two"}
MCLength == [w \in MCWords |-> CASE w = "way too long" -> 5 [] w = "id" -> 2 [] OTHER -> 4]

MCEncodable == MCWords \ {"surrogate"}

(* Names that are 17 digits.                                               *)
Steam(number, script, tail) == [number |-> number, script |-> script, tail |-> tail]
MCIdsIn == [w \in MCWords |->
    CASE w = "one" -> {Steam(1, "ascii", "none")}
      [] w = "five" -> {Steam(5, "ascii", "none")}
      [] w = "other two" -> {Steam(2, "other", "none")}
      [] OTHER -> {}]

Of(word) == [word |-> word, pad |-> 0]
Padded(word) == [word |-> word, pad |-> 1]
MCHeaderSafe == {Of(w) : w \in MCEncodable}

Texts == {Null, Of("mix2"), Of("a/b"), Of("way too long"), Of("surrogate"),
          Padded("id"), Padded("mix1"), Padded(Null)}
AnInt(n) == [kind |-> "int", value |-> n]
Numbers == {Null, AnInt(0), AnInt(1), AnInt(2), AnInt(4), AnInt(5),
            [kind |-> "float", value |-> 1], [kind |-> "bool", value |-> 1]}

-----------------------------------------------------------------------------
APlayer(account, steam) == [playerAccountId |-> account, steamid64 |-> steam,
                            personaname |-> Of("id")]
ANumber(i) == Steam(i, "ascii", "none")
P1 == APlayer(Of("mix1"), ANumber(1))
P2 == APlayer(Of("mix2"), ANumber(2))
P3 == APlayer(Of("a/b"), ANumber(3))
P4 == APlayer(Of("/srv"), ANumber(4))
TeamB == <<P3, P4>>
Teams ==
    {Null, <<P1>>, <<P1, P2, APlayer(Of("id"), ANumber(5))>>,
     <<P1, P2>>, <<P1, P1>>, <<P1, P3>>} \cup
    {<<P1, APlayer(Of("id"), steam)>> :
        steam \in {Null, ANumber(0), ANumber(1), ANumber(3), Steam(2, "ascii", "junk")} \cup
                  {Steam(i, script, "newline") : i \in {1, 2}, script \in {"ascii", "other"}} \cup
                  {Steam(i, "other", "none") : i \in {1, 2}}} \cup
    {<<P1, APlayer(account, ANumber(2))>> : account \in {Null, Padded("id"), Of("a/b")}} \cup
    {<<P1, [P2 EXCEPT !.personaname = name]>> :
        name \in {Padded("id"), Of("one"), Of("five"), Of("other two")}} \cup
    {<<P1, [P2 EXCEPT !.personaname = Of("other two"), !.steamid64.script = "other"]>>}

Sound == [text |-> [f \in TextFields |-> Of(IF f = "serverKey" THEN "mix1" ELSE "id")],
          number |-> [f \in NumberFields |-> AnInt(IF f = "runtimeMatchId" THEN 3 ELSE 1)]]
TextVariants == {[Sound.text EXCEPT ![f] = v] : f \in TextFields, v \in Texts}
NumberVariants == {[Sound.number EXCEPT ![f] = v] : f \in NumberFields, v \in Numbers}

PrepareMatch(text, number, team) ==
    [commandType |-> "PREPARE_MATCH", text |-> text, number |-> number,
     teamA |-> team, teamB |-> TeamB]
Answer(command) == [ok |-> TRUE, protocolVersion |-> AnInt(1), command |-> command]
SoundCommand == PrepareMatch(Sound.text, Sound.number, <<P1, P2>>)

MCResponses ==
    {Answer(PrepareMatch(text, Sound.number, team)) : text \in TextVariants, team \in Teams} \cup
    {Answer(PrepareMatch(text, number, <<P1, P2>>)) :
        text \in TextVariants, number \in NumberVariants} \cup
    {[Answer(SoundCommand) EXCEPT !.protocolVersion = v] : v \in Numbers} \cup
    {Answer(Null), [Answer(Null) EXCEPT !.ok = FALSE],
     Answer([SoundCommand EXCEPT !.commandType = Null]),
     Answer([SoundCommand EXCEPT !.teamB = <<P3>>])}

-----------------------------------------------------------------------------
AnEntry(key, root) == [unknownFields |-> FALSE, serverKey |-> key, csgoRoot |-> root,
                       rconConfigPath |-> Of("/srv")]
First == AnEntry(Of("mix1"), Of("/srv"))
Registries ==
    {Null, <<>>, <<First>>, <<[First EXCEPT !.unknownFields = TRUE]>>} \cup
    {<<First, AnEntry(key, root)>> :
        key \in {Null, Padded(Null), Of("mix1"), Padded("mix1"), Padded("mix2"),
                 Of("way too long"), Of("surrogate")},
        root \in {Null, Of("/srv"), Padded("/opt"), Of("id")}}

AFile(entries) == [readable |-> TRUE, unknownFields |-> FALSE, schemaVersion |-> AnInt(2),
                   servers |-> entries]
Files == {AFile(entries) : entries \in Registries} \cup
         {[AFile(<<First>>) EXCEPT !.schemaVersion = v] : v \in Numbers} \cup
         {[AFile(<<First>>) EXCEPT !.readable = FALSE],
          [AFile(<<First>>) EXCEPT !.unknownFields = TRUE]}

AnUrl == [scheme |-> "https", host |-> "plain", query |-> FALSE, fragment |-> FALSE, slashes |-> 1]
SoundEnvironment ==
    [nodeKey |-> Padded("id"), baseUrl |-> AnUrl, credential |-> Of("id"), stateDb |-> Of("/srv"),
     serversFile |-> Of("/srv"), rconExecutable |-> Of("/srv"), registry |-> AFile(<<First>>)]
MCEnvironments ==
    {[SoundEnvironment EXCEPT !.registry = file] : file \in Files} \cup
    {[SoundEnvironment EXCEPT !.nodeKey = v] : v \in Texts} \cup
    {[SoundEnvironment EXCEPT !.credential = v] : v \in Texts} \cup
    {[SoundEnvironment EXCEPT !.rconExecutable = v] : v \in Texts} \cup
    {[SoundEnvironment EXCEPT !.baseUrl = v] :
        v \in {Null, [AnUrl EXCEPT !.scheme = "http"], [AnUrl EXCEPT !.host = "userinfo"],
               [AnUrl EXCEPT !.query = TRUE], [AnUrl EXCEPT !.fragment = TRUE]}}
=============================================================================
