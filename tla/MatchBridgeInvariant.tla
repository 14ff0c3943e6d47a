------------------------ MODULE MatchBridgeInvariant ------------------------
(***************************************************************************)
(* What every step of the cycle may assume about the journal, the launches *)
(* and the server's files: Working and Shared hold although another        *)
(* process writes the same journal and directory (see TwoBridges),         *)
(* Inductive holds of a process that is alone.                             *)
(***************************************************************************)
EXTENDS MatchBridge

ClaimedRow == journal[claim.command]

(* A load of the match was launched for a configuration that is still      *)
(* there.                                                                  *)
Sent(s, m) == files[s][m] # Null /\ LaunchedFor([server |-> s, match |-> m])

-----------------------------------------------------------------------------
(* Beside others.  The row of the claimed command may have moved on since  *)
(* this process last saw it, but never back, and never to another identity.*)
Working ==
    /\ claim = Null <=> pc \in {"down", "idle"}
    /\ pc \notin {"down", "idle", "claimed"} =>
          /\ claim.server \in Servers
          /\ ClaimedRow.state # "ABSENT" /\ ClaimedRow.identity = Identity(claim)
    /\ pc \in {"materialize", "load", "artifact", "status", "get5", "succeed", "fail"} =>
          ClaimedRow.state \in {"APPLYING"} \cup Terminal
    /\ pc = "load" => files[claim.server][claim.match] # Null
    /\ pc \in {"status", "get5", "succeed"} => Sent(claim.server, claim.match)
    /\ pc = "submit" =>
          /\ ClaimedRow.state \in Terminal
          /\ result = [outcome |-> ClaimedRow.state, code |-> ClaimedRow.result]

(* Whoever sent it: a load in flight, a loaded match, a roster on disk and *)
(* a command that is PREPARED all go back to a load that was launched.     *)
Shared ==
    /\ IntentBeforeEffect /\ OneTruth
    /\ \A l \in loads : Sent(l.server, l.match)
    /\ \A s \in Servers : game[s].match # Null => Sent(s, game[s].match)
    /\ \A s \in Servers, m \in Matches : names[s][m] # Null => Sent(s, m)
    /\ \A c \in Commands :
          journal[c].state = "SUCCEEDED" => LaunchedFor(journal[c].identity)

(* The launch this process may still owe to a command.                     *)
Pending(c) ==
    IF AtWork(c) /\ pc \in {"received", "materialize", "load"} THEN 1 ELSE 0

-----------------------------------------------------------------------------
(* Beside others that replace no configuration.  The evidence this process *)
(* has read goes on to name the players of the claimed lineup.             *)
Inspected ==
    pc \in {"status", "get5", "succeed"} =>
        names[claim.server][claim.match] = Roster[claim.lineup]

(* The journal holds commands of this node's servers only.                 *)
ManagedOnly ==
    \A c \in Commands : journal[c].state # "ABSENT" => journal[c].identity.server \in Servers

(* A roster on disk is the one of the configuration: hence what is PREPARED*)
(* has the roster that was asked for.                                      *)
Kept ==
    /\ \A s \in Servers, m \in Matches :
          names[s][m] # Null => names[s][m] = Roster[files[s][m].lineup]
    /\ ManagedOnly
    /\ PreparedMeansRosterLoaded

-----------------------------------------------------------------------------
(* Alone.  The journal is as the cycle left it: the process being the only *)
(* writer, a row does not move under the cycle that works on it.           *)
Cycle ==
    /\ pc = "received" => ClaimedRow.state = "RECEIVED"
    /\ pc \in {"materialize", "load", "artifact", "status", "get5", "succeed", "fail"} =>
          ClaimedRow.state = "APPLYING"
    /\ pc \in {"materialize", "load"} => launches[claim.command] = 0
    /\ pc = "fail" /\ "undecodable" \notin Faults => launches[claim.command] = 0

(* FailedMeansNeverLaunched, where every answer of rcon-cli can be decoded.*)
FailedAreHarmless == "undecodable" \notin Faults => FailedMeansNeverLaunched

Inductive ==
    /\ TypeOK /\ Working /\ Shared
    /\ Inspected /\ Kept
    /\ Cycle /\ AtMostOneLaunch /\ FailedAreHarmless
=============================================================================
