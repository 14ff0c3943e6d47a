------------------------------ MODULE MCOffers ------------------------------
(* What Central offers in the instances TLC checks.                        *)
CONSTANTS c1, c2, c3, a1, a2, mix1, mix9, m1, m2, dust, mirage, AB, BA, AC, abcd, abce

(* AB and BA are the same ten players in other teams, AC has another.      *)
MCRoster == [x \in {AB, BA, AC} |-> IF x = AC THEN abce ELSE abcd]

Offer(c, a, s, m, map, l) ==
    [command |-> c, assignment |-> a, server |-> s, match |-> m, map |-> map, lineup |-> l]

(* One command.                                                            *)
Single == {Offer(c1, a1, mix1, m1, dust, AB)}
(* Two commands for one match: other teams.                                *)
Regrouped == {Offer(c1, a1, mix1, m1, dust, AB), Offer(c2, a2, mix1, m1, dust, BA)}
(* Two commands for one match: another player.                             *)
Replaced == {Offer(c1, a1, mix1, m1, dust, AB), Offer(c2, a2, mix1, m1, dust, AC)}
(* One command, leased a second time with another player.                  *)
Respecified == {Offer(c1, a1, mix1, m1, dust, AB), Offer(c1, a1, mix1, m1, dust, AC)}
(* Two commands for two matches, with one and with two lineups; one is     *)
(* offered for a server this node does not manage, too.                    *)
Contested == {Offer(c1, a1, mix1, m1, dust, AB), Offer(c1, a1, mix1, m2, dust, AC),
              Offer(c2, a2, mix1, m1, dust, AC), Offer(c2, a2, mix1, m2, dust, AC),
              Offer(c2, a2, mix9, m1, dust, AC)}
(* Two commands for one match, beside one that is unmanaged.               *)
Crowded == Replaced \cup {Offer(c3, a1, mix9, m2, dust, AB)}
=============================================================================
