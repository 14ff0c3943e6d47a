SPECIFICATION Spec
CONSTANTS
    Null = Null
    c1 = c1  c2 = c2  c3 = c3  a1 = a1  a2 = a2
    mix1 = mix1  mix9 = mix9  m1 = m1  m2 = m2
    dust = dust  mirage = mirage
    AB = AB  BA = BA  AC = AC  abcd = abcd  abce = abce
    Commands = {c1, c2}
    Assignments = {a1, a2}
    ServerKeys = {mix1, mix9}
    Matches = {m1}
    Maps = {dust, mirage}
    Lineups = {AB, BA, AC}
    Rosters = {abcd, abce}
    Roster <- MCRoster
    Offers <- Regrouped
    Servers = {mix1}
    MaxPolls = 1
    Faults = {"crash"}
INVARIANTS
    PreparedMeansSpecLoaded
