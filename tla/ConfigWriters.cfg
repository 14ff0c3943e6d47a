SPECIFICATION Spec
CONSTANTS
    Null = Null
    daemon = daemon  manual = manual  M1 = M1  M2 = M2  AB = AB  BA = BA
    Bridges = {daemon, manual}
    Paths = {M1, M2}
    Contents = {AB, BA}
SYMMETRY Symmetry
INVARIANTS
    TargetIsWhole
PROPERTIES
    StoredMeansThere
    OnlyRacersOverwrite
