SPECIFICATION Spec
CONSTANTS
    Callers = {c}
    Files = {f}
    Values = {v}
    Absent = Absent
    Nobody = Nobody
    Ids = {i, j}
    Mixes <- SomeMixes
    MaxFaults = 2
INVARIANTS
    TypeOK
    ExecutedAtMostTwice
PROPERTIES
    AnswersAreCurrent
    CallsReturn
    
