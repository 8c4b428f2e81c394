\* Three runs in a row, with an accident.
SPECIFICATION Spec
CONSTANTS
    Item <- TwoItems
    PipeSize = 2
    ErrorPipeSize = 1
    MaxLogs = 2
    MaxDeltas = 3
    MaxRuns = 3
    MaxAccidents = 1
INVARIANTS
    ResultIsWhole
    ThreadContinues
PROPERTIES
    RunEnds
CHECK_DEADLOCK FALSE
