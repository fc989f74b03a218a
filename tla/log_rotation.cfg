\* Days 0 to 3 and a retention of two days; the clock may go back. The bound on
\* lines does not stop the clock.
SPECIFICATION Spec
CONSTANTS
    NULL = NULL
    RetentionDays = 2
    MaxTime = 7
    MaxLines = 3
    MaxFaults = 2
INVARIANTS
    TypeOK
    LinesKept
    OldFilesGo
    LossHasFault
