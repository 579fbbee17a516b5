\* Two processes, one kill or crash.
CONSTANTS
    Procs = {p1, p2}
    Inodes <- MCInodes
    attempts = 2
    MaxDeaths = 1
SPECIFICATION Spec
SYMMETRY Symmetry
INVARIANTS
    TypeOK
    OutputComplete
    SuccessIsDurable
    InputUntouched
    ReportIsTruthful
    PrivacyKept
PROPERTIES
    LeftoverIsReported
    PrivateOutputStaysPrivate
\* Every command may have ended.
CHECK_DEADLOCK FALSE
