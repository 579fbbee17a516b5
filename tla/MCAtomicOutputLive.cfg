\* One process id, used again after each of two kills or crashes.
CONSTANTS
    Procs = {p1}
    Inodes <- MCInodes
    attempts = 2
    MaxDeaths = 2
SPECIFICATION FairSpec
PROPERTIES
    CommandsEnd
\* Every command may have ended.
CHECK_DEADLOCK FALSE
