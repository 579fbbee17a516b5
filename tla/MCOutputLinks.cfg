\* Two processes, one link by another program, one kill or crash.
CONSTANTS
    Procs = {p1, p2}
    Inodes <- MCInodes
    attempts = 1
    MaxDeaths = 1
    MaxLinks = 1
SPECIFICATION LinksSpec
SYMMETRY Symmetry
PROPERTIES
    LinkedOutputKept
\* Every command may have ended.
CHECK_DEADLOCK FALSE
