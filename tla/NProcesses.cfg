SPECIFICATION FairSpec
CONSTANTS
    Runs <- MCRuns
    n <- MCn
INVARIANT InOrder
PROPERTY AllReturn
\* The runs end.
CHECK_DEADLOCK FALSE
