CONSTANTS
    N = 7
    Backlog = 7
SPECIFICATION FairSpec
INVARIANTS TypeOK IdentityCorrect KeysAgree OnePending
PROPERTIES RefusedIsClean RefinesMesh AllConnected
\* Once every process is up, connectToPeers has nothing left to do.
CHECK_DEADLOCK FALSE
