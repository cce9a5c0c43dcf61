CONSTANTS
    Scripts <- MCScripts
    SocketBuffer <- MCSocketBuffer
SPECIFICATION Spec
INVARIANTS TypeOK ScriptsMatched FrameMatch NoDeadlock Drained RoundsCover
\* A program that has finished stops; NoDeadlock says nothing else does.
CHECK_DEADLOCK FALSE
