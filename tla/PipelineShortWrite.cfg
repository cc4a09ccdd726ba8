SPECIFICATION QuietSpec
CONSTANTS
    n = 4
    File <- ThreeBytes
    ChildBuf = 1
    BufSize <- FourBuffers
    PipeBuf = 1
    PipeCap = 2
INVARIANT PrintsPrefix
CHECK_DEADLOCK FALSE
