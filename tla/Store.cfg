\* Two contents for two models, so that blobs are shared; one command process
\* beside the daemon.
CONSTANTS
    None = None
    qwen = qwen  bge = bge  own = own
    d1 = d1  d2 = d2
    qwenFile = qwenFile  bgeFile = bgeFile  ownFile = ownFile
    Names = {qwen, bge}
    Digests = {d1, d2}
    LlmDefault = qwen
    EmbDefault = bge
    Files = {qwenFile, bgeFile}
    SpecOf <- MCSpecOf
    KindOf <- MCKindOf
    LocalFile <- MCLocalFile
    Upstream <- MCUpstream
    Clis = {"cli"}
    MaxOps = 2
    MaxFaults = 1
SPECIFICATION Spec
INVARIANTS
    RowsHaveBlobs
    SpaceAccounted
PROPERTIES
    LocalFilesServed
    StartEnds
CHECK_DEADLOCK FALSE
