SPECIFICATION Spec
CONSTANTS
    Providers = {"buffered", "deltas", "snapshots"}
    Modes = {"stream", "once", "images"}
    Calls = {1, 2}
    MaxText = 2
    MaxPieces = 2
    MaxUsage = 2
    Lengths <- MC_Lengths
INVARIANTS
    TypeOK SignedAsAssembled NothingLost UsageCounted EndsOnce FramesDecode CutShowsItself
PROPERTY ImplementsChannel
CHECK_DEADLOCK FALSE
