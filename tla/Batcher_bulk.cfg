SPECIFICATION BatcherSpec
CONSTANTS
    Batchers <- OneCall
    MaxTip = 5
    Size <- BulkSize
    PrefixSize = 1
    MaxFrameSize = 5
    FrameOverHeadSize = 1
    MaxEncodingBytesPerChannel = 5
    MaxBlocksPerChannelManager = 3
    MayLose = FALSE
    MaxRepeats = 0
    MaxOverlapTip = 0
INVARIANTS
    FullChannelHasBlock
