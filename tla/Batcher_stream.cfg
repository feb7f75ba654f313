SPECIFICATION BatcherSpec
CONSTANTS
    Batchers <- TwoCalls
    MaxTip = 9
    Size <- MixedSize
    PrefixSize = 1
    MaxFrameSize = 4
    FrameOverHeadSize = 1
    MaxEncodingBytesPerChannel = 5
    MaxBlocksPerChannelManager = 3
    MayLose = FALSE
    MaxRepeats = 2
    MaxOverlapTip = 3
INVARIANTS
    BatcherTypeOK
    ByteStream
    NothingSkipped
    OneLastFrame
PROPERTIES
    BlocksGetSent
