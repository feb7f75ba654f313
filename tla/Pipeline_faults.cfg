SPECIFICATION PipelineSpec
CONSTANTS
    Batchers <- OneCall
    MaxTip = 4
    Size <- MixedSize
    PrefixSize = 1
    MaxFrameSize = 4
    FrameOverHeadSize = 1
    MaxEncodingBytesPerChannel = 3
    MaxBlocksPerChannelManager = 3
    MayLose = TRUE
    MaxRepeats = 0
    MaxOverlapTip = 0
    Derivations <- One
    MaxBlockTxs = 2
    MaxEmptyBlocks = 0
    MaxCrashes = 1
    MayStop = FALSE
INVARIANTS
    NeverThrows
    DerivesCompleteChannels
PROPERTIES
    RecoversBlocks
