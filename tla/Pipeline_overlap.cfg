SPECIFICATION PipelineSpec
CONSTANTS
    Batchers <- OneCall
    MaxTip = 6
    Size <- MixedSize
    PrefixSize = 1
    MaxFrameSize = 6
    FrameOverHeadSize = 1
    MaxEncodingBytesPerChannel = 4
    MaxBlocksPerChannelManager = 3
    MayLose = FALSE
    MaxRepeats = 0
    MaxOverlapTip = 0
    Derivations <- Two
    MaxBlockTxs = 2
    MaxEmptyBlocks = 0
    MaxCrashes = 0
    MayStop = TRUE
INVARIANTS
    NeverThrows
