CONSTANTS
    pa = pa
    pb = pb
    pc = pc
    Producers = {pa, pb, pc}
    Accounts = {pa, pb, pc}
    Signers = {pa, pb}
    NullKeyProducers = {}
    NoProducer = NoProducer
    NoBlock = NoBlock
    NoSchedule = NoSchedule
    NoPending = NoPending
    NoTrace = NoTrace
    ProducerCount = 3
    ProducerRepetitions = 1
    BitmapWidth = 4
    IrreversibleThresholdPercent = 5000
    SummarySlots = 4
    GenesisTime = 1
    MaxBlockNum = 1
    MaxSlot = 2
    InitialProducers <- MCInitialProducers
    InitialVotes <- MCInitialProducers
    Blocks <- MCLoadedBlocks
    SkipChoices <- MCSkipSignatures
    CheckpointChoices = {}
    Transactions <- MCTransactions
    MaxPending = 2
    MaxUsage = 4
    DirectPops = FALSE
    Restarts = {}
    TornWrites = FALSE
SPECIFICATION Spec
INVARIANT UndoCoversReversible
INVARIANT ShardsAreExclusive
PROPERTY ProducedBlockReplays
PROPERTY ThrowLeavesHeadState
