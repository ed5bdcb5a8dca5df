CONSTANTS
    pa = pa
    pb = pb
    pc = pc
    Producers = {pa, pb, pc}
    Accounts = {pa, pb, pc}
    Signers = {pa, pb}
    NullKeyProducers = {}
    NoProducer = NoProducer
    NoBlock = NoBlock
    NoSchedule = NoSchedule
    NoPending = NoPending
    NoTrace = NoTrace
    ProducerCount = 3
    ProducerRepetitions = 1
    BitmapWidth = 4
    IrreversibleThresholdPercent = 5000
    SummarySlots = 4
    GenesisTime = 1
    MaxBlockNum = 2
    MaxSlot = 2
    InitialProducers <- MCInitialProducers
    InitialVotes <- MCInitialProducers
    Blocks <- MCFewBlocks
    SkipChoices = {{}}
    CheckpointChoices = {}
    Transactions <- MCTransactions
    MaxPending = 2
    MaxUsage = 4
    DirectPops = TRUE
    Restarts = {}
    TornWrites = FALSE
SPECIFICATION Spec
PROPERTY PendingIsProvisional
