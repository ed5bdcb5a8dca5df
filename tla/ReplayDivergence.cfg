CONSTANTS
    pa = pa
    pb = pb
    pc = pc
    Producers = {pa, pb, pc}
    Accounts = {pa, pb, pc}
    Signers = {pa, pb, pc}
    NullKeyProducers = {}
    NoProducer = NoProducer
    NoBlock = NoBlock
    NoSchedule = NoSchedule
    NoPending = NoPending
    NoTrace = NoTrace
    ProducerCount = 3
    ProducerRepetitions = 1
    BitmapWidth = 4
    IrreversibleThresholdPercent = 5000
    SummarySlots = 4
    GenesisTime = 1
    MaxBlockNum = 6
    MaxSlot = 6
    InitialProducers <- MCInitialProducers
    InitialVotes <- MCInitialProducers
    Blocks <- MCTwoBlocks
    SkipChoices = {{}}
    CheckpointChoices = {}
    Transactions = {}
    MaxPending = 0
    MaxUsage = 4
    DirectPops = FALSE
    Restarts = {TRUE}
    TornWrites = FALSE
SPECIFICATION Spec
INVARIANT StateIsFunctionOfHead
