\* Messages run: runtime messages emitted by another module in sub-calls,
\* forwarded through nested contexts into a transaction with one slot,
\* committed or dropped with the sub-call that emitted them.
CONSTANTS
    u1 = u1
    None = None
    Empty = Empty
    Users = {u1}
    Modes = {"execute"}
    TopRequests <- MessageRequests
    MsgPool <- MessageMessages
    DataValues <- MCDataValues
    MaxCodeSize = 2
    MaxSubcallDepth = 2
    MaxSubcallCount = 1
    TxUploadGas = 0
    TxUploadPerByte = 1
    TxInstantiateGas = 0
    TxCallGas = 0
    TxUpgradeGas = 0
    SubcallDispatch = 1
    OtherGas = 1
    GuestGas = {1}
    TxGasLimit = 6
    MaxEmit = 1
    GenesisBalances <- NoTokens
    MaxMessages = 1
    MaxTxs = 3

SPECIFICATION Spec
\* The system stops after MaxTxs transactions.
CHECK_DEADLOCK FALSE

INVARIANTS
    CallDepthTracksNesting
    GasAccounted
    DiscardedEffectsInvisible
