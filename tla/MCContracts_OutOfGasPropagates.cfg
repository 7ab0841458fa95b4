\* Violation run: OutOfGasPropagates.
CONSTANTS
    u1 = u1
    None = None
    Empty = Empty
    Users = {u1}
    Modes = {"execute"}
    TopRequests <- CoreRequests
    MsgPool <- CoreMessages
    DataValues <- MCDataValues
    MaxCodeSize = 2
    MaxSubcallDepth = 1
    MaxSubcallCount = 1
    TxUploadGas = 0
    TxUploadPerByte = 1
    TxInstantiateGas = 0
    TxCallGas = 0
    TxUpgradeGas = 0
    SubcallDispatch = 1
    OtherGas = 1
    GuestGas = {1}
    TxGasLimit = 4
    MaxEmit = 2
    GenesisBalances <- OneToken
    MaxMessages = 1
    MaxTxs = 3

SPECIFICATION Spec
\* The system stops after MaxTxs transactions.
CHECK_DEADLOCK FALSE

INVARIANT
    OutOfGasPropagates
