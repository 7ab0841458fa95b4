\* Violation run: ActivationsBounded.
CONSTANTS
    u1 = u1
    None = None
    Empty = Empty
    Users = {u1}
    Modes = {"execute"}
    TopRequests <- CoreRequests
    MsgPool <- CoreMessages
    DataValues <- MCDataValues
    MaxCodeSize = 2
    MaxSubcallDepth = 1
    MaxSubcallCount = 1
    TxUploadGas = 0
    TxUploadPerByte = 1
    TxInstantiateGas = 0
    TxCallGas = 0
    TxUpgradeGas = 0
    SubcallDispatch = 1
    OtherGas = 1
    GuestGas = {1}
    TxGasLimit = 7
    MaxEmit = 2
    GenesisBalances <- OneToken
    MaxMessages = 1
    MaxTxs = 2

SPECIFICATION Spec
\* The system stops after MaxTxs transactions.
CHECK_DEADLOCK FALSE

INVARIANT
    ActivationsBounded
