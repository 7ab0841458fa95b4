\* Edge run: every early return of the handlers in all three modes, with
\* non-zero handler charges, attached tokens and the Upgrade and
\* other-module methods.
CONSTANTS
    u1 = u1
    None = None
    Empty = Empty
    Users = {u1}
    Modes = {"execute", "check", "check_expensive"}
    TopRequests <- EdgeRequests
    MsgPool <- EdgeMessages
    DataValues <- MCDataValues
    MaxCodeSize = 2
    MaxSubcallDepth = 1
    MaxSubcallCount = 1
    TxUploadGas = 1
    TxUploadPerByte = 1
    TxInstantiateGas = 1
    TxCallGas = 1
    TxUpgradeGas = 1
    SubcallDispatch = 1
    OtherGas = 1
    GuestGas = {1}
    TxGasLimit = 3
    MaxEmit = 1
    GenesisBalances <- OneToken
    MaxMessages = 1
    MaxTxs = 3

SPECIFICATION Spec
\* The system stops after MaxTxs transactions.
CHECK_DEADLOCK FALSE

INVARIANTS
    TypeOK
    IdentifiersContiguous
