\* Replies run: several messages per activation and chains of replies, each
\* returning empty or one of two distinct values. A delivered reply costs at
\* least 3 gas and the Call 1, so a limit of 8 pays for a successful Call with
\* two delivered replies, or with a reply to a reply.
CONSTANTS
    u1 = u1
    None = None
    Empty = Empty
    Users = {u1}
    Modes = {"execute"}
    TopRequests <- ReplyRequests
    MsgPool <- ReplyMessages
    DataValues <- ReplyDataValues
    MaxCodeSize = 2
    MaxSubcallDepth = 1
    MaxSubcallCount = 2
    TxUploadGas = 0
    TxUploadPerByte = 1
    TxInstantiateGas = 0
    TxCallGas = 0
    TxUpgradeGas = 0
    SubcallDispatch = 1
    OtherGas = 1
    GuestGas = {1}
    TxGasLimit = 8
    MaxEmit = 2
    GenesisBalances <- OneToken
    MaxMessages = 1
    MaxTxs = 3

SPECIFICATION Spec
\* The system stops after MaxTxs transactions.
CHECK_DEADLOCK FALSE

INVARIANTS
    ReplyDataOverwrites
