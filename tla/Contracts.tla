------------------------------ MODULE Contracts ------------------------------
(***************************************************************************)
(* The smart-contracts module of the runtime SDK: the transaction handlers *)
(* Upload, Instantiate, Call and Upgrade (lib.rs) and the sub-call         *)
(* dispatcher process_execution_result (subcalls.rs), which runs every     *)
(* message a contract emits as a transaction in a child context, commits  *)
(* or reverts that context, charges its gas to the parent and routes the  *)
(* reply back to the emitting contract.                                    *)
(*                                                                         *)
(* The Rust recursion is made explicit: `ctxs` is the stack of nested     *)
(* transaction contexts (ctxs[1] is the user's transaction, ctxs[k+1] the *)
(* child opened by a message of ctxs[k]) and every context holds the stack *)
(* of process_execution_result activations running in it (`frames`): the *)
(* first comes from the handler, the others from handle_reply.             *)
(*                                                                         *)
(* The guest (WASM code) is untrusted and not in the repository's sources:*)
(* each entry point invocation is a nondeterministic choice of a trap, an *)
(* out-of-gas trap, or an ExecutionOk with any data and any messages.      *)
(***************************************************************************)
EXTENDS Naturals, Sequences, SequencesExt, FiniteSets, ContractTypes

CONSTANTS
    Users,            \* addresses of the users that submit transactions
    Modes,            \* execution modes a transaction may run in
    TopRequests,      \* method calls users submit
    MsgPool,          \* Message::Call values contracts may emit
    DataValues,       \* data a contract may return
    Empty,            \* the empty data vector
    None,             \* absence of a value
    MaxCodeSize,      \* Parameters.max_code_size
    MaxSubcallDepth,  \* Parameters.max_subcall_depth
    MaxSubcallCount,  \* Parameters.max_subcall_count
    TxUploadGas,      \* GasCosts.tx_upload
    TxUploadPerByte,  \* GasCosts.tx_upload_per_byte
    TxInstantiateGas, \* GasCosts.tx_instantiate
    TxCallGas,        \* GasCosts.tx_call
    TxUpgradeGas,     \* GasCosts.tx_upgrade
    SubcallDispatch,  \* GasCosts.subcall_dispatch
    OtherGas,         \* gas a method of another module uses
    GuestGas,         \* gas amounts one guest invocation may consume
    TxGasLimit,       \* fee.gas of every user transaction
    GenesisBalances,  \* accounts genesis: address -> balance of the native denomination
    MaxMessages,      \* runtime message slots of a user transaction
    MaxEmit,          \* bound: most messages one guest invocation emits
    MaxTxs            \* bound: number of user transactions

ASSUME /\ Empty \in DataValues
       /\ Modes \subseteq {"execute", "check", "check_expensive"}
       /\ GuestGas \subseteq Nat \ {0}
       /\ MaxEmit \in Nat /\ MaxTxs \in Nat /\ MaxMessages \in Nat
       /\ GenesisBalances \in [DOMAIN GenesisBalances -> Nat]

VARIABLES
    store,      \* committed runtime state: key -> [v |-> value, by |-> writer]
    ctxs,       \* stack of nested transaction contexts
    txs,        \* number of user transactions finished
    nextCtx,    \* ghost: identifier of the next context of this transaction
    discarded,  \* ghost: contexts of this transaction whose writes were dropped
    burned,     \* ghost: gas consumed by any context of this transaction
    oogInTx     \* ghost: a sub-call of this transaction ran out of gas

vars == <<store, ctxs, txs, nextCtx, discarded, burned, oogInTx>>

-----------------------------------------------------------------------------
(* State keys (lib.rs `state`): every key is a pair so that keys compare. *)
NextCodeKey     == <<"next_code", 0>>
NextInstanceKey == <<"next_instance", 0>>
CodeInfoKey(id) == <<"code_info", id>>
CodeKey(id)     == <<"code", id>>
InstanceKey(id) == <<"instance_info", id>>
StateKey(id)    == <<"instance_state", id>>
OtherKey        == <<"other_module", 0>>
(* The accounts module's balance of an address (not in the sources).      *)
BalanceKey(a)   == <<"balance", a>>

(* A write of value x by context c records the path of contexts that led  *)
(* to c, so that a dropped context's writes can be recognised.            *)
Written(x, c) == [v |-> x, by |-> c.path]

(* The store a context sees: the committed state under the overlays of    *)
(* ctxs[1..k], later ones shadowing earlier ones.                          *)
ViewAt(k) == FoldLeft(LAMBDA acc, c : c.writes @@ acc, store, SubSeq(ctxs, 1, k))

Lookup(view, key, default) == IF key \in DOMAIN view THEN view[key].v ELSE default

Put(c, key, x) == [c EXCEPT !.writes = (key :> Written(x, c)) @@ @]

(* Core::remaining_gas: saturating limit - used.                           *)
Remaining(c) == IF c.limit > c.used THEN c.limit - c.used ELSE 0

Ok(c, data) == [c EXCEPT !.result = [ok |-> TRUE, data |-> data], !.frames = <<>>]
Fail(c, err) == [c EXCEPT !.result = [ok |-> FALSE, err |-> err], !.frames = <<>>]

(* Mutant: the check ignores the gas already used.                         *)
Fits_IgnoresUsed(c, n) == n <= c.limit

(* Core::use_tx_gas: fails with out of gas, charging nothing, when the    *)
(* amount does not fit the transaction's limit.                            *)
Fits(c, n) == c.used + n <= c.limit
Charge(c, n) == [c EXCEPT !.used = @ + n]

(* Only fast checks are allowed: is_check_only && !expensive_queries.     *)
FastCheckOnly(c) == c.mode = "check"
CheckOnly(c) == c.mode \in {"check", "check_expensive"}

(* A context also buffers the runtime messages emitted in it (`msgs`, each *)
(* one recorded as the path of the context that emitted it), up to its   *)
(* message slots `maxMsgs`.                                               *)
NewCtx(id, path, caller, mode, limit, depth, req, maxMsgs) ==
    [id |-> id, path |-> path, caller |-> caller, mode |-> mode,
     limit |-> limit, used |-> 0, depth |-> depth, writes |-> <<>>,
     req |-> req, ran |-> FALSE, frames |-> <<>>, result |-> None,
     lastData |-> Empty, msgs |-> <<>>, maxMsgs |-> maxMsgs]

(* Message slots a context has left.                                       *)
FreeSlots(c) == c.maxMsgs - Len(c.msgs)

-----------------------------------------------------------------------------
(* Mutant: the depth guard compares with > instead of >=.                  *)
DepthExceeded_OffByOne(c, msgs) == msgs # <<>> /\ c.depth > MaxSubcallDepth

(* The depth guard: messages are refused once the context's CallDepth has *)
(* reached max_subcall_depth.                                              *)
DepthExceeded(c, msgs) == msgs # <<>> /\ c.depth >= MaxSubcallDepth

(* process_execution_result up to its message loop: the depth guard, the  *)
(* dispatch charge for every message, then the count guard; on success a *)
(* new activation for contract `inst` is pushed on the context's frames.  *)
ProcessExecutionResult(c, inst, data, msgs) ==
    LET cost == SubcallDispatch * Len(msgs)
    IN  IF DepthExceeded(c, msgs)
        THEN Fail(c, "CallDepthExceeded")
        ELSE IF ~Fits(c, cost)
        THEN Fail(c, "OutOfGas")
        ELSE IF Len(msgs) > MaxSubcallCount
        THEN Fail(Charge(c, cost), "TooManySubcalls")
        ELSE [Charge(c, cost) EXCEPT !.frames =
                 Append(@, [inst |-> inst, msgs |-> msgs, data |-> data,
                            pending |-> None])]

(* One invocation of a guest entry point (instantiate, call or            *)
(* handle_reply) of contract `inst`, followed by process_execution_result *)
(* of what it returns.  The guest consumes g gas; if that exceeds what is *)
(* left it traps out of gas having used everything; otherwise it traps or *)
(* returns data and messages, having possibly written its own state.      *)
(* The ghost field lastData keeps the last non-empty data a guest         *)
(* invocation in the context returned.                                     *)
InvokeGuest(c, inst) ==
    { Fail([c EXCEPT !.used = c.limit], "OutOfGas") : g \in {x \in GuestGas : ~Fits(c, x)} }
    \cup
    { Fail(Charge(c, g), "ExecutionFailed") : g \in {x \in GuestGas : Fits(c, x)} }
    \cup
    { LET c1 == [Charge(c, o.g) EXCEPT !.lastData = IF o.data # Empty THEN o.data ELSE @]
          c2 == IF o.write THEN Put(c1, StateKey(inst), c1.id) ELSE c1
      IN  ProcessExecutionResult(c2, inst, o.data, o.msgs)
      : o \in [g : {x \in GuestGas : Fits(c, x)}, write : BOOLEAN,
               data : DataValues, msgs : BoundedSeq(MsgPool, MaxEmit)] }

(* Accounts::transfer (spec section 4.C; the accounts tests): the source  *)
(* is debited, then the destination credited, each a read-modify-write of *)
(* the balance in the context's store; a short balance fails the transfer *)
(* with nothing written (InsufficientBalance).                            *)
Transfer(c, view, from, to, amount) ==
    LET bal(x, a) == Lookup(x.writes @@ view, BalanceKey(a), 0)
        c1        == Put(c, BalanceKey(from), bal(c, from) - amount)
    IN  IF bal(c, from) < amount THEN [ok |-> FALSE, ctx |-> c]
        ELSE [ok |-> TRUE, ctx |-> Put(c1, BalanceKey(to), bal(c1, to) + amount)]

(* `for tokens in &body.tokens { Accounts::transfer(..)                   *)
(* .map_err(|_| InsufficientCallerBalance)? }`: the attached amounts are   *)
(* transferred in order from the caller to the instance; the first that   *)
(* fails stops the loop, the transfers before it staying in the context.  *)
TransferTokens(c, view, to, tokens) ==
    FoldLeft(LAMBDA acc, amount :
                 IF acc.ok THEN Transfer(acc.ctx, view, c.caller, to, amount) ELSE acc,
             [ok |-> TRUE, ctx |-> c], tokens)

-----------------------------------------------------------------------------
(* Mutant: the incremented identifier is not stored back.                  *)
AssignNextId_Lost(c, key, id) == c

(* Mutant: the identifier is advanced twice.                               *)
AssignNextId_Skip(c, key, id) == Put(c, key, id + 2)

(* tstore.insert(NEXT_..._IDENTIFIER, id.increment()) after reading id.    *)
AssignNextId(c, key, id) == Put(c, key, id + 1)

(* The typed store accessors of lib.rs: a load is the stored value or the *)
(* not-found error of its kind; a store writes into the context's overlay. *)
Load(view, key, err) ==
    IF key \in DOMAIN view THEN [ok |-> TRUE, value |-> view[key].v]
                           ELSE [ok |-> FALSE, err |-> err]

LoadCodeInfo(view, id)     == Load(view, CodeInfoKey(id), "CodeNotFound")
LoadCode(view, id)         == Load(view, CodeKey(id), "CodeNotFound")
LoadInstanceInfo(view, id) == Load(view, InstanceKey(id), "InstanceNotFound")

StoreCodeInfo(c, id, info)     == Put(c, CodeInfoKey(id), info)
StoreCode(c, id, code)         == Put(c, CodeKey(id), code)
StoreInstanceInfo(c, id, info) == Put(c, InstanceKey(id), info)

(* wasm::validate_and_transform (not in the sources): the instrumented    *)
(* code, of the blob's size after instrumentation, which itself validates.*)
ValidateAndTransform(b) == [size |-> b.instSize, valid |-> TRUE, instSize |-> b.instSize]

(* Mutant: the hash is taken of the uploaded bytes, before instrumentation.*)
CodeHash_OfBody(body, code) == Digest(body)

(* `let hash = Hash::digest_bytes(&code)`: the digest of the instrumented  *)
(* code, which is what is stored.                                          *)
CodeHash(body, code) == Digest(code)

(* Handlers (lib.rs).  Each maps the context it runs in, marked as run,    *)
(* to the set of contexts it may leave behind; `view` is what it reads.    *)

(* tx_upload: size check, the two upload charges, the fast-check return,  *)
(* validation and instrumentation (wasm.rs, the blob's valid/instSize),   *)
(* the size re-check and the instrumentation charge, the check-only       *)
(* return, then the next code id and the stored code information and code.*)
UploadOutcomes(c, view) ==
    LET b        == c.req.code
        code     == ValidateAndTransform(b)
        perByte  == TxUploadPerByte * b.size
        extra    == TxUploadPerByte * (IF code.size > b.size THEN code.size - b.size ELSE 0)
        c1       == Charge(c, TxUploadGas)
        c2       == Charge(c1, perByte)
        c3       == Charge(c2, extra)
        id       == Lookup(view, NextCodeKey, 0)
    IN  IF b.size > MaxCodeSize THEN {Fail(c, "CodeTooLarge")}
        ELSE IF ~Fits(c, TxUploadGas) THEN {Fail(c, "OutOfGas")}
        ELSE IF ~Fits(c1, perByte) THEN {Fail(c1, "OutOfGas")}
        ELSE IF FastCheckOnly(c2) THEN {Ok(c2, Empty)}
        ELSE IF ~b.valid THEN {Fail(c2, "CodeMalformed")}
        ELSE IF code.size > MaxCodeSize THEN {Fail(c2, "CodeTooLarge")}
        ELSE IF ~Fits(c2, extra) THEN {Fail(c2, "OutOfGas")}
        ELSE IF CheckOnly(c3) THEN {Ok(c3, Empty)}
        ELSE {Ok(StoreCode(StoreCodeInfo(AssignNextId(c3, NextCodeKey, id), id,
                               CodeInfo(id, CodeHash(b, code), c.req.abi, c.req.policy)),
                           id, code), Empty)}

(* tx_instantiate: charge, fast-check return, load the code information,  *)
(* enforce its instantiate policy on the caller, load the code, take the  *)
(* next instance id, store the instance, transfer the tokens, run the     *)
(* guest's instantiate and process its result.                            *)
InstantiateOutcomes(c, view) ==
    LET c1   == Charge(c, TxInstantiateGas)
        cid  == c.req.codeId
        info == LoadCodeInfo(view, cid)
        code == LoadCode(view, cid)
        id   == Lookup(view, NextInstanceKey, 0)
        c2   == StoreInstanceInfo(AssignNextId(c1, NextInstanceKey, id), id,
                    InstanceInfo(id, cid, c.caller, c.req.upgrades))
    IN  IF ~Fits(c, TxInstantiateGas) THEN {Fail(c, "OutOfGas")}
        ELSE IF FastCheckOnly(c1) THEN {Ok(c1, Empty)}
        ELSE IF ~info.ok THEN {Fail(c1, info.err)}
        ELSE IF ~Enforce(info.value.policy, c.caller) THEN {Fail(c1, "Forbidden")}
        ELSE IF ~code.ok THEN {Fail(c1, code.err)}
        ELSE LET t == TransferTokens(c2, view, AddressFor(id), c.req.tokens)
             IN  IF ~t.ok THEN {Fail(t.ctx, "InsufficientCallerBalance")}
                 ELSE InvokeGuest(t.ctx, id)

(* tx_call: charge, fast-check return, load the instance, its code        *)
(* information and code, transfer the tokens, run the guest's call and    *)
(* process its result.                                                    *)
CallOutcomes(c, view) ==
    LET c1   == Charge(c, TxCallGas)
        id   == c.req.id
        inst == LoadInstanceInfo(view, id)
        info == LoadCodeInfo(view, inst.value.code)
        code == LoadCode(view, inst.value.code)
    IN  IF ~Fits(c, TxCallGas) THEN {Fail(c, "OutOfGas")}
        ELSE IF FastCheckOnly(c1) THEN {Ok(c1, Empty)}
        ELSE IF ~inst.ok THEN {Fail(c1, inst.err)}
        ELSE IF ~info.ok THEN {Fail(c1, info.err)}
        ELSE IF ~code.ok THEN {Fail(c1, code.err)}
        ELSE LET t == TransferTokens(c1, view, AddressFor(id), c.req.tokens)
             IN  IF ~t.ok THEN {Fail(t.ctx, "InsufficientCallerBalance")}
                 ELSE InvokeGuest(t.ctx, id)

(* tx_upgrade: charge, then always Unsupported.                           *)
UpgradeOutcomes(c, view) ==
    IF ~Fits(c, TxUpgradeGas) THEN {Fail(c, "OutOfGas")}
    ELSE {Fail(Charge(c, TxUpgradeGas), "Unsupported")}

(* A method of another module reached through the dispatcher: it uses gas *)
(* and fails, or succeeds with a write and, if the request is one that     *)
(* emits a runtime message (a consensus deposit or withdrawal), emits one *)
(* with ctx.emit_message, which fails when the context has no slot left.  *)
OtherOutcomes(c, view) ==
    LET c1 == Put(Charge(c, OtherGas), OtherKey, c.id)
    IN  IF ~Fits(c, OtherGas) THEN {Fail(c, "OutOfGas")}
        ELSE IF c.req.emits /\ FreeSlots(c1) = 0
        THEN {Fail(c1, "OutOfMessageSlots"), Fail(Charge(c, OtherGas), "OtherFailed")}
        ELSE {Ok(IF c.req.emits THEN [c1 EXCEPT !.msgs = Append(@, c.path)] ELSE c1, Empty),
              Fail(Charge(c, OtherGas), "OtherFailed")}

Top == ctxs[Len(ctxs)]

(* The innermost context has not yet run the method it was opened for.   *)
Pending(method) == ctxs # <<>> /\ ~Top.ran /\ Top.req.method = method

RunHandler(Outcomes(_, _)) ==
    \E c2 \in Outcomes([Top EXCEPT !.ran = TRUE], ViewAt(Len(ctxs))) :
        /\ ctxs' = [ctxs EXCEPT ![Len(ctxs)] = c2]
        /\ burned' = burned + (c2.used - Top.used)
        /\ UNCHANGED <<store, txs, nextCtx, discarded, oogInTx>>

Upload      == Pending("Upload")      /\ RunHandler(UploadOutcomes)
Instantiate == Pending("Instantiate") /\ RunHandler(InstantiateOutcomes)
Call        == Pending("Call")        /\ RunHandler(CallOutcomes)
Upgrade     == Pending("Upgrade")     /\ RunHandler(UpgradeOutcomes)
OtherMethod == Pending("Other")       /\ RunHandler(OtherOutcomes)

-----------------------------------------------------------------------------
(* Sub-call dispatch (subcalls.rs).                                        *)

(* The innermost activation of the innermost context, still running.      *)
Active == ctxs # <<>> /\ Top.result = None /\ Top.frames # <<>>

(* The gas a child may use: the message's max_gas, or all that remains,   *)
(* clamped to what remains.                                                *)
Allowance(m, rem) ==
    LET requested == IF m.maxGas = None THEN rem ELSE m.maxGas
    IN  IF requested > rem THEN rem ELSE requested

(* The child context's message slots: what its parent has left ("the      *)
(* child context has the right limits configured").                       *)
ChildMessageSlots(p) == FreeSlots(p)

(* One iteration of the message loop up to with_tx: the child's allowance *)
(* is max_gas clamped to the remaining gas, and a child context is opened *)
(* whose transaction is sent by the contract's address, limited to that   *)
(* allowance and one call deeper.                                         *)
DispatchMessage ==
    /\ Active
    /\ LET c         == Top
           f         == Last(c.frames)
           m         == Head(f.msgs)
           rem       == Remaining(c)
           allowance == Allowance(m, rem)
           id        == <<txs, nextCtx>>
       IN  /\ f.pending = None
           /\ f.msgs # <<>>
           /\ ctxs' = Append([ctxs EXCEPT ![Len(ctxs)].frames[Len(c.frames)] =
                                  [f EXCEPT !.msgs = Tail(@), !.pending = m]],
                             NewCtx(id, Append(c.path, id), AddressFor(f.inst),
                                    c.mode, allowance, c.depth + 1, m.call,
                                    ChildMessageSlots(c)))
    /\ nextCtx' = nextCtx + 1
    /\ UNCHANGED <<store, txs, discarded, burned, oogInTx>>

(* Mutant: the child's gas is not charged to the parent.                  *)
ChildGasUsed_Free(ch) == 0

(* max_gas.saturating_sub(gas): the child's limit less what it has left.  *)
ChildGasUsed(ch) == IF ch.limit > Remaining(ch) THEN ch.limit - Remaining(ch) ELSE 0

(* Mutant: the child's store is committed whatever its result.            *)
CommitChild_Always(p, ch, success) == [p EXCEPT !.writes = ch.writes @@ @]

(* with_tx commits the child's store (and tags and messages) only when    *)
(* the dispatched call succeeded; with_child then commits into the parent.*)
CommitChild(p, ch, success) ==
    IF success THEN [p EXCEPT !.writes = ch.writes @@ @] ELSE p

(* Mutant: a failed child's runtime messages are forwarded too.            *)
ForwardedMessages_OnFailure(ch, success) == ch.msgs

(* The runtime messages with_tx hands back: the child's own buffer if its *)
(* call succeeded ("ignore tags/messages on failure" otherwise).          *)
ForwardedMessages(ch, success) == IF success THEN ch.msgs ELSE <<>>

(* The rest of the loop iteration once the child's call has returned: the *)
(* child's writes are committed only if it succeeded, the parent is       *)
(* charged max_gas - remaining, a successful child's runtime messages are *)
(* emitted into the parent (the first one without a slot fails the        *)
(* parent, after the commit), and the reply, if the filter lets it      *)
(* through, is handled by the emitting contract's handle_reply whose      *)
(* result is processed recursively in the parent.                         *)
ChildReturn ==
    /\ Len(ctxs) > 1
    /\ Top.result # None
    /\ LET ch      == Top
           p       == ctxs[Len(ctxs) - 1]
           f       == Last(p.frames)
           success == IsSuccess(ch.result)
           charge  == ChildGasUsed(ch)
           p1      == CommitChild(p, ch, success)
           p2      == Charge(p1, charge)
           fwd     == ForwardedMessages(ch, success)
           n       == IF Len(fwd) > FreeSlots(p2) THEN FreeSlots(p2) ELSE Len(fwd)
           p3      == [p2 EXCEPT !.msgs = @ \o SubSeq(fwd, 1, n)]
           outer   == SubSeq(ctxs, 1, Len(ctxs) - 2)
       IN  /\ discarded' = IF success THEN discarded ELSE discarded \cup {ch.id}
           /\ oogInTx' = (oogInTx \/ (~success /\ ch.result.err = "OutOfGas"))
           /\ IF ~Fits(p1, charge)
              THEN /\ ctxs' = Append(outer, Fail(p1, "OutOfGas"))
                   /\ UNCHANGED burned
              ELSE IF n < Len(fwd)
              THEN /\ ctxs' = Append(outer, Fail(p3, "OutOfMessageSlots"))
                   /\ UNCHANGED burned
              ELSE IF DeliverReply(f.pending.reply, success)
              THEN \E p4 \in InvokeGuest(p3, f.inst) :
                      /\ ctxs' = Append(outer, p4)
                      /\ burned' = burned + (p4.used - p3.used)
              ELSE /\ ctxs' = Append(outer, [p3 EXCEPT !.frames[Len(p3.frames)].pending = None])
                   /\ UNCHANGED burned
    /\ UNCHANGED <<store, txs, nextCtx>>

(* Mutant: an empty reply result also overwrites the data.                *)
ResumeAfterReply_EmptyOverwrites(b, replyData) ==
    [b EXCEPT !.data = replyData, !.pending = None]

(* The activation that delivered a reply resumes its loop; a non-empty    *)
(* result of the reply's processing overwrites its data.                  *)
ResumeAfterReply(b, replyData) ==
    [b EXCEPT !.data = IF replyData # Empty THEN replyData ELSE @, !.pending = None]

(* An activation whose messages are all processed returns its data: to    *)
(* the handler, which completes the context's call (Call returns the data,*)
(* Instantiate the id), or to the activation awaiting the reply, whose    *)
(* data a non-empty reply result overwrites.                              *)
FinishFrame ==
    /\ Active
    /\ LET c    == Top
           f    == Last(c.frames)
           rest == Front(c.frames)
       IN  /\ f.msgs = <<>>
           /\ f.pending = None
           /\ ctxs' = [ctxs EXCEPT ![Len(ctxs)] =
                 IF rest = <<>>
                 THEN Ok(c, IF c.req.method = "Call" THEN f.data ELSE Empty)
                 ELSE [c EXCEPT !.frames = [rest EXCEPT ![Len(rest)] =
                          ResumeAfterReply(@, f.data)]]]
    /\ UNCHANGED <<store, txs, nextCtx, discarded, burned, oogInTx>>

-----------------------------------------------------------------------------
(* The outer transaction dispatcher (not part of this module's sources):  *)
(* a user's transaction runs in its own context, which is committed if it *)
(* succeeded in execute mode and dropped otherwise.                       *)
StartTx ==
    /\ ctxs = <<>>
    /\ txs < MaxTxs
    /\ \E u \in Users, req \in TopRequests, mode \in Modes :
          ctxs' = <<NewCtx(<<txs, 0>>, <<<<txs, 0>>>>, u, mode, TxGasLimit, 0, req,
                           MaxMessages)>>
    /\ nextCtx' = 1
    /\ discarded' = {}
    /\ burned' = 0
    /\ oogInTx' = FALSE
    /\ UNCHANGED <<store, txs>>

EndTx ==
    /\ Len(ctxs) = 1
    /\ Top.result # None
    /\ LET commit == IsSuccess(Top.result) /\ Top.mode = "execute"
       IN  /\ store' = IF commit THEN Top.writes @@ store ELSE store
           /\ discarded' = IF commit THEN discarded ELSE discarded \cup {Top.id}
    /\ ctxs' = <<>>
    /\ txs' = txs + 1
    /\ UNCHANGED <<nextCtx, burned, oogInTx>>

-----------------------------------------------------------------------------
(* Queries (lib.rs): read-only methods over the committed state.  Code and *)
(* Instance load what is stored; the other three are reserved.            *)
UnsupportedQuery == [ok |-> FALSE, err |-> "Unsupported"]

QueryCode(view, id)     == LoadCodeInfo(view, id)
QueryInstance(view, id) == LoadInstanceInfo(view, id)

DispatchQuery(view, method, id) ==
    CASE method = "Code"     -> QueryCode(view, id)
      [] method = "Instance" -> QueryInstance(view, id)
      [] method \in {"InstanceStorage", "PublicKey", "Custom"} -> UnsupportedQuery

Init ==
    /\ store = [k \in {BalanceKey(a) : a \in DOMAIN GenesisBalances} |->
                   [v |-> GenesisBalances[k[2]], by |-> <<>>]]
    /\ ctxs = <<>>
    /\ txs = 0
    /\ nextCtx = 0
    /\ discarded = {}
    /\ burned = 0
    /\ oogInTx = FALSE

(* Everything but the arrival of a new transaction: what runs a started   *)
(* transaction to its end on the single thread that executes it.          *)
Execute ==
    \/ Upload \/ Instantiate \/ Call \/ Upgrade \/ OtherMethod
    \/ DispatchMessage \/ ChildReturn \/ FinishFrame \/ EndTx

Next == StartTx \/ Execute

Spec == Init /\ [][Next]_vars

-----------------------------------------------------------------------------
(* Properties.                                                             *)

Errors == {"CodeTooLarge", "CodeMalformed", "CodeNotFound", "InstanceNotFound",
           "Forbidden", "Unsupported", "InsufficientCallerBalance",
           "ExecutionFailed", "CallDepthExceeded", "TooManySubcalls",
           "OutOfGas", "OutOfMessageSlots", "OtherFailed"}

Results == {None} \cup [ok : {TRUE}, data : DataValues] \cup [ok : {FALSE}, err : Errors]

TypeOK ==
    /\ txs \in 0..MaxTxs
    /\ burned \in Nat /\ nextCtx \in Nat /\ oogInTx \in BOOLEAN
    /\ \A k \in 1..Len(ctxs) :
          LET c == ctxs[k] IN
          /\ c.used \in 0..c.limit
          /\ c.depth \in Nat
          /\ c.ran \in BOOLEAN
          /\ c.result \in Results
          /\ c.lastData \in DataValues
          /\ Len(c.msgs) <= c.maxMsgs
          /\ \A i \in 1..Len(c.frames) :
                /\ c.frames[i].data \in DataValues
                /\ c.frames[i].pending \in {None} \cup MsgPool
                /\ ToSet(c.frames[i].msgs) \subseteq MsgPool

(* The CallDepth value every context reads is its nesting level, and no   *)
(* context is nested deeper than max_subcall_depth: the depth guard of    *)
(* process_execution_result and the `current_depth + 1` set in the child  *)
(* together bound the recursion of sub-calls through other contracts.     *)
CallDepthTracksNesting ==
    \A k \in 1..Len(ctxs) :
        /\ ctxs[k].depth = k - 1
        /\ ctxs[k].depth <= MaxSubcallDepth

(* All the gas consumed anywhere in the transaction's tree of sub-calls,  *)
(* including by sub-calls that failed and were reverted, is accounted for *)
(* in the contexts still open: every child's consumption is charged to    *)
(* its parent when it returns, exactly once.                              *)
GasAccounted ==
    ctxs # <<>> => burned = FoldLeft(LAMBDA acc, c : acc + c.used, 0, ctxs)

(* No write and no runtime message of a context that failed, or of any    *)
(* context below it, is visible in the committed state, in any open       *)
(* overlay or in any open message buffer (spec section 8): a failed       *)
(* sub-call is reverted together with every sub-call it committed, though *)
(* with_tx hands back the messages and with_child commits the store by    *)
(* separate paths.                                                         *)
WritersIn(f) == UNION {ToSet(f[key].by) : key \in DOMAIN f}
EmittersIn(c) == UNION {ToSet(c.msgs[i]) : i \in 1..Len(c.msgs)}

DiscardedEffectsInvisible ==
    /\ WritersIn(store) \cap discarded = {}
    /\ \A k \in 1..Len(ctxs) :
          (WritersIn(ctxs[k].writes) \cup EmittersIn(ctxs[k])) \cap discarded = {}

(* In the store every context sees, code and instance ids are exactly     *)
(* 0 .. next-1: an id is taken only with its information stored, in the   *)
(* same overlay, so a reverted Upload or Instantiate (also one issued by a *)
(* contract as a sub-call) gives its id back and no id is reused.         *)
IdsOf(view, kind) == {key[2] : key \in {k \in DOMAIN view : k[1] = kind}}

IdentifiersContiguous ==
    \A k \in 0..Len(ctxs) :
        LET v  == ViewAt(k)
            nc == Lookup(v, NextCodeKey, 0)
            ni == Lookup(v, NextInstanceKey, 0)
        IN  /\ IdsOf(v, "code_info") = 0..(nc - 1)
            /\ IdsOf(v, "code") = 0..(nc - 1)
            /\ IdsOf(v, "instance_info") = 0..(ni - 1)

(* Every instance, in every context's view, was created by a caller that  *)
(* its code's instantiate policy admits, whether the creator was a user   *)
(* or a contract instantiating through a sub-call.                        *)
Admits(policy, addr) ==
    CASE policy.kind = "nobody"  -> FALSE
      [] policy.kind = "address" -> policy.addr = addr
      [] policy.kind = "any"     -> TRUE

InstancesRespectPolicy ==
    \A k \in 0..Len(ctxs) :
        LET v == ViewAt(k) IN
        \A i \in IdsOf(v, "instance_info") :
            LET inst == v[InstanceKey(i)].v IN
            /\ CodeInfoKey(inst.code) \in DOMAIN v
            /\ Admits(v[CodeInfoKey(inst.code)].v.policy, inst.creator)

(* The registry a client reads through the Code and Instance queries of   *)
(* the committed state, with the stored code, for ids 0 .. next-1: the    *)
(* refinement mapping to                                                   *)
(* ContractRegistry.  A failed query shows as its error record, which the *)
(* abstract specification does not accept as a registry entry.            *)
QueriedValue(q) == IF q.ok THEN q.value ELSE q

RegisteredCodes ==
    [i \in 1..Lookup(store, NextCodeKey, 0) |->
        [info |-> QueriedValue(DispatchQuery(store, "Code", i - 1)),
         code |-> QueriedValue(LoadCode(store, i - 1))]]

RegisteredInstances ==
    [i \in 1..Lookup(store, NextInstanceKey, 0) |->
        QueriedValue(DispatchQuery(store, "Instance", i - 1))]

Registry == INSTANCE ContractRegistry WITH codes <- RegisteredCodes,
                                           instances <- RegisteredInstances

(* The committed state implements the abstract registry: transactions,   *)
(* with all their sub-calls, only append code and instances with fresh    *)
(* consecutive ids, never alter or drop a registered one, record with     *)
(* code the digest of the instrumented code stored, and register only     *)
(* instances their code's policy admits (spec sections 3, 4.E and 8).     *)
RegistryRefined == Registry!Spec

(* spec.md section 7: "Out-of-gas is never recovered; it always propagates *)
(* to the outermost transaction": a transaction whose sub-call ran out of *)
(* gas does not succeed.                                                   *)
OutOfGasPropagates ==
    (Len(ctxs) = 1 /\ Top.result # None /\ IsSuccess(Top.result)) => ~oogInTx

(* The CallDepth key exists "to make sure that the maximum depth is not   *)
(* exceeded as that could result in a stack overflow" (subcalls.rs): the  *)
(* number of nested process_execution_result activations stays within    *)
(* max_subcall_depth + 1.                                                  *)
ActivationsBounded ==
    FoldLeft(LAMBDA acc, c : acc + Len(c.frames), 0, ctxs) <= MaxSubcallDepth + 1

(* Reply-overwrites-data (spec.md sections 4.D and 9): the data a         *)
(* successful Call returns is the last non-empty data that any guest      *)
(* invocation of the contract in its context returned, in the order they  *)
(* ran: its call, then every handle_reply, however deeply the replies'    *)
(* own messages nest.  Empty if all were empty.                            *)
ReplyDataOverwrites ==
    \A k \in 1..Len(ctxs) :
        LET c == ctxs[k] IN
        (c.req.method = "Call" /\ c.result # None /\ IsSuccess(c.result))
            => c.result.data = c.lastData
=============================================================================
