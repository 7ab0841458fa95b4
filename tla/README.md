# TLA+ models of the contracts module

This directory holds TLA+ models of the smart-contract module of the Oasis
runtime SDK, as found under `src/`, and the TLC configurations that check
them. Each module, run and finding is listed in `PROJECT.json`, together with
the map from every definition to the source lines it models.

## The system

The core is the sub-call dispatcher and the four transaction handlers of the
`contracts` module:

| Part | Source | Role |
|---|---|---|
| Handlers | `runtime-sdk/modules/contracts/src/lib.rs` | `tx_upload`, `tx_instantiate`, `tx_call`, `tx_upgrade`; `dispatch_call` maps their errors to a failed `CallResult`. |
| Sub-call dispatcher | `runtime-sdk/modules/contracts/src/subcalls.rs` | `process_execution_result`: depth and count guards, dispatch charge, one child transaction per emitted message, commit-or-revert, parent charge, reply routing and recursion. |
| Types | `runtime-sdk/modules/contracts/src/types.rs`, `contract-sdk/types/src/message.rs` | `Policy::enforce`, `Instance::address_for`, `NotifyReply`, `CallResult::is_success`. |
| Store backend | `runtime-sdk/src/storage/mkvs.rs` | get/insert on the committed state; `commit` is a no-op. |
| Guest storage imports | `contract-sdk/src/storage.rs` | get/insert/remove from inside a contract, with `(0,0)` meaning "absent". |
| Tests | `abi/oasis/test.rs`, `modules/accounts/test.rs` | End-to-end WASM tests and accounts tests. |

These parts are not in `src/`, and are modelled from `spec.md`:
- the WASM validator and instrumenter, and the instance runtime (`wasm.rs`);
- the outer transaction dispatcher;
- the core gas module;
- the overlay store, and the runtime-message buffer and limits of a context;
- the accounts module's `transfer`.

A user transaction reaches a handler through the dispatcher, in its own
context. `Instantiate` and `Call` run the guest. The guest returns data and
messages, and `process_execution_result` then dispatches each message as a
new transaction. That transaction runs in a child context whose sender is the
contract's address. Its gas limit is the message's `max_gas`, clamped to what
the parent has left, and its `CallDepth` is one more than the parent's.

The child's writes are committed into the parent only if the child
succeeded. The parent is charged what the child used. If the reply filter lets
the result through, the emitting contract's `handle_reply` runs, and its
result is processed recursively **at the same depth**. A non-empty result of
that processing replaces the data the contract returns.

## Modules

* `ContractTypes` holds pure operators:
  - `Nobody`, `Everyone` and `AddressPolicy(a)`, with `Enforce`
    (`Policy::enforce`);
  - `AddressFor` (`Instance::address_for`);
  - `DeliverReply`, the reply filter of `subcalls.rs:151-154`;
  - `IsSuccess`;
  - the `Code` and `Instance` records (`CodeInfo`, `InstanceInfo`), the
    `ABI` values, and `Digest`, a collision-free `Hash::digest_bytes`.
* `Contracts` models the handlers and the dispatcher.
  - **State.** `store` is the committed state: a function from keys such as
    `<<"code_info", id>>` (the prefixes of `lib.rs` `state`) to a value and
    the path of contexts that wrote it.
  - `ctxs` is the stack of nested transaction contexts. Each context has its
    caller, mode, gas `limit` and `used`, `depth` (the `CallDepth` value), its
    write overlay `writes`, the request, and `frames`. `frames` is the stack of
    `process_execution_result` activations running in that context: the first
    comes from the handler, later ones from `handle_reply`. Each activation
    keeps its remaining messages, its `result_data` and the message awaiting
    its child.
  - `ViewAt(k)` folds the overlays of contexts 1..k over the committed
    store, which is what context k reads.
  - Token balances of the accounts module are kept in the same state under
    `<<"balance", address>>`, starting from `GenesisBalances`. Transfers are
    therefore reverted with the context that made them, as they are in the
    SDK.
  - Each context also buffers the runtime messages emitted in it (`msgs`),
    up to its message slots `maxMsgs`. A user transaction has `MaxMessages`
    slots. A child gets what its parent has left (`ChildMessageSlots`).
  - `txs` counts the finished transactions.
  - Ghost variables `nextCtx`, `discarded`, `burned` and `oogInTx` record
    context identifiers, the contexts that were reverted, all gas consumed in
    the transaction, and whether a sub-call ran out of gas.
  - **Actions.** `Upload`, `Instantiate`, `Call` and `Upgrade` each run one
    handler on the innermost context, whole: every guard and early return,
    every charge, the identifier assignment and stores, and the token
    transfer. `TransferTokens` is the loop over the attached amounts. Each
    amount is an `Accounts::transfer` (`Transfer`): debit the caller, then
    credit the instance, or fail with nothing written. The first failure
    stops the loop with the earlier transfers still in the context.
    For `Instantiate` and `Call` the action also covers the guest call and
    the guard part of `process_execution_result` (`ProcessExecutionResult`).
    `OtherMethod` stands for a method of another module. If the request
    says so, it emits a runtime message, and fails when the context has no
    slot left.
  - `DispatchMessage` is one iteration of the message loop up to
    `dispatch_tx_call`. It opens the child context.
  - `ChildReturn` is the rest of the iteration once the child has a result.
    That covers commit-or-revert and the parent charge. Then the runtime
    messages of a successful child are forwarded into the parent; the
    first one without a slot fails the parent, after the commit. Last come
    the reply filter, `handle_reply` and the recursive processing of its
    result.
  - `FinishFrame` returns `result_data` from an activation whose messages
    are done: either to the handler, or, overwriting when non-empty, to the
    activation that delivered the reply.
  - `StartTx` and `EndTx` are the outer dispatcher. A transaction is
    committed if it succeeded in `execute` mode and dropped otherwise.
  - **The guest.** Each entry point invocation (`InvokeGuest`) may run out of
    gas (using all of its limit), trap, or return any data from
    `DataValues`, any sequence of at most `MaxEmit` messages from `MsgPool`,
    and optionally write its own state key.
  - **Uploaded code.** A code blob is its size, whether validation accepts
    it, and its size after instrumentation. That is all the handlers read of
    `wasm::validate_and_transform`. Its output (`ValidateAndTransform`) is
    the instrumented code: that is what `tx_upload` hashes (`CodeHash`) and
    stores.
  - **Loads, stores and queries.** `LoadCodeInfo`, `LoadCode` and
    `LoadInstanceInfo` read through a view and fail with `CodeNotFound` or
    `InstanceNotFound`. `StoreCodeInfo`, `StoreCode` and `StoreInstanceInfo`
    write the current context's overlay. The handlers are built from them, as
    `lib.rs` is. `QueryCode`, `QueryInstance` and `DispatchQuery` are the
    read-only queries: `InstanceStorage`, `PublicKey` and `Custom` answer
    `Unsupported`.
* `ContractRegistry` is the abstract specification of what the module
  promises a reader of the committed state (spec sections 3 and 4.E):
  - identifiers are assigned 0, 1, 2, ... and never reused, and the entry
    at position i carries identifier i;
  - the hash recorded with code is the digest of the code stored with it
    (spec section 8);
  - registered code and instances are never changed or removed;
  - every instance belongs to registered code whose policy admits its
    creator.
  Its state is two sequences, `codes` and `instances`. Its one step,
  `Register`, appends to them.
* `Contracts` refines `ContractRegistry` (`RegistryRefined`). The mapping
  reads the registry the way a client does: through `DispatchQuery` on the
  committed store, for every identifier below the stored next identifier.
  Each code entry is paired with the code that `LoadCode` finds.
* `ContractStorage` models the guest storage imports of the contract SDK
  (`contract-sdk/src/storage.rs`): `Get`, `Insert` and `Remove`.
  - The host keeps one store per backed store kind. Spec section 3 says
    only `Public` is backed, so the runs use that kind alone.
  - The host's answer to `get` (`HostGetAnswers`) is modelled from spec
    section 4.B. For an absent key it is the region `(0,0)` and nothing
    written. Otherwise it is a region of the value's length, together with
    the guest memory the host copied the value into. The copy's offset is
    chosen by the guest's allocator, given as the constant `AllocOffsets`,
    because the allocator is not in the sources.
  - `Get` includes the SDK's `(0,0)` test (`IsNoneRegion`). It then reads the
    region's bytes out of guest memory (`IntoVec`, for `into_vec`). It does
    not read the host's store directly, so leaving out the test shows: an
    absent key would read as `[]`.
* `MCContracts` and `MCContractStorage` instantiate the models for TLC,
  with the request and message sets and the allocators of each run.

## Runs

| Run | cfg | Result | What it shows |
|---|---|---|---|
| core | `MCContracts.cfg` | pass (about 8,000 states) | The invariants below hold, and the committed state refines `ContractRegistry`. This holds with re-entrant calls, sub-call instantiation and calls to other modules nesting to the depth limit, and with tokens attached by the user and by a contract paying itself. |
| edge | `MCContracts_Edge.cfg` | pass (about 900 states) | Every early return of the handlers is reached in all three modes, and none of them takes or leaks an identifier. |
| messages | `MCContracts_Messages.cfg` | pass (about 22,800 states) | Runtime messages emitted two sub-calls deep, in a transaction with one slot: no message of a reverted sub-call, or of a grandchild it had committed, survives (`DiscardedEffectsInvisible`). At `max_subcall_depth = 2`, `CallDepthTracksNesting` and `GasAccounted` also hold for grandchildren. |
| replies | `MCContracts_Replies.cfg` | pass (about 860,000 states) | With gas for two delivered replies, or a reply to a reply, the reply-overwrites-data rule holds: a successful Call returns the last non-empty data any guest invocation in its context returned, in the order they ran (`ReplyDataOverwrites`). |
| oog_propagates | `MCContracts_OutOfGasPropagates.cfg` | violation | A sub-call's out-of-gas is recovered (finding 1). |
| activations_bounded | `MCContracts_ActivationsBounded.cfg` | violation | Reply chains nest deeper than the depth limit (finding 2). |
| storage | `MCContractStorage.cfg` | pass (128 states) | With an allocator that never returns offset 0, `get` returns exactly what was last stored under the key: an absent key does not read as `[]`, and a stored `[]` does not read as absent (`GetReturnsStored`). |
| storage_zero_offset | `MCContractStorage_ZeroOffset.cfg` | violation | If `allocate(0)` may return offset 0, a stored empty value reads back as absent (finding 3). |

Properties of the core run:

* `CallDepthTracksNesting`: every context's `CallDepth` equals its nesting
  level, and never exceeds `max_subcall_depth`.
* `GasAccounted`: all gas consumed anywhere in the tree of sub-calls,
  reverted ones included, is charged to the contexts still open, exactly
  once.
* `DiscardedEffectsInvisible`: no write and no runtime message of a
  reverted context, or of a context it had committed, is visible in the
  committed state, in any open overlay or in any open message buffer.
  Writes and messages reach the parent by separate paths in
  `subcalls.rs`, so both are checked.
* `IdentifiersContiguous`: in every context's view, the code and instance
  identifiers in use are exactly `0 .. next-1`. An identifier taken by a
  reverted `Upload` or `Instantiate` is given back, and none is reused.
* `InstancesRespectPolicy`: every instance was created by a caller the
  code's policy admits, also when the creator is a contract in a sub-call.
  Admission is stated independently of `Enforce`, by `Admits`, from spec
  section 3.
* `RegistryRefined`: the committed code and instance registry, as the
  queries report it, only grows by appending admissible entries. This
  catches, among others, a skipped or reused identifier that leaves a hole
  a query reports as `CodeNotFound`, and a committed entry that changes. It
  also catches a hash taken of the uploaded bytes rather than the
  instrumented ones. The core run uploads code that instrumentation grows,
  so the two differ.

No property is stated about the message slots. The child's limit is set
in `TxContext::with_tx`, which is not in the sources. The model takes it
from the comment at `subcalls.rs:146` as the parent's free slots
(`ChildMessageSlots`). Under that assumption, forwarding at line 147 cannot
fail, and a property would only restate the assumption. No property is
stated about balances either. The transfer itself (`Transfer`) is modelled
from the spec, and any balanced transfer conserves the supply. The token
loop under `src` (`TransferTokens`) can fail part-way, and
`DiscardedEffectsInvisible` checks that its partial transfers are reverted.

The replies run checks `ReplyDataOverwrites` with two messages per
activation and `DataValues = {Empty, "d", "e"}`. A delivered reply costs at
least 3 gas and the Call 1, so its limit of 8 pays for a successful Call with
two delivered replies, or with a reply to a reply. Witness invariants
confirmed both under this limit. With two distinct non-empty
values, a dispatcher where the first non-empty reply wins is told apart from
one where the last wins. The ghost field `lastData` of a context is the last
non-empty data a guest invocation in that context returned.

Every property of a passing run has a mutant in `PROJECT.json`. The mutant
is a plausible bug in the definition that models the code, and TLC finds the
property violated under it. Examples are a `>` for the `>=` of the depth
guard, an uncharged child, an always-committed child, a lost identifier
increment, an `Address` policy that admits anyone, an empty reply result
that overwrites the data, and an identifier advanced twice. The storage
property has two: a `get` that takes any zero-length region for "absent",
and one that drops the `(0,0)` test. Also a failed child's messages
forwarded, and a code hash taken before instrumentation.

## Findings

1. **Out-of-gas in a sub-call is recovered** (`subcalls.rs:119`). A child
   that runs out of gas is reverted like any failure. The parent may deliver
   an `OnError` reply and succeed. Spec section 7 says out-of-gas "always
   propagates to the outermost transaction".
2. **Reply recursion is not bounded by the depth limit**
   (`subcalls.rs:160-162`). `handle_reply`'s result is processed at the
   parent's depth. A contract whose reply emits another message, whose reply
   emits another, and so on, nests `process_execution_result` beyond
   `max_subcall_depth + 1` activations. Only gas bounds this, whereas the
   comment on `CONTEXT_KEY_DEPTH` says the depth limit is there to prevent a
   stack overflow.
3. **An empty stored value can read as absent** (`contract-sdk/src/storage.rs:24`,
   spec gap). `get` takes the region `(0,0)` to mean that the key is absent.
   For a stored empty value, the host returns a zero-length region at the
   offset that the guest's `allocate(0)` gives. Neither spec section 4.B nor
   any code in the repository requires that offset to be non-zero. If it is
   0, `get` returns `None` for a key that holds `[]`.

## Bounds

One user. Contracts call instance 0 (themselves) with an `Always` reply,
instantiate code 0 with tokens under an `OnError` reply with `max_gas` 3, and
call another module with an `OnSuccess` reply.

`max_subcall_depth = 1` and `max_subcall_count = 1`, and up to `MaxEmit = 2`
messages are emitted, so both guards fire. `TxGasLimit = 4` and
`subcall_dispatch = 1`. That is enough for a user call whose sub-call runs
the guest, emits, and is refused at depth, or runs out of gas mid-way.

`MaxTxs = 3` transactions allow upload, instantiate and call. With them, a
sub-call instantiation and an `Address(u1)` policy.

Witness invariants confirmed, under these bounds, each of the following:
- a `CallDepthExceeded` and a `TooManySubcalls` failure;
- a reply frame, and a nested context;
- a sub-call out-of-gas, and a reverted child with writes;
- a `Forbidden`;
- a nested instantiation.

Tokens: the user holds the whole supply of one token. The user's `Call`
attaches it. The contract's call to itself attaches one token, and its
sub-call instantiation attaches two, of which it can pay one: the token loop
then fails part-way inside a sub-call. The edge run instantiates with two
tokens from the user, for the same case at the top level.

Messages: `MaxMessages = 1`, `max_subcall_depth = 2` and a gas limit of 6.
A contract calls itself and a module that emits a message, and replies emit
again. Messages are then forwarded two levels up, and a second emission
finds no slot.

The storage runs use the `Public` store, two keys, and the values `[]`,
`[x]` and `[x, x]`. The empty value is the boundary the sentinel touches.
Two keys show that a write does not leak into another key.

The two `Contracts` violation runs use the same model. `activations_bounded` needs
`TxGasLimit = 7` for a reply chain of three activations.

## Fairness

No fairness is assumed, and no liveness property is checked. Execution is
single-threaded, and a transaction's gas is finite. So every transaction
ends whatever the code does, and a property saying so would show nothing.

The system stops after `MaxTxs` transactions, so the runs turn off deadlock
checking.

## Not modelled

* **Event tags** (`subcalls.rs:138-141`) are forwarded like runtime
  messages. Nothing limits them, and nothing in the module reads them, so no
  property could tell them apart. Their revert with a failed child is the
  same path as the messages' (`ForwardedMessages`).
* **`init_or_migrate`** only stores the genesis parameters, which the models
  take as constants; `migrate` supports no migration.
* **Guest storage inside `Contracts`** is one optional write of the
  instance's state key per invocation. The guest-side calls and the
  absent-key sentinel are checked separately in `ContractStorage`. The host
  side of the imports, with their gas charges, is in `wasm.rs`, which is not
  in the sources.
* **The accounts module** beyond `transfer` (fees, other denominations,
  queries, its own transactions) is not in the sources and is never reached
  from the contracts module.
* **The MKVS backend's `remove` and `iter`** are never called by the
  modelled handlers, and its `commit` is a no-op.
* **Out of reach.** WASM validation, instrumentation, metering and memory
  are instruction-level and beyond TLC. Their effects are kept as the blob's
  flags and the guest's nondeterministic outcomes. The end-to-end ABI tests
  exercise only that engine.
* **No fault model.** The module runs inside a single-threaded transaction
  executor. Nothing in it handles crashes, retries or lost messages: a
  transaction's effects reach the committed state in one step (`EndTx`), or
  not at all.
