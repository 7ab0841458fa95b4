---------------------------- MODULE MCContracts ----------------------------
(***************************************************************************)
(* Instances of the Contracts module for TLC: one user, one valid code    *)
(* blob, and contracts that call themselves, instantiate and call other   *)
(* modules, so that sub-calls nest to the depth limit, fail, revert and   *)
(* reply.                                                                   *)
(***************************************************************************)
EXTENDS Contracts, TLC

CONSTANTS u1

\* A code blob: its size, whether validation accepts it, and its size after
\* instrumentation.
GoodCode      == [size |-> 1, valid |-> TRUE,  instSize |-> 1]
InflatedCode  == [size |-> 1, valid |-> TRUE,  instSize |-> 3]
MalformedCode == [size |-> 1, valid |-> FALSE, instSize |-> 1]
HugeCode      == [size |-> 3, valid |-> TRUE,  instSize |-> 3]
GrownCode     == [size |-> 1, valid |-> TRUE,  instSize |-> 2]

UploadReq(code, policy) ==
    [method |-> "Upload", code |-> code, abi |-> "OasisV1", policy |-> policy]
InstantiateReq(cid, tokens) ==
    [method |-> "Instantiate", codeId |-> cid, upgrades |-> Everyone, tokens |-> tokens]
CallReq(id, tokens) == [method |-> "Call", id |-> id, tokens |-> tokens]
UpgradeReq == [method |-> "Upgrade"]
\* A method of another module; `emits`: it emits a runtime message.
OtherReq(emits) == [method |-> "Other", emits |-> emits]

Msg(reply, call, maxGas) == [reply |-> reply, call |-> call, maxGas |-> maxGas]

\* Core run: uploads under both kinds of permissive policy, one of them of
\* code that instrumentation grows, instantiation and calls by the user;
\* contracts re-enter themselves, instantiate the code and call another
\* module.
CoreRequests ==
    { UploadReq(GoodCode, Everyone), UploadReq(GrownCode, AddressPolicy(u1)),
      InstantiateReq(0, <<>>), CallReq(0, <<1>>) }

\* The contract's call to itself carries a token, which it pays to itself;
\* its instantiation attaches two, of which it can pay at most one.
CoreMessages ==
    { Msg("Always",  CallReq(0, <<1>>), None),
      Msg("OnError", InstantiateReq(0, <<1, 1>>), 3),
      Msg("OnSuccess", OtherReq(FALSE), None) }

\* The user holds the whole supply at genesis.
OneToken == u1 :> 1

\* Edge run: every early return of the handlers.
EdgeRequests ==
    { UploadReq(GoodCode, Everyone), UploadReq(InflatedCode, Nobody),
      UploadReq(MalformedCode, Everyone), UploadReq(HugeCode, Everyone),
      InstantiateReq(0, <<1, 1>>), InstantiateReq(1, <<>>),
      CallReq(0, <<1>>), CallReq(1, <<>>), UpgradeReq, OtherReq(FALSE) }

EdgeMessages ==
    { Msg("Never", CallReq(0, <<>>), 5), Msg("OnError", UpgradeReq, 1) }

MCDataValues == {Empty, "d"}

\* Replies run: a contract calls itself and another module several times,
\* each reply returning empty or one of two distinct non-empty values, so
\* that the order in which reply data overwrites is observable.
ReplyRequests ==
    { UploadReq(GoodCode, Everyone), InstantiateReq(0, <<>>), CallReq(0, <<>>) }

ReplyMessages ==
    { Msg("Always", CallReq(0, <<>>), None), Msg("OnSuccess", OtherReq(FALSE), None) }

ReplyDataValues == {Empty, "d", "e"}

\* Messages run: a contract calls itself and a module that emits a runtime
\* message, and the replies emit again, so that runtime messages are
\* forwarded through nested sub-calls into a context with one slot.
MessageRequests ==
    { UploadReq(GoodCode, Everyone), InstantiateReq(0, <<>>), CallReq(0, <<>>) }

MessageMessages ==
    { Msg("Always", CallReq(0, <<>>), None), Msg("Always", OtherReq(TRUE), None) }

NoTokens == u1 :> 0
=============================================================================
