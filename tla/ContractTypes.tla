---------------------------- MODULE ContractTypes ----------------------------
(***************************************************************************)
(* Pure definitions of the contracts module's types: access policies      *)
(* (types.rs), instance addresses (types.rs), the reply filter and call   *)
(* results of contract messages (contract-sdk types, message.rs).         *)
(***************************************************************************)
EXTENDS Naturals

(* Policy (types.rs): Nobody | Address(addr) | Everyone.                   *)
Nobody          == [kind |-> "nobody"]
Everyone        == [kind |-> "any"]
AddressPolicy(a) == [kind |-> "address", addr |-> a]

(* Mutant: an Address policy admits any caller.                           *)
Enforce_AnyAddress(policy, caller) == policy.kind \in {"any", "address"}

(* Policy::enforce: TRUE iff the policy lets `caller` perform the action.  *)
(* Nobody always rejects, Address(a) accepts only the caller a, Everyone   *)
(* always accepts.                                                         *)
Enforce(policy, caller) ==
    \/ policy.kind = "any"
    \/ policy.kind = "address" /\ policy.addr = caller

(* Instance::address_for: the address is derived from the module name and  *)
(* the instance id only, so distinct ids give distinct addresses.          *)
AddressFor(id) == <<"contracts", id>>

(* ABI (types.rs): the ABI exposed to a contract; OasisV1 is the only one.*)
ABIs == {"OasisV1"}

(* Hash::digest_bytes (oasis-core, not in the sources): a collision-free  *)
(* digest, so equal digests mean equal bytes.                              *)
Digest(bytes) == <<"digest", bytes>>

(* Code (types.rs): the stored information about uploaded code.           *)
CodeInfo(id, hash, abi, policy) ==
    [id |-> id, hash |-> hash, abi |-> abi, policy |-> policy]

(* Instance (types.rs): a deployed instance of some code.                  *)
InstanceInfo(id, codeId, creator, upgrades) ==
    [id |-> id, code |-> codeId, creator |-> creator, upgrades |-> upgrades]

(* NotifyReply (message.rs).                                               *)
NotifyReply == {"Never", "OnError", "OnSuccess", "Always"}

(* The reply filter of process_execution_result: a reply is delivered for  *)
(* (OnError, failure), (OnSuccess, success) and (Always, _).               *)
DeliverReply(reply, success) ==
    \/ reply = "OnError" /\ ~success
    \/ reply = "OnSuccess" /\ success
    \/ reply = "Always"

(* CallResult::is_success (message.rs): Ok(_) is success, Failed is not.   *)
IsSuccess(result) == result.ok
=============================================================================
