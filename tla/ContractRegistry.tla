-------------------------- MODULE ContractRegistry --------------------------
(***************************************************************************)
(* What the contracts module promises about the code and instances it has *)
(* registered, as a reader of the committed state (the Code and Instance  *)
(* queries) sees them.  From spec.md sections 3 and 4.E:                   *)
(*  - code and instance identifiers are assigned 0, 1, 2, ... and never    *)
(*    reused: the registry only grows, by appending, and the entry at     *)
(*    position i carries identifier i;                                    *)
(*  - the hash recorded with code is the digest of the code stored, the   *)
(*    instrumented bytes (section 8);                                     *)
(*  - Code is immutable after upload, and an instance is never destroyed  *)
(*    nor changed (upgrade is unsupported);                               *)
(*  - every instance belongs to registered code whose instantiate policy  *)
(*    admits the instance's creator.                                      *)
(* One step may register several codes and instances at once: that is a  *)
(* transaction whose sub-calls uploaded or instantiated, committed        *)
(* together.                                                                *)
(***************************************************************************)
EXTENDS Naturals, Sequences, SequencesExt, ContractTypes

VARIABLES
    codes,      \* codes[i + 1]: the information and the code of code id i
    instances   \* instances[i + 1] is the information of instance id i

regVars == <<codes, instances>>

(* The three shapes of Policy: Nobody, Address(a), Everyone.               *)
IsPolicy(p) ==
    /\ "kind" \in DOMAIN p
    /\ p.kind \in {"nobody", "address", "any"}

(* Policy enforcement as spec section 3 states it.                          *)
Admitted(policy, caller) ==
    CASE policy.kind = "nobody"  -> FALSE
      [] policy.kind = "address" -> policy.addr = caller
      [] policy.kind = "any"     -> TRUE

(* Registered code `x` of identifier `id`: its information names the id,  *)
(* an ABI, a policy, and the digest of the code registered with it.       *)
IsCodeEntry(x, id) ==
    /\ DOMAIN x.info = {"id", "hash", "abi", "policy"}
    /\ x.info.id = id
    /\ x.info.abi \in ABIs
    /\ IsPolicy(x.info.policy)
    /\ x.info.hash = Digest(x.code)

IsInstanceInfo(x, id) ==
    /\ DOMAIN x = {"id", "code", "creator", "upgrades"}
    /\ x.id = id
    /\ x.code \in Nat
    /\ IsPolicy(x.upgrades)

(* An instance of identifier `id` that may be registered next to the code *)
(* `cs`.                                                                    *)
AdmissibleInstance(x, id, cs) ==
    /\ IsInstanceInfo(x, id)
    /\ x.code < Len(cs)
    /\ Admitted(cs[x.code + 1].info.policy, x.creator)

Init == codes = <<>> /\ instances = <<>>

(* A committed transaction appends code and instances, and changes no     *)
(* entry already registered.                                               *)
Register ==
    /\ IsPrefix(codes, codes')
    /\ IsPrefix(instances, instances')
    /\ \A i \in (Len(codes) + 1)..Len(codes') : IsCodeEntry(codes'[i], i - 1)
    /\ \A i \in (Len(instances) + 1)..Len(instances') :
          AdmissibleInstance(instances'[i], i - 1, codes')

Spec == Init /\ [][Register]_regVars
=============================================================================
