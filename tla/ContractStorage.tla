-------------------------- MODULE ContractStorage --------------------------
(***************************************************************************)
(* The contract SDK's storage interface (contract-sdk/src/storage.rs): a  *)
(* contract's get, insert and remove, each one call of the host import of *)
(* the same name across the linear-memory boundary.                        *)
(*                                                                         *)
(* The host side is not in the repository's sources; it is modelled from  *)
(* spec.md section 4.B: the host keeps a key/value store per backed       *)
(* StoreKind (spec section 3: only Public is backed), and get answers     *)
(* with a region (offset, length) of the guest's memory into which it     *)
(* copied the value, or with (0, 0) when the key is absent.               *)
(* The region of a copy is obtained from the guest's allocator, whose    *)
(* choice of offset is not specified: it is a nondeterministic choice     *)
(* among AllocOffsets.                                                      *)
(***************************************************************************)
EXTENDS Naturals, Sequences

CONSTANTS
    StoreKinds,      \* StoreKind discriminants
    Keys,            \* keys a contract uses
    Values,          \* values (byte strings) a contract stores
    Absent,          \* a get that found nothing (None)
    AllocOffsets(_)  \* offsets the allocator may return for a length

ASSUME /\ Values \subseteq Seq({"x"})
       /\ Absent \notin Values

VARIABLES
    host,     \* host[s][k]: the value of key k in store s, Absent if none
    lastGet   \* the last get: its store, key and the value it returned

vars == <<host, lastGet>>

Region(offset, length) == [offset |-> offset, length |-> length]

(* The host's answer to storage_get: the region it returns and the guest *)
(* memory it wrote, a function from offsets to bytes. For an absent key   *)
(* that is (0, 0) and nothing written; else a fresh region of the value's *)
(* length into which the value is copied.                                  *)
HostGetAnswers(s, k) ==
    LET v == host[s][k] IN
    IF v = Absent THEN {[region |-> Region(0, 0), mem |-> <<>>]}
    ELSE {[region |-> Region(o, Len(v)),
           mem |-> [a \in o..(o + Len(v) - 1) |-> v[a - o + 1]]] :
              o \in AllocOffsets(Len(v))}

(* HostRegion::into_vec: the length bytes of guest memory at offset.     *)
IntoVec(r, mem) == [i \in 1..r.length |-> mem[r.offset + i - 1]]

(* Mutant: the sentinel test is left out.                                   *)
IsNoneRegion_Dropped(r) == FALSE

(* Mutant: a region of length zero is taken for "absent".                  *)
IsNoneRegion_ZeroLength(r) == r.length = 0

(* get: the special value (0, 0) is treated as if the key did not exist.  *)
IsNoneRegion(r) == r.offset = 0 /\ r.length = 0

(* get(store, key): call the import, then either None or the bytes of the *)
(* returned region (into_vec takes ownership of the host's copy).          *)
Get(s, k) ==
    \E ans \in HostGetAnswers(s, k) :
        /\ lastGet' = [store |-> s, key |-> k,
                       got |-> IF IsNoneRegion(ans.region) THEN Absent
                               ELSE IntoVec(ans.region, ans.mem)]
        /\ UNCHANGED host

(* insert(store, key, value): the host stores a copy under the store kind. *)
Insert(s, k, v) ==
    /\ host' = [host EXCEPT ![s][k] = v]
    /\ UNCHANGED lastGet

(* remove(store, key).                                                     *)
Remove(s, k) ==
    /\ host' = [host EXCEPT ![s][k] = Absent]
    /\ UNCHANGED lastGet

Init ==
    /\ host = [s \in StoreKinds |-> [k \in Keys |-> Absent]]
    /\ lastGet = [store |-> CHOOSE s \in StoreKinds : TRUE,
                  key |-> CHOOSE k \in Keys : TRUE, got |-> Absent]

Next ==
    \E s \in StoreKinds, k \in Keys :
        \/ Get(s, k)
        \/ \E v \in Values : Insert(s, k, v)
        \/ Remove(s, k)

Spec == Init /\ [][Next]_vars

-----------------------------------------------------------------------------
TypeOK ==
    /\ host \in [StoreKinds -> [Keys -> Values \cup {Absent}]]
    /\ lastGet.store \in StoreKinds /\ lastGet.key \in Keys
    /\ lastGet.got \in Seq({"x"}) \cup {Absent}

(* A get returns what the last insert into the same store kind under the  *)
(* same key stored, and None if there was none or it was removed since    *)
(* (spec section 4.B: "returns (0,0) for absent"): an absent key is not   *)
(* read as an empty value, and a stored empty value is not mistaken for  *)
(* an absent key. Both depend on the sentinel test of storage.rs:24 and   *)
(* on where the guest's allocator places the host's copies.               *)
GetReturnsStored ==
    [][\A s \in StoreKinds, k \in Keys :
          Get(s, k) => lastGet'.got = host[s][k]]_vars
=============================================================================
