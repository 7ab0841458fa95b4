------------------------- MODULE MCContractStorage -------------------------
(***************************************************************************)
(* Instances of ContractStorage for TLC: the backed store kind, two keys, *)
(* values of length 0, 1 and 2, and two allocators.                        *)
(***************************************************************************)
EXTENDS ContractStorage

MCValues == {<<>>, <<"x">>, <<"x", "x">>}

\* An allocator that never hands out offset 0.
NonZeroAlloc(n) == {8}

\* An allocator that may place a zero-length allocation at offset 0, as a
\* bump allocator at the start of the heap, or one returning a null
\* pointer for an empty request, would.
ZeroLengthAtZeroAlloc(n) == IF n = 0 THEN {0, 8} ELSE {8}
=============================================================================
