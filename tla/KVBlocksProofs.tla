------------------------------ MODULE KVBlocksProofs ------------------------------
(***************************************************************************)
(* Proofs about KVBlocks, for any number of blocks and of requests: the    *)
(* reference counts are the numbers of owners and the free list is the set *)
(* of blocks without one.                                                  *)
(***************************************************************************)
EXTENDS KVBlocks, FiniteSetTheorems, TLAPS

\* The inductive invariant: counts, owners and the free list describe the same
\* ownership.
Inv == TypeOK /\ RefCountIsOwners /\ free = {b \in Blocks : ref_cnt[b] = 0}

OwnersIn(own, b) == {r \in Requests : b \in own[r]}

\* When only the blocks of request r change, the number of owners of a block
\* changes by what r gains or loses.
LEMMA OwnersAfterChange ==
    ASSUME IsFiniteSet(Requests),
           NEW own \in [Requests -> SUBSET Blocks],
           NEW own2 \in [Requests -> SUBSET Blocks],
           NEW r \in Requests, \A q \in Requests \ {r} : own2[q] = own[q],
           NEW b \in Blocks
    PROVE  /\ b \in own2[r] /\ b \notin own[r] =>
                Cardinality(OwnersIn(own2, b)) = Cardinality(OwnersIn(own, b)) + 1
           /\ b \notin own2[r] /\ b \in own[r] =>
                Cardinality(OwnersIn(own2, b)) = Cardinality(OwnersIn(own, b)) - 1
           /\ (b \in own2[r] <=> b \in own[r]) =>
                Cardinality(OwnersIn(own2, b)) = Cardinality(OwnersIn(own, b))
<1>1. IsFiniteSet(OwnersIn(own, b))
  BY FS_Subset DEF OwnersIn
<1>2. ASSUME b \in own2[r], b \notin own[r]
      PROVE  Cardinality(OwnersIn(own2, b)) = Cardinality(OwnersIn(own, b)) + 1
  <2>1. OwnersIn(own2, b) = OwnersIn(own, b) \cup {r} /\ r \notin OwnersIn(own, b)
    BY <1>2 DEF OwnersIn
  <2> QED
    BY <1>1, <2>1, FS_AddElement
<1>3. ASSUME b \notin own2[r], b \in own[r]
      PROVE  Cardinality(OwnersIn(own2, b)) = Cardinality(OwnersIn(own, b)) - 1
  <2>1. OwnersIn(own2, b) = OwnersIn(own, b) \ {r} /\ r \in OwnersIn(own, b)
    BY <1>3 DEF OwnersIn
  <2>2. Cardinality(OwnersIn(own, b) \ {r})
          = IF r \in OwnersIn(own, b) THEN Cardinality(OwnersIn(own, b)) - 1
                                       ELSE Cardinality(OwnersIn(own, b))
    BY <1>1, FS_RemoveElement, Zenon
  <2> QED
    BY <2>1, <2>2
<1>4. ASSUME b \in own2[r] <=> b \in own[r]
      PROVE  OwnersIn(own2, b) = OwnersIn(own, b)
  BY <1>4 DEF OwnersIn
<1> QED
  BY <1>2, <1>3, <1>4

\* In a state that satisfies the invariant an owned block is referenced.
LEMMA OwnedIsReferenced ==
    ASSUME IsFiniteSet(Requests),
           Inv, NEW r \in Requests, NEW b \in owned[r]
    PROVE  b \in Blocks /\ ref_cnt[b] \in Nat /\ ref_cnt[b] > 0 /\ b \notin free
<1>1. b \in Blocks /\ r \in Owners(b)
  BY DEF Inv, TypeOK, Owners
<1>2. IsFiniteSet(Owners(b))
  BY FS_Subset DEF Owners
<1>3. Cardinality(Owners(b)) \in Nat /\ Cardinality(Owners(b)) # 0
  BY <1>1, <1>2, FS_CardinalityType, FS_EmptySet
<1> QED
  BY <1>1, <1>3 DEF Inv, RefCountIsOwners

\* A new block pool satisfies the invariant.
LEMMA InitInv == Init => Inv
<1> SUFFICES ASSUME Init PROVE Inv
  OBVIOUS
<1>1. \A b \in Blocks : Owners(b) = {}
  BY DEF Init, Owners
<1> QED
  BY <1>1, FS_EmptySet DEF Init, Inv, TypeOK, RefCountIsOwners

\* allocate_slots preserves the invariant: hits and new blocks gain one owner.
LEMMA AllocatePreservesInv ==
    ASSUME IsFiniteSet(Requests),
           Inv, NEW r \in Requests, NEW hit \in SUBSET Blocks,
           NEW new \in SUBSET Blocks, Allocate(r, hit, new)
    PROVE  Inv'
<1> DEFINE S == owned[r] \cup hit \cup new
<1>1. owned \in [Requests -> SUBSET Blocks] /\ ref_cnt \in [Blocks -> Nat]
  BY DEF Inv, TypeOK
<1>2. (hit \cup new) \cap owned[r] = {}
  BY OwnedIsReferenced DEF Allocate
<1>3. owned' = [owned EXCEPT ![r] = S] /\ S \in SUBSET Blocks
  BY <1>1 DEF Allocate
<1>4. ref_cnt' = [b \in Blocks |-> IF b \in hit \cup new THEN ref_cnt[b] + 1 ELSE ref_cnt[b]]
  BY DEF Allocate, Touched
<1>5. TypeOK'
  <2>1. ref_cnt' \in [Blocks -> Nat]
    BY <1>1, <1>4
  <2>2. owned' \in [Requests -> SUBSET Blocks] /\ owned'[r] \subseteq Blocks
    BY <1>1, <1>3
  <2>3. free' \subseteq Blocks /\ cached' \subseteq Blocks
    BY <2>2 DEF Inv, TypeOK, Allocate
  <2> QED
    BY <2>1, <2>2, <2>3 DEF TypeOK
<1>6. owned' \in [Requests -> SUBSET Blocks] /\ owned'[r] = S
        /\ \A q \in Requests \ {r} : owned'[q] = owned[q]
  BY <1>1, <1>3
<1>7. RefCountIsOwners'
  <2> SUFFICES ASSUME NEW b \in Blocks
               PROVE  ref_cnt'[b] = Cardinality(OwnersIn(owned', b))
    BY DEF RefCountIsOwners, Owners, OwnersIn
  <2>1. ref_cnt[b] = Cardinality(OwnersIn(owned, b))
    BY DEF Inv, RefCountIsOwners, Owners, OwnersIn
  <2>2. b \in hit \cup new => ref_cnt'[b] = ref_cnt[b] + 1 /\ b \in owned'[r] /\ b \notin owned[r]
    BY <1>2, <1>4, <1>6
  <2>3. b \notin hit \cup new => ref_cnt'[b] = ref_cnt[b] /\ (b \in owned'[r] <=> b \in owned[r])
    BY <1>4, <1>6
  <2>4. /\ b \in owned'[r] /\ b \notin owned[r] =>
              Cardinality(OwnersIn(owned', b)) = Cardinality(OwnersIn(owned, b)) + 1
        /\ (b \in owned'[r] <=> b \in owned[r]) =>
              Cardinality(OwnersIn(owned', b)) = Cardinality(OwnersIn(owned, b))
    BY <1>1, <1>6, OwnersAfterChange
  <2> QED
    BY <2>1, <2>2, <2>3, <2>4
<1>8. free' = {b \in Blocks : ref_cnt'[b] = 0}
  <2> SUFFICES ASSUME NEW b \in Blocks
               PROVE  b \in free' <=> ref_cnt'[b] = 0
    BY <1>5 DEF TypeOK
  <2>1. b \in free <=> ref_cnt[b] = 0
    BY DEF Inv
  <2>2. free' = free \ (hit \cup new)
    BY DEF Allocate
  <2> QED
    BY <1>1, <1>4, <2>1, <2>2
<1> QED
  BY <1>5, <1>7, <1>8 DEF Inv

\* alias_request_blocks_from_snapshot preserves the invariant, whatever blocks
\* the snapshot names; free is the case of an empty snapshot.
LEMMA ReplacePreservesInv ==
    ASSUME IsFiniteSet(Requests),
           Inv, NEW r \in Requests, NEW S \in SUBSET Blocks,
           ref_cnt' = Touched(Untouched(ref_cnt, owned[r]), S),
           free' = (free \cup {b \in owned[r] : ref_cnt[b] = 1}) \ S,
           owned' \in [Requests -> SUBSET Blocks], owned'[r] = S,
           \A q \in Requests \ {r} : owned'[q] = owned[q],
           cached' = cached
    PROVE  Inv'
<1>1. owned \in [Requests -> SUBSET Blocks] /\ ref_cnt \in [Blocks -> Nat]
  BY DEF Inv, TypeOK
<1>2. \A b \in owned[r] : b \in Blocks /\ ref_cnt[b] \in Nat /\ ref_cnt[b] > 0
  BY OwnedIsReferenced
<1>3. ASSUME NEW b \in Blocks
      PROVE  /\ b \in S /\ b \notin owned[r] => ref_cnt'[b] = ref_cnt[b] + 1
             /\ b \notin S /\ b \in owned[r] => ref_cnt'[b] = ref_cnt[b] - 1
             /\ (b \in S <=> b \in owned[r]) => ref_cnt'[b] = ref_cnt[b]
  BY <1>1 DEF Touched, Untouched
<1>4. ref_cnt' \in [Blocks -> Nat]
  <2>1. \A b \in Blocks : ref_cnt'[b] \in Nat
    BY <1>1, <1>2, <1>3
  <2>2. ref_cnt' = [b \in Blocks |-> ref_cnt'[b]]
    BY DEF Touched
  <2> QED
    BY <2>1, <2>2
<1>5. TypeOK'
  BY <1>1, <1>4 DEF Inv, TypeOK
<1>6. RefCountIsOwners'
  <2> SUFFICES ASSUME NEW b \in Blocks
               PROVE  ref_cnt'[b] = Cardinality(OwnersIn(owned', b))
    BY DEF RefCountIsOwners, Owners, OwnersIn
  <2>1. ref_cnt[b] = Cardinality(OwnersIn(owned, b))
    BY DEF Inv, RefCountIsOwners, Owners, OwnersIn
  <2>2. /\ b \in owned'[r] /\ b \notin owned[r] =>
              Cardinality(OwnersIn(owned', b)) = Cardinality(OwnersIn(owned, b)) + 1
        /\ b \notin owned'[r] /\ b \in owned[r] =>
              Cardinality(OwnersIn(owned', b)) = Cardinality(OwnersIn(owned, b)) - 1
        /\ (b \in owned'[r] <=> b \in owned[r]) =>
              Cardinality(OwnersIn(owned', b)) = Cardinality(OwnersIn(owned, b))
    BY <1>1, OwnersAfterChange
  <2> QED
    BY <1>3, <2>1, <2>2
<1>7. free' = {b \in Blocks : ref_cnt'[b] = 0}
  <2> SUFFICES ASSUME NEW b \in Blocks
               PROVE  b \in free' <=> ref_cnt'[b] = 0
    BY <1>5 DEF TypeOK
  <2>1. b \in free <=> ref_cnt[b] = 0
    BY DEF Inv
  <2> QED
    BY <1>1, <1>2, <1>3, <2>1
<1> QED
  BY <1>5, <1>6, <1>7 DEF Inv

\* Caching, evicting and resetting touch neither counts nor owners.
LEMMA CachePreservesInv ==
    ASSUME Inv, UNCHANGED <<ref_cnt, free, owned>>, cached' \subseteq Blocks
    PROVE  Inv'
BY DEF Inv, TypeOK, RefCountIsOwners, Owners

\* Every step of the pool preserves the invariant.
LEMMA NextPreservesInv ==
    ASSUME IsFiniteSet(Requests),
           Inv, [Next]_vars
    PROVE  Inv'
<1>1. ASSUME NEW r \in Requests, NEW hit \in SUBSET Blocks, NEW new \in SUBSET Blocks,
             Allocate(r, hit, new)
      PROVE  Inv'
  BY <1>1, AllocatePreservesInv
<1>2. ASSUME NEW r \in Requests, CacheBlocks(r) PROVE Inv'
  BY <1>2, CachePreservesInv DEF CacheBlocks, Inv, TypeOK
<1>3. ASSUME NEW r \in Requests, Free(r) PROVE Inv'
  <2>1. ref_cnt' = Touched(Untouched(ref_cnt, owned[r]), {})
    BY <1>3 DEF Free, Touched, Untouched
  <2>2. free' = (free \cup {b \in owned[r] : ref_cnt[b] = 1}) \ {}
    BY <1>3 DEF Free
  <2>3. /\ owned' \in [Requests -> SUBSET Blocks] /\ owned'[r] = {}
        /\ \A q \in Requests \ {r} : owned'[q] = owned[q]
        /\ cached' = cached
    BY <1>3 DEF Free, Inv, TypeOK
  <2> QED
    BY <2>1, <2>2, <2>3, ReplacePreservesInv
<1>4. ASSUME NEW r \in Requests, NEW S \in SUBSET Blocks, Alias(r, S) PROVE Inv'
  <2>1. /\ owned' \in [Requests -> SUBSET Blocks] /\ owned'[r] = S
        /\ \A q \in Requests \ {r} : owned'[q] = owned[q]
    BY <1>4 DEF Alias, Inv, TypeOK
  <2> QED
    BY <1>4, <2>1, ReplacePreservesInv DEF Alias
<1>5. ASSUME NEW S \in SUBSET Blocks, Evict(S) PROVE Inv'
  BY <1>5, CachePreservesInv DEF Evict, Inv, TypeOK
<1>6. CASE ResetPrefixCache
  BY <1>6, CachePreservesInv DEF ResetPrefixCache
<1>7. CASE UNCHANGED vars
  BY <1>7, CachePreservesInv DEF vars, Inv, TypeOK
<1>8. cached \subseteq Blocks /\ free \subseteq Blocks
  BY DEF Inv, TypeOK
<1> QED
  BY <1>1, <1>2, <1>3, <1>4, <1>5, <1>6, <1>7, <1>8 DEF Next

\* The invariant holds in every reachable state of the block pool.
THEOREM Invariance ==
    ASSUME IsFiniteSet(Requests)
    PROVE  Spec => []Inv
<1>1. Init => Inv
  BY InitInv
<1>2. Inv /\ [Next]_vars => Inv'
  BY NextPreservesInv
<1> QED
  BY <1>1, <1>2, PTL DEF Spec

\* The pool's fields keep their types; in particular no count goes negative.
THEOREM TypeCorrect ==
    ASSUME IsFiniteSet(Requests)
    PROVE  Spec => []TypeOK
<1>1. Inv => TypeOK
  BY DEF Inv
<1> QED
  BY <1>1, Invariance, PTL

\* ref_cnt of a block is the number of requests that own it, for any number of
\* blocks and requests and any interleaving of their calls.
THEOREM RefCountsCorrect ==
    ASSUME IsFiniteSet(Requests)
    PROVE  Spec => []RefCountIsOwners
<1>1. Inv => RefCountIsOwners
  BY DEF Inv
<1> QED
  BY <1>1, Invariance, PTL

\* The free list never offers a block that some request still owns, and never
\* loses one that nobody owns.
THEOREM FreeListCorrect ==
    ASSUME IsFiniteSet(Requests)
    PROVE  Spec => []FreeIffUnowned
<1>1. Inv => FreeIffUnowned
  <2> SUFFICES ASSUME Inv, NEW b \in Blocks
               PROVE  b \in free <=> Owners(b) = {}
    BY DEF FreeIffUnowned
  <2>1. IsFiniteSet(Owners(b))
    BY FS_Subset DEF Owners
  <2>2. Cardinality(Owners(b)) = 0 <=> Owners(b) = {}
    BY <2>1, FS_EmptySet
  <2> QED
    BY <2>2 DEF Inv, RefCountIsOwners
<1> QED
  BY <1>1, Invariance, PTL
=============================================================================
