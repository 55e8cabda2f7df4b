-------------------------------- MODULE KVBlocks --------------------------------
(***************************************************************************)
(* What the KV cache block pool promises its callers: which request owns   *)
(* which block.  Blocks are reference counted; a block is on the free list *)
(* exactly when nobody owns it; a block on the free list may still be in   *)
(* the prefix cache until it is handed out again.  The order of the free   *)
(* list, the hashes and the block tables of the requests are left to       *)
(* KVCache, which implements this module.                                  *)
(***************************************************************************)
EXTENDS Integers, FiniteSets

CONSTANTS Blocks,     \* block ids, without the null block
          Requests    \* request ids

VARIABLES ref_cnt,    \* [Blocks -> Nat]
          free,       \* blocks in free_block_queue
          owned,      \* req_to_blocks, without the order
          cached      \* blocks with a block hash

vars == <<ref_cnt, free, owned, cached>>

Init ==
    /\ ref_cnt = [b \in Blocks |-> 0]
    /\ free = Blocks
    /\ owned = [r \in Requests |-> {}]
    /\ cached = {}

Touched(ref, S) == [b \in Blocks |-> IF b \in S THEN ref[b] + 1 ELSE ref[b]]

Untouched(ref, S) == [b \in Blocks |-> IF b \in S THEN ref[b] - 1 ELSE ref[b]]

\* A request takes cached blocks it hit and new blocks from the free list,
\* which are evicted from the prefix cache; it may then cache blocks it owns.
Allocate(r, hit, new) ==
    /\ hit \subseteq cached \ owned[r]
    /\ new \subseteq free \ hit
    /\ free' = free \ (hit \cup new)
    /\ ref_cnt' = Touched(ref_cnt, hit \cup new)
    /\ owned' = [owned EXCEPT ![r] = @ \cup hit \cup new]
    /\ \E C \in SUBSET owned'[r] : cached' = (cached \ new) \cup C

\* Blocks become cached when the tokens they hold are final.
CacheBlocks(r) ==
    /\ UNCHANGED <<ref_cnt, free, owned>>
    /\ \E C \in SUBSET owned[r] : cached' = cached \cup C

\* free: the blocks nobody else references return to the free list.
Free(r) ==
    /\ ref_cnt' = Untouched(ref_cnt, owned[r])
    /\ free' = free \cup {b \in owned[r] : ref_cnt[b] = 1}
    /\ owned' = [owned EXCEPT ![r] = {}]
    /\ UNCHANGED cached

\* The request drops its blocks and shares the blocks S of a snapshot.
Alias(r, S) ==
    /\ free' = (free \cup {b \in owned[r] : ref_cnt[b] = 1}) \ S
    /\ ref_cnt' = Touched(Untouched(ref_cnt, owned[r]), S)
    /\ owned' = [owned EXCEPT ![r] = S]
    /\ UNCHANGED cached

Evict(S) ==
    /\ UNCHANGED <<ref_cnt, free, owned>>
    /\ cached' = cached \ S

ResetPrefixCache ==
    /\ free = Blocks
    /\ cached' = {}
    /\ UNCHANGED <<ref_cnt, free, owned>>

Next ==
    \/ \E r \in Requests : CacheBlocks(r)
    \/ \E r \in Requests : Free(r)
    \/ \E r \in Requests : \E hit \in SUBSET cached, new \in SUBSET free : Allocate(r, hit, new)
    \/ \E S \in SUBSET cached : Evict(S)
    \/ ResetPrefixCache
    \/ \E r \in Requests, S \in SUBSET Blocks : Alias(r, S)

Spec == Init /\ [][Next]_vars

-----------------------------------------------------------------------------
Owners(b) == {r \in Requests : b \in owned[r]}

\* The fields of the block pool keep their types.
TypeOK ==
    /\ ref_cnt \in [Blocks -> Nat]
    /\ free \subseteq Blocks
    /\ owned \in [Requests -> SUBSET Blocks]
    /\ cached \subseteq Blocks

\* ref_cnt of a block is the number of requests whose block table holds it:
\* whatever order requests share, alias and drop blocks in, no owner is lost
\* or counted twice.
RefCountIsOwners == \A b \in Blocks : ref_cnt[b] = Cardinality(Owners(b))

\* A block can be handed out again exactly when no request owns it.
FreeIffUnowned == \A b \in Blocks : b \in free <=> Owners(b) = {}
=============================================================================
