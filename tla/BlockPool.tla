-------------------------------- MODULE BlockPool --------------------------------
(***************************************************************************)
(* The block pool (vllm/v1/core/block_pool.py) and its free queue, as      *)
(* operators on a record:                                                  *)
(*   ref_cnt  reference count of each block;                               *)
(*   hash     block_hash of each block, NoHash for None;                   *)
(*   free     free_block_queue, the next block to hand out first;          *)
(*   cached   cached_block_hash_to_block: its entries, oldest first;       *)
(*   ok       FALSE once cache_full_blocks' assertion has failed.          *)
(* The null block is not in the pool: with full attention no block table   *)
(* holds it.  The hash of a block chains the hashes of the blocks before   *)
(* it, so it stands for the tokens from the start of the sequence to the   *)
(* end of the block; it is modelled by those tokens.                       *)
(***************************************************************************)
EXTENDS Integers, Sequences, SequencesExt

CONSTANTS NumBlocks,   \* num_gpu_blocks without the null block
          BlockSize    \* tokens in a block

ASSUME BlockPoolAssumption == NumBlocks \in Nat \ {0} /\ BlockSize \in Nat \ {0}

Blocks == 1 .. NumBlocks

NoHash == <<>>

NewPool ==
    [ref_cnt |-> [b \in Blocks |-> 0],
     hash    |-> [b \in Blocks |-> NoHash],
     free    |-> [i \in 1 .. NumBlocks |-> i],
     cached  |-> <<>>,
     ok      |-> TRUE]

NumFreeBlocks(p) == Len(p.free)

-----------------------------------------------------------------------------
(* The prefix cache.                                                        *)

EntriesOf(p, h) == {k \in DOMAIN p.cached : p.cached[k].hash = h}

HasCachedBlock(p, h) == EntriesOf(p, h) # {}

\* get_one_block: among duplicates, the block inserted first.
GetCachedBlock(p, h) ==
    p.cached[CHOOSE k \in EntriesOf(p, h) : \A j \in EntriesOf(p, h) : k <= j].block

\* Mutant: the block leaves the hash map but keeps its hash.
MutKeepHash(p, S) ==
    LET evicted == {b \in S : p.hash[b] # NoHash
                              /\ \E k \in EntriesOf(p, p.hash[b]) : p.cached[k].block = b}
    IN  [p EXCEPT !.cached = SelectSeq(@, LAMBDA e : e.block \notin evicted)]

\* _maybe_evict_cached_block on every block of S.
MaybeEvictCachedBlocks(p, S) ==
    LET evicted == {b \in S : p.hash[b] # NoHash
                              /\ \E k \in EntriesOf(p, p.hash[b]) : p.cached[k].block = b}
    IN  [p EXCEPT !.hash = [b \in Blocks |-> IF b \in evicted THEN NoHash ELSE @[b]],
                  !.cached = SelectSeq(@, LAMBDA e : e.block \notin evicted)]

\* blocks[first .. last] hold the tokens of a request; hashes are prefixes.
CacheFullBlocks(p, tokens, blocks, first, last) ==
    LET HashAt(i) == SubSeq(tokens, 1, i * BlockSize)
        index     == [b \in {blocks[i] : i \in first .. last} |->
                         CHOOSE i \in first .. last : blocks[i] = b]
    IN  IF \E i \in first .. last : p.hash[blocks[i]] # NoHash
        THEN [p EXCEPT !.ok = FALSE]
        ELSE [p EXCEPT
                !.hash = [b \in Blocks |->
                             IF b \in DOMAIN index THEN HashAt(index[b]) ELSE @[b]],
                !.cached = @ \o [k \in 1 .. last - first + 1 |->
                                    [hash  |-> HashAt(first + k - 1),
                                     block |-> blocks[first + k - 1]]]]

-----------------------------------------------------------------------------
(* Allocation.                                                              *)

\* get_new_blocks: the first n blocks of the queue, for callers that checked
\* that there are n.
NewBlocks(p, n) == SubSeq(p.free, 1, n)

GetNewBlocks(p, n) ==
    LET taken == Range(NewBlocks(p, n))
        q     == MaybeEvictCachedBlocks(p, taken)
    IN  [q EXCEPT !.free = SubSeq(@, n + 1, Len(@)),
                  !.ref_cnt = [b \in Blocks |-> IF b \in taken THEN @[b] + 1 ELSE @[b]]]

\* Mutant: a block that is touched stays in the free queue.
MutTouchKeepsFree(p, blocks) ==
    [p EXCEPT !.ref_cnt = [b \in Blocks |-> IF b \in Range(blocks) THEN @[b] + 1 ELSE @[b]]]

Touch(p, blocks) ==
    [p EXCEPT !.free = SelectSeq(@, LAMBDA b : b \notin Range(blocks)),
              !.ref_cnt = [b \in Blocks |-> IF b \in Range(blocks) THEN @[b] + 1 ELSE @[b]]]

\* Mutant: a shared block is freed by its first owner.
MutFreeShared(p, ordered_blocks) ==
    [p EXCEPT !.ref_cnt = [b \in Blocks |->
                              IF b \in Range(ordered_blocks) THEN @[b] - 1 ELSE @[b]],
              !.free = @ \o ordered_blocks]

FreeBlocks(p, ordered_blocks) ==
    LET ref == [b \in Blocks |-> IF b \in Range(ordered_blocks)
                                 THEN p.ref_cnt[b] - 1 ELSE p.ref_cnt[b]]
    IN  [p EXCEPT !.ref_cnt = ref,
                  !.free = @ \o SelectSeq(ordered_blocks, LAMBDA b : ref[b] = 0)]

CanResetPrefixCache(p) == NumFreeBlocks(p) = NumBlocks

ResetCachedHashes(p) ==
    [p EXCEPT !.cached = <<>>, !.hash = [b \in Blocks |-> NoHash]]

-----------------------------------------------------------------------------
(* Consistency of a pool.                                                   *)

PoolTypeOK(p) ==
    /\ p.ref_cnt \in [Blocks -> Nat]
    /\ DOMAIN p.hash = Blocks
    /\ Range(p.free) \subseteq Blocks
    /\ \A k \in DOMAIN p.cached : p.cached[k].block \in Blocks
    /\ p.ok \in BOOLEAN

\* The free queue holds no block twice and exactly the unreferenced blocks.
FreeQueueConsistent(p) ==
    /\ IsInjective(p.free)
    /\ \A b \in Blocks : b \in Range(p.free) <=> p.ref_cnt[b] = 0

\* A block has a hash exactly when the hash map finds it under that hash, and
\* it is there once.
HashMapConsistent(p) ==
    /\ \A b \in Blocks :
          p.hash[b] # NoHash => \E k \in EntriesOf(p, p.hash[b]) : p.cached[k].block = b
    /\ \A k \in DOMAIN p.cached : p.hash[p.cached[k].block] = p.cached[k].hash
    /\ \A j, k \in DOMAIN p.cached : p.cached[j].block = p.cached[k].block => j = k
=============================================================================
