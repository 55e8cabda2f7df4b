------------------------------ MODULE KVCacheManager ------------------------------
(***************************************************************************)
(* KVCacheManager with its coordinator and the FullAttentionManager of its *)
(* one KV cache group (vllm/v1/core/kv_cache_manager.py,                   *)
(* kv_cache_coordinator.py, single_type_kv_cache_manager.py), prefix       *)
(* caching enabled, as operators on a record:                              *)
(*   pool              the block pool;                                     *)
(*   req_to_blocks     block table of each request;                        *)
(*   num_cached_block  -1 where the dictionary has no entry.               *)
(***************************************************************************)
EXTENDS BlockPool

CONSTANT Requests   \* request ids

CDiv(a, b) == (a + b - 1) \div b

NewKV ==
    [pool             |-> NewPool,
     req_to_blocks    |-> [r \in Requests |-> <<>>],
     num_cached_block |-> [r \in Requests |-> -1]]

NumCachedBlocks(kv, r) == IF kv.num_cached_block[r] = -1 THEN 0 ELSE kv.num_cached_block[r]

-----------------------------------------------------------------------------
\* The longest run of cached blocks from the start of the tokens, at most
\* max_blocks long.
FindLongestCacheHit(pool, tokens, max_blocks) ==
    LET HitUpTo(n) == \A i \in 1 .. n : HasCachedBlock(pool, SubSeq(tokens, 1, i * BlockSize))
        longest == CHOOSE n \in 0 .. max_blocks :
                       HitUpTo(n) /\ (n = max_blocks \/ ~HitUpTo(n + 1))
    IN  [i \in 1 .. longest |-> GetCachedBlock(pool, SubSeq(tokens, 1, i * BlockSize))]

\* The last token is always recomputed.
GetComputedBlocks(kv, tokens) ==
    FindLongestCacheHit(kv.pool, tokens, (Len(tokens) - 1) \div BlockSize)

Evictable(kv, blocks) == {b \in Range(blocks) : kv.pool.ref_cnt[b] = 0}

NumBlocksToAllocate(kv, r, num_tokens, new_computed_blocks) ==
    Max({0, CDiv(num_tokens, BlockSize)
            - Len(new_computed_blocks) - Len(kv.req_to_blocks[r])})
        + Cardinality(Evictable(kv, new_computed_blocks))

\* cache_blocks: the full blocks of the first num_tokens tokens.
CacheBlocks(kv, r, tokens, num_tokens) ==
    LET first == NumCachedBlocks(kv, r) + 1
        last  == num_tokens \div BlockSize
    IN  IF first > last THEN kv
        ELSE [kv EXCEPT
                !.pool = CacheFullBlocks(@, tokens, kv.req_to_blocks[r], first, last),
                !.num_cached_block[r] = last]

\* allocate_slots returns None.
CannotAllocate(kv, r, num_tokens, computed, num_new, hit, full_sequence_must_fit) ==
    LET need == computed + Len(hit) * BlockSize + num_new
    IN  \/ full_sequence_must_fit
           /\ NumBlocksToAllocate(kv, r, num_tokens, hit) > NumFreeBlocks(kv.pool)
        \/ NumBlocksToAllocate(kv, r, need, hit) > NumFreeBlocks(kv.pool)

\* The blocks hit in the prefix cache become the request's.
AllocateNewComputedBlocks(kv, r, hit) ==
    IF hit = <<>> THEN kv
    ELSE [kv EXCEPT !.pool = Touch(@, hit),
                    !.req_to_blocks[r] = @ \o hit,
                    !.num_cached_block[r] = Len(hit)]

\* New blocks until the table has room for num_tokens tokens.
AllocateNewBlocks(kv, r, num_tokens) ==
    LET missing == Max({0, CDiv(num_tokens, BlockSize) - Len(kv.req_to_blocks[r])})
    IN  [kv EXCEPT !.pool = GetNewBlocks(@, missing),
                   !.req_to_blocks[r] = @ \o NewBlocks(kv.pool, missing)]

\* allocate_slots: take the hits, then new blocks up to the new tokens, then
\* cache what the step completes, without the tokens not sampled yet.
AllocateSlots(kv, r, tokens, computed, num_new, hit) ==
    LET total == computed + Len(hit) * BlockSize + num_new
    IN  CacheBlocks(AllocateNewBlocks(AllocateNewComputedBlocks(kv, r, hit), r, total),
                    r, tokens, Min({total, Len(tokens)}))

\* free, in reverse order, so that the tail is evicted first.
FreeRequest(kv, r) ==
    [kv EXCEPT !.pool = FreeBlocks(@, Reverse(kv.req_to_blocks[r])),
               !.req_to_blocks[r] = <<>>,
               !.num_cached_block[r] = -1]

\* Mutant: the aliased blocks are not touched.
MutAliasWithoutTouch(kv, dst, src_blocks, src_num_cached_blocks, num_prefix_blocks) ==
    LET aliased == SubSeq(src_blocks, 1, num_prefix_blocks)
    IN  [kv EXCEPT !.pool = FreeBlocks(@, Reverse(kv.req_to_blocks[dst])),
                   !.req_to_blocks[dst] = aliased,
                   !.num_cached_block[dst] =
                       Min({src_num_cached_blocks, num_prefix_blocks})]

\* alias_request_blocks_from_snapshot, for a snapshot that is long enough.
AliasFromSnapshot(kv, dst, src_blocks, src_num_cached_blocks, num_prefix_blocks) ==
    LET aliased == SubSeq(src_blocks, 1, num_prefix_blocks)
    IN  [kv EXCEPT !.pool = Touch(FreeBlocks(@, Reverse(kv.req_to_blocks[dst])), aliased),
                   !.req_to_blocks[dst] = aliased,
                   !.num_cached_block[dst] =
                       Min({src_num_cached_blocks, num_prefix_blocks})]
=============================================================================
