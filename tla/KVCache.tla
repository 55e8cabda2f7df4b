---------------------------------- MODULE KVCache ----------------------------------
(***************************************************************************)
(* The KV cache manager under any order of calls its callers may make: one *)
(* action per call of KVCacheManager, together with the forward pass that  *)
(* follows an allocation and writes the KV cache on the device.            *)
(*                                                                         *)
(* mem is the device memory of KVMemory.  snapshots and pending belong to  *)
(* a resampling in progress, during which the scheduler makes no other     *)
(* call.                                                                   *)
(***************************************************************************)
EXTENDS KVMemory

CONSTANTS Tokens,       \* token ids
          Prompt,       \* prompt of every request
          MaxSeqLen,    \* bound: longest sequence
          ResampleLengths,  \* lengths at which requests are resampled
          EvictableBlocks   \* blocks a KV connector may report as invalid

ASSUME KVCacheAssumption ==
    /\ Prompt \in Seq(Tokens)
    /\ Prompt # <<>>
    /\ MaxSeqLen \in Nat
    /\ ResampleLengths \subseteq Nat \ {0}
    /\ EvictableBlocks \subseteq Blocks

VARIABLES kv, all_token_ids, num_computed_tokens, mem, snapshots, pending

vars == <<kv, all_token_ids, num_computed_tokens, mem, snapshots, pending>>

NoSnapshots == <<>>

Init ==
    /\ kv = NewKV
    /\ all_token_ids = [r \in Requests |-> Prompt]
    /\ num_computed_tokens = [r \in Requests |-> 0]
    /\ mem = NewMemory
    /\ snapshots = NoSnapshots
    /\ pending = {}

\* allocate_slots for num_new tokens and the step that computes them.
Compute(r, num_new, hit) ==
    LET tokens == all_token_ids[r]
        done   == num_computed_tokens[r] + Len(hit) * BlockSize
    IN  /\ ~CannotAllocate(kv, r, Len(tokens), num_computed_tokens[r], num_new, hit, FALSE)
        /\ kv' = AllocateSlots(kv, r, tokens, num_computed_tokens[r], num_new, hit)
        /\ mem' = Written(mem, kv'.req_to_blocks[r],
                          Range(kv'.req_to_blocks[r])
                              \ (Range(kv.req_to_blocks[r]) \cup Range(hit)),
                          tokens, done, done + num_new - 1)
        /\ num_computed_tokens' = [num_computed_tokens EXCEPT ![r] = done + num_new]
        /\ UNCHANGED <<all_token_ids, snapshots, pending>>

\* A request without computed tokens looks its tokens up in the prefix cache.
Admit(r) ==
    /\ pending = {}
    /\ num_computed_tokens[r] = 0
    /\ LET hit == GetComputedBlocks(kv, all_token_ids[r])
       IN  \E n \in 1 .. Len(all_token_ids[r]) - Len(hit) * BlockSize : Compute(r, n, hit)

\* A request with computed tokens continues, possibly a chunk at a time.
Continue(r) ==
    /\ pending = {}
    /\ num_computed_tokens[r] > 0
    /\ \E n \in 1 .. Len(all_token_ids[r]) - num_computed_tokens[r] : Compute(r, n, <<>>)

\* The token sampled after the last position was computed.
AppendToken(r, t) ==
    /\ pending = {}
    /\ num_computed_tokens[r] = Len(all_token_ids[r])
    /\ Len(all_token_ids[r]) < MaxSeqLen
    /\ all_token_ids' = [all_token_ids EXCEPT ![r] = Append(@, t)]
    /\ UNCHANGED <<kv, num_computed_tokens, mem, snapshots, pending>>

\* free when a request is preempted (it keeps its tokens) or has finished (the
\* id is then used for a new request).
Free(r, tokens) ==
    /\ pending = {}
    /\ kv.req_to_blocks[r] # <<>>
    /\ kv' = FreeRequest(kv, r)
    /\ all_token_ids' = [all_token_ids EXCEPT ![r] = tokens]
    /\ num_computed_tokens' = [num_computed_tokens EXCEPT ![r] = 0]
    /\ UNCHANGED <<mem, snapshots, pending>>

\* get_blocks and get_num_cached_blocks of the ancestors, before any request
\* of the group changes.  Every request will take the first n tokens of its
\* ancestor; the KV of the full blocks before the last of them is shared, and
\* the ancestors have computed that much.
BeginResample(n, ancestor) ==
    /\ pending = {}
    /\ \A r \in Requests : n <= Len(all_token_ids[ancestor[r]])
    /\ \A r \in Requests :
          num_computed_tokens[ancestor[r]] >= ((n - 1) \div BlockSize) * BlockSize
    /\ snapshots' = [r \in Requests |->
                        [blocks     |-> kv.req_to_blocks[ancestor[r]],
                         num_cached |-> NumCachedBlocks(kv, ancestor[r]),
                         tokens     |-> SubSeq(all_token_ids[ancestor[r]], 1, n)]]
    /\ pending' = Requests
    /\ UNCHANGED <<kv, all_token_ids, num_computed_tokens, mem>>

ResampleRequest(r) ==
    LET tokens == snapshots[r].tokens
        n      == (Len(tokens) - 1) \div BlockSize
    IN  /\ r \in pending
        /\ kv' = IF n > 0
                 THEN AliasFromSnapshot(kv, r, snapshots[r].blocks, snapshots[r].num_cached, n)
                 ELSE FreeRequest(kv, r)
        /\ all_token_ids' = [all_token_ids EXCEPT ![r] = tokens]
        /\ num_computed_tokens' = [num_computed_tokens EXCEPT ![r] = n * BlockSize]
        /\ pending' = pending \ {r}
        /\ snapshots' = IF pending' = {} THEN NoSnapshots ELSE snapshots
        /\ UNCHANGED mem

\* evict_blocks, for blocks a KV connector reports as invalid.
EvictBlocks(b) ==
    /\ pending = {}
    /\ kv' = [kv EXCEPT !.pool = MaybeEvictCachedBlocks(@, {b})]
    /\ UNCHANGED <<all_token_ids, num_computed_tokens, mem, snapshots, pending>>

ResetPrefixCache ==
    /\ pending = {}
    /\ CanResetPrefixCache(kv.pool)
    /\ kv' = [kv EXCEPT !.pool = ResetCachedHashes(@)]
    /\ UNCHANGED <<all_token_ids, num_computed_tokens, mem, snapshots, pending>>

Next ==
    \/ \E r \in Requests : Admit(r)
    \/ \E r \in Requests : Continue(r)
    \/ \E r \in Requests, t \in Tokens : AppendToken(r, t)
    \/ \E r \in Requests : Free(r, all_token_ids[r])
    \/ \E r \in Requests : Free(r, Prompt)
    \/ \E n \in ResampleLengths, a \in [Requests -> Requests] : BeginResample(n, a)
    \/ \E r \in Requests : ResampleRequest(r)
    \/ \E b \in EvictableBlocks : EvictBlocks(b)
    \/ ResetPrefixCache

Spec == Init /\ [][Next]_vars

-----------------------------------------------------------------------------
\* free_block_queue and cached_block_hash_to_block agree with ref_cnt and
\* block_hash after every call, and cache_full_blocks' assertion that a block
\* it caches has no hash yet never fails.
PoolConsistent ==
    /\ FreeQueueConsistent(kv.pool)
    /\ HashMapConsistent(kv.pool)
    /\ kv.pool.ok

\* A block found in the prefix cache under a hash holds the KV of exactly the
\* tokens of that hash: no owner has overwritten it since.
CachedBlocksHoldTheirPrefix ==
    \A b \in Blocks : kv.pool.hash[b] # NoHash => HoldsBlock(mem, b, kv.pool.hash[b])

\* Every position a request counts as computed is backed by a block of its own
\* table that still holds the KV of the request's own tokens, whoever else
\* shares, frees or aliases blocks.
ComputedKVIsOwn ==
    \A r \in Requests \ pending :
        HoldsPrefix(mem, kv.req_to_blocks[r], all_token_ids[r], num_computed_tokens[r])

\* The manager implements the ownership protocol of KVBlocks.
Ownership == INSTANCE KVBlocks WITH
    ref_cnt <- kv.pool.ref_cnt,
    free    <- Range(kv.pool.free),
    owned   <- [r \in Requests |-> Range(kv.req_to_blocks[r])],
    cached  <- {b \in Blocks : kv.pool.hash[b] # NoHash}

\* Every call of the manager is one step of KVBlocks on the set of owned
\* blocks, or changes none of it.  So ref_cnt is the number of block tables
\* that hold the block, and free_block_queue has the blocks in none, as proved
\* of KVBlocks.
ImplementsKVBlocks == Ownership!Spec
=============================================================================
