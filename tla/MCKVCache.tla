--------------------------------- MODULE MCKVCache ---------------------------------
(***************************************************************************)
(* Instance of KVCache for TLC.                                            *)
(***************************************************************************)
EXTENDS KVCache

MCPrompt == <<1>>

MCSymmetry == Permutations(Requests)

\* What a block held is of no consequence once it is free and not cached: it
\* is written anew before anything reads it.
MCView ==
    <<kv, all_token_ids, num_computed_tokens,
      [b \in Blocks |-> IF kv.pool.ref_cnt[b] = 0 /\ kv.pool.hash[b] = NoHash
                        THEN NewMemory[b] ELSE mem[b]],
      snapshots, pending>>
=============================================================================
