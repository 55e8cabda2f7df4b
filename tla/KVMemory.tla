---------------------------------- MODULE KVMemory ----------------------------------
(***************************************************************************)
(* The KV cache on the device: for each slot of each block, the tokens     *)
(* whose KV was last written there (the KV of a position depends on the    *)
(* tokens up to it).  What a block holds when it is handed out anew is     *)
(* garbage to its new owner and counts as unwritten.                       *)
(***************************************************************************)
EXTENDS KVCacheManager

Unwritten == <<>>

NewMemory == [b \in Blocks |-> [o \in 0 .. BlockSize - 1 |-> Unwritten]]

\* The forward pass writes positions first .. last (counted from 0) of a
\* sequence whose blocks new were just handed out.
Written(m, blocks, new, tokens, first, last) ==
    [b \in Blocks |-> [o \in 0 .. BlockSize - 1 |->
        LET here == {p \in first .. last :
                        p % BlockSize = o /\ blocks[p \div BlockSize + 1] = b}
        IN  IF here # {} THEN SubSeq(tokens, 1, (CHOOSE p \in here : TRUE) + 1)
            ELSE IF b \in new THEN Unwritten ELSE m[b][o]]]

\* Block b holds the KV of the last BlockSize tokens of a sequence.
HoldsBlock(m, b, tokens) ==
    \A o \in 0 .. BlockSize - 1 :
        m[b][o] = SubSeq(tokens, 1, Len(tokens) - BlockSize + o + 1)

\* The blocks hold the KV of the first n tokens of a sequence.
HoldsPrefix(m, blocks, tokens, n) ==
    \A p \in 0 .. n - 1 :
        /\ p \div BlockSize < Len(blocks)
        /\ m[blocks[p \div BlockSize + 1]][p % BlockSize] = SubSeq(tokens, 1, p + 1)
=============================================================================
