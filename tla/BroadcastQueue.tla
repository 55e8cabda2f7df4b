------------------------------- MODULE BroadcastQueue -------------------------------
(***************************************************************************)
(* What a MessageQueue promises its users: one writer, every reader gets   *)
(* every message once and in order, and the writer is never more than      *)
(* Capacity messages ahead of a reader.  Messages are numbered in the      *)
(* order they are sent.                                                    *)
(***************************************************************************)
EXTENDS Integers

CONSTANTS Readers, Capacity

VARIABLES sent,  \* number of messages sent
          got    \* [Readers -> Nat], the last message each reader got

vars == <<sent, got>>

Init ==
    /\ sent = 0
    /\ got = [r \in Readers |-> 0]

Send ==
    /\ \A r \in Readers : sent < got[r] + Capacity
    /\ sent' = sent + 1
    /\ UNCHANGED got

Receive(r) ==
    /\ got[r] < sent
    /\ got' = [got EXCEPT ![r] = @ + 1]
    /\ UNCHANGED sent

Next == Send \/ \E r \in Readers : Receive(r)

Spec == Init /\ [][Next]_vars
=============================================================================
