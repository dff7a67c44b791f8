---------------------------- MODULE AtomicBlocks ----------------------------
(***************************************************************************)
(* What a storage backend promises: under each id the bytes of one write,  *)
(* whole, or nothing.  A machine that fails may go back to what an id held *)
(* when it was last settled, never to a part of a write.                   *)
(***************************************************************************)
CONSTANTS BlockId, Bytes, Nil

VARIABLES held, settled

Init == held = [b \in BlockId |-> Nil] /\ settled = held

Becomes(b, d) == held' = [held EXCEPT ![b] = d] /\ settled' \in {settled, [settled EXCEPT ![b] = d]}
Put(b) == \E d \in Bytes : Becomes(b, d)
Remove(b) == Becomes(b, Nil)
Settle(b) == settled' = [settled EXCEPT ![b] = held[b]] /\ UNCHANGED held
MachineFails ==
    /\ held' \in [BlockId -> Bytes \cup {Nil}]
    /\ \A b \in BlockId : held'[b] \in {held[b], settled[b]}
    /\ settled' = held'

Next ==
    \/ \E b \in BlockId : Put(b) \/ Remove(b) \/ Settle(b)
    \/ MachineFails

Spec == Init /\ [][Next]_<<held, settled>>
=============================================================================
