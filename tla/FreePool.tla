------------------------------ MODULE FreePool ------------------------------
(***************************************************************************)
(* What the free rings of ehcimem.c and ohcimem.c promise the transfer     *)
(* functions: a pool of descriptors in which the one that has been free    *)
(* longest is taken first, and one that is held is not taken again.        *)
(* DescriptorRing is shown to implement it.                                *)
(***************************************************************************)
EXTENDS Sequences

CONSTANT Node
VARIABLES queue, held

Give(d) == d \in held /\ held' = held \ {d} /\ queue' = Append(queue, d)
Take == queue # <<>> /\ Head(queue) \notin held /\ held' = held \cup {Head(queue)} /\ queue' = Tail(queue)

PoolInit == queue = <<>> /\ held \subseteq Node
PoolNext == Take \/ \E d \in Node : Give(d)
PoolSpec == PoolInit /\ [][PoolNext]_<<queue, held>>
=============================================================================
