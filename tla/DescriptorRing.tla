--------------------------- MODULE DescriptorRing ---------------------------
(***************************************************************************)
(* The free rings of ehcimem.c and ohcimem.c: queue heads, transfer        *)
(* descriptors and isochronous descriptors, EHCI's and OHCI's.  All six    *)
(* are a circular list threaded through the descriptors' own link word,    *)
(* which a transfer function overwrites as it likes while it holds the     *)
(* descriptor.  They differ in what Add does with the link word of a       *)
(* descriptor that enters an empty ring.                                   *)
(*                                                                         *)
(* queue is not in the code: it is the promise, a FIFO of free             *)
(* descriptors.                                                            *)
(***************************************************************************)
EXTENDS Integers, Sequences

CONSTANTS Node, NoNode
ASSUME RingAssumption == Node # {} /\ NoNode \notin Node

VARIABLES
  ring,    \* which of the six it is
  root,    \* Root_X
  end,     \* End_X
  link,    \* the link word of each descriptor
  size,    \* free_X_size
  held,    \* descriptors that transfer functions hold
  queue    \* the promise

ringVars == <<ring, root, end, link, size, held, queue>>
Word == Node \cup {NoNode}

(* The link word of a descriptor that enters an empty ring: QH, iTD and ED *)
(* point to themselves; a QTD is cleared, and the assignment meant to      *)
(* close the ring is a comparison; the GTD and ISOTD rings compare as well *)
(* and clear only the first word of the descriptor, which is not the link. *)
Add_Free_QH_Ring(d) == d
Add_Free_iTD_Ring(d) == d
Add_Free_ED_Ring(d) == d
Add_Free_QTD_Ring(d) == NoNode
Add_Free_GTD_Ring(d) == link[d]
Add_Free_ISOTD_Ring(d) == link[d]
Rings == {"QH", "QTD", "iTD", "ED", "GTD", "ISOTD"}
AloneLink(d) ==
  CASE ring = "QH" -> Add_Free_QH_Ring(d) [] ring = "QTD" -> Add_Free_QTD_Ring(d) [] ring = "iTD" -> Add_Free_iTD_Ring(d)
    [] ring = "ED" -> Add_Free_ED_Ring(d) [] ring = "GTD" -> Add_Free_GTD_Ring(d) [] OTHER -> Add_Free_ISOTD_Ring(d)

(* Before X_Init nothing is free; it then adds every descriptor.           *)
RingInit ==
  /\ ring \in Rings /\ root = NoNode /\ end = NoNode
  /\ link = [d \in Node |-> NoNode] /\ size = 0 /\ held = Node /\ queue = <<>>

AddFree(d) ==
  /\ d \in held /\ held' = held \ {d}
  /\ root' = IF size = 0 THEN d ELSE root
  /\ link' = IF size = 0 THEN [link EXCEPT ![d] = AloneLink(d)]
                         ELSE [link EXCEPT ![end] = d, ![d] = root]
  /\ end' = d /\ size' = size + 1
  /\ queue' = Append(queue, d)
  /\ UNCHANGED ring

(* Get_Free_QH, Get_Free_QTD, Get_Free_iTD, Get_Free_ED, Get_Free_GTD and  *)
(* Get_Free_ISOTD are the same but for the type; they return Root_X.       *)
RootLinkOfEnd == link[end]
RootLink == link[root]
GottenAfterwards == link[root]
Gotten == root
GetFree ==
  /\ size > 0
  /\ held' = held \cup {Gotten}
  /\ root' = RootLink
  /\ link' = [link EXCEPT ![end] = RootLink]
  /\ size' = size - 1
  /\ queue' = Tail(queue)
  /\ UNCHANGED <<ring, end>>

(* A transfer function writes the link word of a descriptor it holds.      *)
UseHeld(d) ==
  /\ d \in held
  /\ \E w \in Word : link' = [link EXCEPT ![d] = w]
  /\ UNCHANGED <<ring, root, end, size, held, queue>>

(* Another test than USB has been chosen: the rings have not been set up.  *)
RingOff ==
  /\ ring = "QH" /\ root = NoNode /\ end = NoNode
  /\ link = [d \in Node |-> NoNode] /\ size = 0 /\ held = {} /\ queue = <<>>

RingNext == GetFree \/ \E d \in Node : AddFree(d) \/ UseHeld(d)
RingSpec == RingInit /\ [][RingNext]_ringVars
-----------------------------------------------------------------------------
(* The type of the state: the ends of the ring may hold a stale pointer or *)
(* NULL, the rings are never asked for one there.                          *)
RingTypeOK ==
  /\ ring \in Rings /\ root \in Word /\ end \in Word
  /\ link \in [Node -> Word] /\ size \in Nat
  /\ held \subseteq Node /\ queue \in Seq(Node)

(* Following the links from Root, the code meets the free descriptors in   *)
(* the order in which they were returned, and End is the last of them,     *)
(* whatever the transfer functions wrote into descriptors they hold and    *)
(* although three of the rings are not closed when they begin.             *)
QueueLinked ==
  /\ size = Len(queue)
  /\ size > 0 => root = queue[1] /\ end = queue[size]
  /\ \A i \in 1 .. size - 1 : link[queue[i]] = queue[i + 1]

(* A descriptor is free or held, never both, and in the queue only once.   *)
FreeOnce ==
  /\ \A i \in 1 .. Len(queue) : queue[i] \notin held
  /\ \A i, j \in 1 .. Len(queue) : queue[i] = queue[j] => i = j

(* The ring does what a pool of free descriptors promises: a Get hands out *)
(* the one that has been free longest, and never one that is still held.   *)
Pool == INSTANCE FreePool WITH queue <- queue, held <- held
ImplementsPool == Pool!PoolSpec
=============================================================================
