------------------------------ MODULE ItemQueue ------------------------------
(***************************************************************************)
(* What the base makes of a linked list (bano_list.c): a queue.  Most      *)
(* items are added last, and deleted wherever they are.  One, that of the  *)
(* timer of the application, is inserted anywhere, and deleted when it has *)
(* become the first.                                                       *)
(***************************************************************************)
EXTENDS Integers, SequencesExt

CONSTANTS Item, LoopItem

VARIABLE queue

AddLast(i) == i \notin ToSet(queue) /\ queue' = Append(queue, i)

Insert(i) ==
  /\ i \notin ToSet(queue)
  /\ queue' \in {InsertAt(queue, p, i) : p \in 1..(Len(queue) + 1)}

Delete(i) ==
  \E p \in DOMAIN queue :
    /\ queue[p] = i /\ (i = LoopItem => p = 1)
    /\ queue' = RemoveAt(queue, p)

Init == queue = <<>>

Next ==
  \/ \E i \in Item : AddLast(i) \/ Delete(i)
  \/ Insert(LoopItem)

Spec == Init /\ [][Next]_queue
=============================================================================
