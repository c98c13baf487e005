------------------------------ MODULE BanoList ------------------------------
(***************************************************************************)
(* The linked lists of the base (src/src/base/bano_list.c): the pointers,  *)
(* under the use the base makes of them.  posted_ios, pending_ios, nodes   *)
(* and sockets only grow at their tail; base->timers does too, but for the *)
(* timer of the application, inserted before another one and deleted when  *)
(* it is the first (see BanoTimer).  bano_list_foreach calls back with     *)
(* functions that may delete the item they are given, or add others.       *)
(*                                                                         *)
(* An item is its own data.  bano_list_add_head is not used; nor is        *)
(* bano_list_fini, until the base is closed.                               *)
(***************************************************************************)
EXTENDS Integers, Sequences, SequencesExt, FiniteSets

CONSTANTS
  Item,      \* memory for bano_list_item_t
  LoopItem,  \* the item of the timer of the application
  Null,
  Freed      \* what is read in memory that was freed

ASSUME ListConstantsOK ==
  /\ IsFiniteSet(Item)
  /\ LoopItem \in Item
  /\ Null \notin Item /\ Freed \notin Item /\ Null # Freed

VARIABLES
  head, tail,  \* bano_list_t
  next, prev,  \* the pointers of each item, Freed when it is not allocated
  pos,         \* the item bano_list_foreach is about to call fn with
  ahead,       \* `next' in bano_list_foreach_at
  todo         \* history: the items it found in the list, and has not visited

pointers == <<head, tail, next, prev>>
iter == <<pos, ahead, todo>>
listVars == <<pointers, iter>>

Used == {i \in Item : next[i] # Freed}
-----------------------------------------------------------------------------
Set(f, i, v) == [f EXCEPT ![i] = v]

(* bano_list_add_tail.                                                     *)
AddTail(i) ==
  /\ next[i] = Freed
  /\ next' = IF tail # Null THEN Set(Set(next, i, Null), tail, i) ELSE Set(next, i, Null)
  /\ prev' = Set(prev, i, tail)
  /\ head' = IF tail # Null THEN head ELSE i
  /\ tail' = i

(* bano_list_add_before: the new item's prev stays Null.                   *)
AddBefore(i, at) ==
  /\ next[i] = Freed /\ at \in Used
  /\ IF at = head
       THEN head' = i /\ next' = Set(next, i, at)
       ELSE UNCHANGED head /\ next' = Set(Set(next, i, at), prev[at], i)
  /\ prev' = Set(Set(prev, i, Null), at, i)
  /\ UNCHANGED tail

DelPrevious(i) ==    \* mutant: the head becomes the next item in any case
  /\ i \in Used
  /\ head' = next[i]
  /\ tail' = IF next[i] # Null THEN tail ELSE prev[i]
  /\ next' = Set(IF prev[i] # Null THEN Set(next, prev[i], next[i]) ELSE next, i, Freed)
  /\ prev' = Set(IF next[i] # Null THEN Set(prev, next[i], prev[i]) ELSE prev, i, Freed)

(* bano_list_del.                                                          *)
ListDel(i) ==
  /\ i \in Used
  /\ head' = IF prev[i] # Null THEN head ELSE next[i]
  /\ tail' = IF next[i] # Null THEN tail ELSE prev[i]
  /\ next' = Set(IF prev[i] # Null THEN Set(next, prev[i], next[i]) ELSE next, i, Freed)
  /\ prev' = Set(IF next[i] # Null THEN Set(prev, next[i], prev[i]) ELSE prev, i, Freed)
-----------------------------------------------------------------------------
(* The operations, outside of a foreach.                                   *)
AddOne(i) == pos = Null /\ AddTail(i) /\ UNCHANGED iter

InsertLoop(at) == pos = Null /\ AddBefore(LoopItem, at) /\ UNCHANGED iter

DelOne(i) ==
  /\ pos = Null
  /\ i = LoopItem => i = head
  /\ ListDel(i)
  /\ UNCHANGED iter

(* bano_list_foreach_at: pos is set, and next read, before fn is called.   *)
Goto(i) == pos' = i /\ ahead' = IF i \in Item THEN next'[i] ELSE Null

Foreach ==
  /\ pos = Null /\ head # Null
  /\ UNCHANGED pointers
  /\ Goto(head)
  /\ todo' = Used

(* fn adds an item, which it visits later, or not if this was the last.    *)
VisitAdd(i) == pos # Null /\ AddTail(i) /\ UNCHANGED iter

VisitSkip ==    \* mutant: the item after one that was deleted is skipped
  /\ pos # Null
  /\ \/ UNCHANGED pointers /\ Goto(ahead)
     \/ pos # LoopItem /\ ListDel(pos) /\ Goto(IF ahead = Null THEN Null ELSE next'[ahead])
  /\ todo' = todo \ {pos}

(* fn returns, and may have deleted the item.                              *)
Visit ==
  /\ pos # Null
  /\ UNCHANGED pointers \/ (pos # LoopItem /\ ListDel(pos))
  /\ Goto(ahead)
  /\ todo' = todo \ {pos}

(* fn returns -1.                                                          *)
Stop ==
  /\ pos # Null
  /\ Goto(Null)
  /\ todo' = {}
  /\ UNCHANGED pointers
-----------------------------------------------------------------------------
(* bano_list_init.                                                         *)
ListInit ==
  /\ head = Null /\ tail = Null
  /\ next = [i \in Item |-> Freed] /\ prev = [i \in Item |-> Freed]
  /\ pos = Null /\ ahead = Null /\ todo = {}

ListNext ==
  \/ \E i \in Item : AddOne(i) \/ InsertLoop(i) \/ DelOne(i) \/ VisitAdd(i)
  \/ Foreach \/ Visit \/ Stop

ListSpec == ListInit /\ [][ListNext]_listVars
-----------------------------------------------------------------------------
(* The items from the head on, as the pointers `next' give them.           *)
Walk ==
  LET at[n \in 0..Cardinality(Item)] ==
        IF n = 0 THEN head ELSE IF at[n - 1] \in Item THEN next[at[n - 1]] ELSE Null
      found == {n \in 0..(Cardinality(Item) - 1) : at[n] # Null}
  IN  [n \in 1..Cardinality(found) |-> at[n - 1]]

(***************************************************************************)
(* A foreach that is not stopped visits each item it found, and none that  *)
(* was freed, although fn deletes items under it: write_msg relies on this *)
(* to post every io of a node.                                             *)
(***************************************************************************)
ForeachVisitsAll ==
  /\ {pos, ahead} \ {Null} \subseteq Used
  /\ pos = Null => todo = {}

(***************************************************************************)
(* The list is a queue, as BanoBase and BanoTimer take it to be: from the  *)
(* head the pointers lead through every item, added at the tail or         *)
(* inserted, in order, and into no freed memory, although                  *)
(* bano_list_add_before leaves the prev of the item it inserts Null, on    *)
(* which deleting it, or an item next to it, must not depend.              *)
(***************************************************************************)
Items == INSTANCE ItemQueue WITH queue <- Walk
ImplementsItemQueue == Items!Spec
=============================================================================
