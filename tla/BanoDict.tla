------------------------------ MODULE BanoDict ------------------------------
(***************************************************************************)
(* The dictionaries of the base (bano_dict.c): a list of pairs for each    *)
(* value of a hash of the key.  A dictionary is a function from buckets to *)
(* sequences of pairs [key, val].  Adding does not look for the key, and   *)
(* every search stops at the first pair that has it.                       *)
(***************************************************************************)
EXTENDS Naturals, Sequences, SequencesExt, FiniteSets

CONSTANTS
  DictKey,   \* the keys
  NList,     \* get_nlist
  Hash       \* get_hash

Bucket == 0 .. NList - 1

ASSUME HashAssumption == NList \in Nat /\ Hash \in [DictKey -> Bucket]

EmptyDict == [b \in Bucket |-> <<>>]

PlacesByHash(d, k) == DOMAIN d[Hash[k]]

(* Where the pairs with key k are in their list; find_pair stops at the    *)
(* least of them.                                                          *)
PlacesOf(d, k) == {i \in DOMAIN d[Hash[k]] : d[Hash[k]][i].key = k}
HasKey(d, k) == PlacesOf(d, k) # {}
FindPair(d, k) == CHOOSE i \in PlacesOf(d, k) : \A j \in PlacesOf(d, k) : i <= j

DictGet(d, k) == d[Hash[k]][FindPair(d, k)].val

DictAdd(d, k, v) ==
  [d EXCEPT ![Hash[k]] = Append(@, [key |-> k, val |-> v])]

DictSet(d, k, v) == [d EXCEPT ![Hash[k]][FindPair(d, k)].val = v]

DictSetOrAdd(d, k, v) ==
  IF HasKey(d, k) THEN DictSet(d, k, v) ELSE DictAdd(d, k, v)

(* The pairs in the order of bano_dict_foreach.                            *)
DictPairs(d) == FlattenSeq([i \in 1 .. NList |-> d[i - 1]])

(* bano_list_del of the pair's item; the pair itself is never freed, so    *)
(* that a pointer to its value stays good.                                 *)
DictDel(d, k) ==
  LET i == FindPair(d, k)
      l == d[Hash[k]]
  IN  [d EXCEPT ![Hash[k]] = SubSeq(l, 1, i - 1) \o SubSeq(l, i + 1, Len(l))]
=============================================================================
