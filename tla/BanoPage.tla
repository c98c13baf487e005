------------------------------ MODULE BanoPage ------------------------------
(***************************************************************************)
(* The page that answers a browser (gen_base_html of bano_base.c), in the  *)
(* growing buffer of bano_html.c, from the values that the messages of the *)
(* nodes left in their dictionaries (bano_dict.c).                         *)
(*                                                                         *)
(* A cell of the buffer holds the piece of text it belongs to.  The calls  *)
(* of bano_html_printf that print one variable of one node, the head of    *)
(* the page, and its end, count as one call each, of any length in Length. *)
(***************************************************************************)
EXTENDS Integers, BanoDict

CONSTANTS
  NodeSeq,    \* base->nodes
  Listed,     \* Listed[n]: the keys of the description of node n, as loaded
  Val,        \* the values
  NoVal,      \* what is shown for a key that has no value: 0xffffffff
  Length,     \* the lengths of pieces
  Block       \* 0x1000

Nodes == ToSet(NodeSeq)

ASSUME PageAssumption ==
  /\ Block \in Nat \ {0}
  /\ Length \subseteq Nat \ {0}
  /\ NoVal \notin Val
  /\ NodeSeq \in Seq(Nodes)
  /\ Listed \in [Nodes -> Seq(DictKey)]

VARIABLES
  vals,     \* vals[n]: node->keyval_pairs
  last,     \* history: the value last set, for each node and key
  html,     \* the bano_html_t: its data, size and off, and is_err
  due,      \* history: the text appended to it so far
  pieces,   \* what complete_httpd_msg has still to do
  answer    \* what it has just answered: a format, and the text

vars == <<vals, last, html, due, pieces, answer>>

Piece(what) == [what |-> what]
Variable(n, k, v) == [what |-> "variable", node |-> n, key |-> k, val |-> v]
Nul == Piece("nul")
Garbage == Piece("garbage")

Times(c, n) == [i \in 1 .. n |-> c]
-----------------------------------------------------------------------------
(* The buffer                                                              *)

NoHtml == [data |-> <<>>, size |-> 0, off |-> 0, err |-> FALSE]
Failed == [NoHtml EXCEPT !.err = TRUE]
Room(h) == h.size - h.off

(* Cells written to the buffer from off; nothing keeps them inside of it.  *)
Put(h, cells) ==
  [h EXCEPT !.data =
     [i \in 1 .. IF h.off + Len(cells) > Len(@) THEN h.off + Len(cells) ELSE Len(@) |->
        IF i \in h.off + 1 .. h.off + Len(cells) THEN cells[i - h.off] ELSE @[i]]]

(* resize_data, when realloc succeeds.                                     *)
Resized(h, n) ==
  LET size == ((n + Block) \div Block) * Block IN
  [h EXCEPT !.size = size,
            !.data = SubSeq(@ \o Times(Garbage, size), 1, size)]

(* vsnprintf writes no more than there is room for, and ends it with NUL.  *)
Formatted(h, p, len) ==
  IF Room(h) = 0 THEN h
  ELSE Put(h, Times(p, IF len < Room(h) THEN len ELSE Room(h) - 1) \o <<Nul>>)

FitsUpTo(h, len) == len <= Room(h)
Fits(h, len) == len < Room(h)

(* bano_html_printf: a second call if the first was short of room, in a    *)
(* buffer that has it.                                                     *)
Printed(h, p, len) ==
  LET again == Resized(Formatted(h, p, len), h.off + len + 1) IN
  CASE Fits(h, len)     -> [Formatted(h, p, len) EXCEPT !.off = @ + len]
    [] ~ Fits(h, len) /\ Fits(again, len) -> [Formatted(again, p, len) EXCEPT !.off = @ + len]
    [] OTHER -> Failed

Enlarged(h, len) == IF h.off + len > h.size THEN Resized(h, h.off + len) ELSE h
EnlargedByFile(h, len) == IF len > h.size THEN Resized(h, len) ELSE h

(* bano_html_include: as many cells as the file has, without a NUL.        *)
Included(h, p, len) == [Put(Enlarged(h, len), Times(p, len)) EXCEPT !.off = @ + len]
-----------------------------------------------------------------------------
(* What the page shows of a variable, in the order of the dictionaries.    *)
Shown(n, k) == Variable(n, k, IF HasKey(vals[n], k) THEN DictGet(vals[n], k) ELSE NoVal)

NodlDict(n) ==
  LET added[i \in 0 .. Len(Listed[n])] ==
        IF i = 0 THEN EmptyDict ELSE DictAdd(added[i - 1], Listed[n][i], Listed[n][i])
  IN  added[Len(Listed[n])]

NodePieces(n) ==
  LET pairs == DictPairs(NodlDict(n)) IN [i \in DOMAIN pairs |-> Shown(n, pairs[i].key)]

PagePieces ==
  <<Piece("head"), Piece("css")>>
    \o FlattenSeq([i \in DOMAIN NodeSeq |-> NodePieces(NodeSeq[i])])
    \o <<Piece("end"), Piece("complete")>>

NoAnswer == [fmt |-> "none", text |-> <<>>]

Init ==
  /\ vals = [n \in Nodes |-> EmptyDict]
  /\ last = [n \in Nodes |-> [k \in DictKey |-> NoVal]]
  /\ html = NoHtml
  /\ due = <<>>
  /\ pieces = <<>>
  /\ answer = NoAnswer

Idle == pieces = <<>>
Doing == pieces # <<>>

(* A value a node sends (handle_set_msg), or 0 (BANO_HTTPD_MSG_OP_RST).    *)
SetVal(n, k, v) ==
  /\ Idle
  /\ vals' = [vals EXCEPT ![n] = DictSetOrAdd(@, k, v)]
  /\ last' = [last EXCEPT ![n][k] = v]
  /\ answer' = NoAnswer
  /\ UNCHANGED <<html, due, pieces>>

(* complete_httpd_msg, for a browser that wants HTML, and bano_html_init.  *)
StartPage ==
  /\ Idle
  /\ pieces' = PagePieces
  /\ answer' = NoAnswer
  /\ UNCHANGED <<vals, last, html, due>>

AppendPiece(h, len) ==
  /\ html' = h
  /\ due' = IF h.err THEN <<>> ELSE due \o Times(Head(pieces), len)
  /\ pieces' = Tail(pieces)
  /\ UNCHANGED <<vals, last, answer>>

PrintPiece ==
  /\ Doing /\ Head(pieces).what \notin {"css", "complete"}
  /\ ~ html.err
  /\ \E len \in Length : AppendPiece(Printed(html, Head(pieces), len), len)

IncludeCss ==
  /\ Doing /\ Head(pieces).what = "css"
  /\ ~ html.err
  /\ \E len \in Length : AppendPiece(Included(html, Head(pieces), len), len)

(* A call on a buffer that has failed, or one that fails: want of memory,  *)
(* a file that is missing or shorter than it was.                          *)
AppendFails ==
  /\ Doing /\ Head(pieces).what # "complete"
  /\ AppendPiece(Failed, 0)

(* The page, or a failure in plain text if any of the calls had failed;    *)
(* then bano_html_fini.                                                    *)
Complete ==
  /\ Doing /\ Head(pieces).what = "complete"
  /\ answer' = IF html.err THEN [fmt |-> "plain", text |-> <<>>]
               ELSE [fmt |-> "html", text |-> SubSeq(html.data, 1, html.off)]
  /\ html' = NoHtml
  /\ due' = <<>>
  /\ pieces' = Tail(pieces)
  /\ UNCHANGED <<vals, last>>

Next ==
  \/ \E n \in Nodes, k \in DictKey, v \in Val : SetVal(n, k, v)
  \/ StartPage \/ PrintPiece \/ IncludeCss \/ AppendFails \/ Complete

Spec == Init /\ [][Next]_vars
-----------------------------------------------------------------------------
(***************************************************************************)
(* Nothing is written past the end of the buffer, whatever the lengths of  *)
(* the pieces and the place they start at, and what is in it is what was   *)
(* appended: no piece is cut at the end of a block, written over, or       *)
(* followed by a NUL that is counted in (bano_html_printf and              *)
(* bano_html_include).                                                     *)
(***************************************************************************)
WithinBuffer == Len(html.data) = html.size /\ html.off <= html.size
PageWhole ==
  /\ WithinBuffer
  /\ ~ html.err => SubSeq(html.data, 1, html.off) = due

(***************************************************************************)
(* A page that is sent shows each key of the description of each node,     *)
(* with the value that was last set, whatever list of the dictionary it    *)
(* is in; a page that misses one for want of memory is not sent.           *)
(***************************************************************************)
PageShowsLast ==
  [][answer' # answer /\ answer'.fmt = "html" =>
       \A n \in Nodes, k \in DictKey :
         {p \in ToSet(answer'.text) : p.what = "variable" /\ p.node = n /\ p.key = k}
           = IF k \in ToSet(Listed[n]) THEN {Variable(n, k, last[n][k])} ELSE {}]_vars
=============================================================================
