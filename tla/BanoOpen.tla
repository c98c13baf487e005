------------------------------ MODULE BanoOpen ------------------------------
(***************************************************************************)
(* The opening and the closing of the base (bano_open, apply_conf and      *)
(* bano_close of bano_base.c): the structs of a configuration are applied  *)
(* one after the other, and any of them may fail, after which all that was *)
(* set up is released.                                                     *)
(*                                                                         *)
(* One step applies one struct, or releases one part.  Numbers, addresses, *)
(* keys and the like are tokens; an abbreviation of a name, which          *)
(* bano_string_cmp_cstr accepts, counts as that name.  Between its opening *)
(* and its closing the base runs the loop (BanoBase).                      *)
(***************************************************************************)
EXTENDS BanoParser, BanoDict

CONSTANTS
  Refused,   \* the values that a conversion refuses: too long, not a boolean
  NodlDir,   \* the directories of node descriptions that can be opened
  Nodl       \* Nodl[d]: the descriptions in d, from some of DictKey to how
             \* loading them ends: "whole", "part" (a key that is refused),
             \* "syntax" (not parsed at all) or "directive" (it does not end:
             \* a directive other than .include, as in ParseOtherDirective)

(* Where structs with this name begin in configuration c.                  *)
Begins(c, name) ==
  LET t == Expanded[c] IN {i \in 1 .. Len(t) - 1 : t[i] = name /\ t[i + 1] = "{"}

(* At most one of each of the structs below.  A second http_server, cam or *)
(* sms is set up over the first, whose thread, camera or library nothing   *)
(* refers to any longer; the model does not follow these.  A directory has *)
(* finitely many files, and each is named after the id it describes.       *)
ASSUME OpenAssumption ==
  /\ \A c \in Conf \cap File : \A name \in {"http_server", "cam", "sms"} :
       Cardinality(Begins(c, name)) <= 1
  /\ \A d \in NodlDir : IsFiniteSet(DOMAIN Nodl[d]) /\ DOMAIN Nodl[d] \subseteq DictKey

VARIABLES
  applied,   \* the number of structs that apply_struct was called for
  err,       \* ad->err, then the result of bano_open
  nodls,     \* base->nodls; the values are [dir, whole]
  sockets,   \* base->sockets: "radio" or "pipe"
  nodes,     \* base->nodes, as [id, nodl, socket]
  held,      \* of "thread", "camera" and "tls", those in use: is_httpd, is_cam, is_sms
  closing,   \* the parts that remain to be released
  frees,     \* history: how many times bano_node_free was called, for each node
  unlisted   \* history: the number of sockets that bano_list_add_tail did not add

baseVars == <<nodls, sockets, nodes, held>>
history == <<frees, unlisted>>
vars == <<parserVars, applied, err, baseVars, closing, history>>

PartsSocketsFirst == <<"thread", "camera", "tls", "nodls", "sockets", "nodes">>

(* The order of the ends of bano_open and bano_close.                      *)
Parts == <<"thread", "camera", "tls", "nodls", "nodes", "sockets">>

Init ==
  /\ ParserInit
  /\ applied = 0
  /\ err = FALSE
  /\ nodls = EmptyDict
  /\ sockets = <<>>
  /\ nodes = <<>>
  /\ held = {}
  /\ closing = <<>>
  /\ frees = <<>>
  /\ unlisted = 0
-----------------------------------------------------------------------------
(* Pairs                                                                   *)

PairKeys(name) ==
  CASE name = "base" -> {"addr", "nodl_dir", "cipher_alg", "cipher_key", "new_nodes"}
    [] name = "socket" -> {"type", "dev_path"}
    [] name = "node" -> {"addr", "name", "seed", "nodl_id", "cipher"}
    [] name = "http_server" -> {"port", "auth"}
    [] name = "cam" -> {"id", "fmt", "dummy"}
    [] name = "sms" -> {"https_addr", "https_port", "https_creds"}

PairAccepted(s, p) ==
  /\ p[1] \in PairKeys(s.name)
  /\ s.name # "socket" => p[3] \notin Refused
  /\ p[1] = "nodl_dir" => p[3] \in NodlDir

Given(s, k) == {i \in DOMAIN s.pairs : s.pairs[i][1] = k}
Value(s, k) == s.pairs[CHOOSE i \in Given(s, k) : \A j \in Given(s, k) : j <= i][3]

LoadNodlKept(dict, dir, id) ==
  DictAdd(dict, id, [dir |-> dir, whole |-> Nodl[dir][id] = "whole"])

(* load_nodl_dir, on the file of description id: it is added, and taken    *)
(* out again if it is not loaded to its end.  Taking out finds the first   *)
(* description of that id, which may be another.                           *)
LoadNodl(dict, dir, id) ==
  LET added == DictAdd(dict, id, [dir |-> dir, whole |-> Nodl[dir][id] = "whole"])
  IN  IF Nodl[dir][id] = "whole" THEN added ELSE DictDel(added, id)

(* The files of a directory, in the order of readdir, which is any.        *)
LoadNodlDir(dict, dir, order) ==
  LET loaded[i \in 0 .. Len(order)] ==
        IF i = 0 THEN dict ELSE LoadNodl(loaded[i - 1], dir, order[i])
  IN  loaded[Len(order)]

Orders(dir) == SetToSeqs(DOMAIN Nodl[dir])
-----------------------------------------------------------------------------
(* Structs                                                                 *)

Struct == structs[applied + 1]
Applying(name) == phase = "apply" /\ applied < Len(structs) /\ Struct.name = name
PairsAccepted == \A i \in DOMAIN Struct.pairs : PairAccepted(Struct, Struct.pairs[i])

NextStruct ==
  /\ applied' = applied + 1
  /\ UNCHANGED <<conf, stack, structs, phase, err, closing>>

(* An error ends bano_parser_foreach_struct; the parser is released, and   *)
(* bano_open goes on at on_error_0.                                        *)
StartRelease ==
  /\ phase' = "release"
  /\ closing' = Parts
  /\ structs' = <<>>
  /\ UNCHANGED <<conf, stack>>

StructFails ==
  /\ StartRelease
  /\ err' = TRUE
  /\ UNCHANGED applied

(* The program stops here, or stays here for ever.                         *)
EndsAs(how) ==
  /\ phase' = how
  /\ UNCHANGED <<conf, stack, structs, applied, err, baseVars, closing, history>>

(* The pairs are applied as they come, up to one that is refused; of what  *)
(* they set, the descriptions matter here.                                 *)
Applied == {i \in DOMAIN Struct.pairs : \A j \in 1 .. i : PairAccepted(Struct, Struct.pairs[j])}
NodlDirs == {i \in Applied : Struct.pairs[i][1] = "nodl_dir"}
DirOf(i) == Struct.pairs[i][3]
Outcomes(i) == {Nodl[DirOf(i)][id] : id \in DOMAIN Nodl[DirOf(i)]}
LoadsDirective == \E i \in NodlDirs : "directive" \in Outcomes(i)

LoadNodlDirs(orders) ==
  LET loaded[i \in 0 .. Len(Struct.pairs)] ==
        IF i = 0 THEN nodls
        ELSE IF i \in NodlDirs THEN LoadNodlDir(loaded[i - 1], DirOf(i), orders[i])
        ELSE loaded[i - 1]
  IN  loaded[Len(Struct.pairs)]

ApplyBase ==
  /\ Applying("base")
  /\ ~ LoadsDirective
  /\ \E orders \in [NodlDirs -> UNION {Orders(d) : d \in NodlDir}] :
       /\ \A i \in NodlDirs : orders[i] \in Orders(DirOf(i))
       /\ nodls' = LoadNodlDirs(orders)
  /\ IF PairsAccepted THEN NextStruct ELSE StructFails
  /\ UNCHANGED <<sockets, nodes, held, history>>

(* A description that is not parsed is freed twice by its parser, as any   *)
(* file is (ParseFails), which may end the program.                        *)
AbortInNodl ==
  /\ Applying("base")
  /\ \E i \in NodlDirs : /\ "syntax" \in Outcomes(i)
                         /\ \A j \in NodlDirs : j < i => "directive" \notin Outcomes(j)
  /\ EndsAs("abort")

(* load_nodl_file does not come back.                                      *)
HangInNodl ==
  /\ Applying("base")
  /\ LoadsDirective
  /\ EndsAs("hung")

(* The nodes of the list are freed, n times each, and left there.          *)
FreeNodes(n) ==
  frees' = [m \in DOMAIN frees |-> IF m \in DOMAIN nodes THEN frees[m] + n ELSE frees[m]]

AddSocket(kind) ==
  /\ sockets' = Append(sockets, kind)
  /\ UNCHANGED history

(* There is no memory for the item of the list: on_error_1 of              *)
(* bano_add_socket frees the socket, and bano_socket_free every node, which *)
(* nobody takes out of base->nodes.                                        *)
SocketUnlisted ==
  /\ FreeNodes(1)
  /\ unlisted' = unlisted + 1
  /\ UNCHANGED sockets

(* A type that is not "snrf" changes nothing: it may precede, or follow,   *)
(* one that is.  Without any, bano_socket_alloc fails; and so it may on    *)
(* the device.                                                             *)
ApplySocket ==
  /\ Applying("socket")
  /\ \/ /\ PairsAccepted
        /\ \E i \in Given(Struct, "type") : Struct.pairs[i][3] = "snrf"
        /\ \/ AddSocket("radio") /\ NextStruct
           \/ SocketUnlisted /\ StructFails
     \/ StructFails /\ UNCHANGED <<sockets, history>>
  /\ UNCHANGED <<nodls, nodes, held>>

LastSocket == Len(sockets)

(* ninfo->socket = base->sockets.head->data                                *)
FirstSocket == 1

NodeAccepted ==
  /\ sockets # <<>>
  /\ PairsAccepted
  /\ Given(Struct, "addr") # {}
  /\ Given(Struct, "nodl_id") # {}
  /\ Value(Struct, "nodl_id") \in DictKey
  /\ HasKey(nodls, Value(Struct, "nodl_id"))

ApplyNode ==
  /\ Applying("node")
  /\ IF NodeAccepted
       THEN LET id == Value(Struct, "nodl_id") IN
            /\ nodes' = Append(nodes, [id |-> id, nodl |-> DictGet(nodls, id), socket |-> FirstSocket])
            /\ frees' = Append(frees, 0)
            /\ NextStruct
       ELSE /\ StructFails
            /\ UNCHANGED <<nodes, frees>>
  /\ UNCHANGED <<nodls, sockets, held, unlisted>>

(* bano_httpd_init registers the socket of the pipe first, which may fail, *)
(* and leaves it registered when something else fails.                     *)
ApplyHttpd ==
  /\ Applying("http_server")
  /\ \/ /\ PairsAccepted
        /\ AddSocket("pipe")
        /\ \/ NextStruct /\ held' = held \cup {"thread"}
           \/ StructFails /\ UNCHANGED held
     \/ /\ PairsAccepted
        /\ SocketUnlisted
        /\ StructFails
        /\ UNCHANGED held
     \/ /\ StructFails
        /\ UNCHANGED <<sockets, held, history>>
  /\ UNCHANGED <<nodls, nodes>>

(* The cam and the sms struct: bano_cam_open and bano_sms_open release on  *)
(* their errors what they had opened.                                      *)
ApplyDevice(name, part) ==
  /\ Applying(name)
  /\ \/ /\ PairsAccepted
        /\ held' = held \cup {part}
        /\ NextStruct
     \/ /\ StructFails
        /\ UNCHANGED held
  /\ UNCHANGED <<nodls, sockets, nodes, history>>

KnownStructs == {"base", "socket", "node", "http_server", "cam", "sms"}

(* A struct with another name is passed over.                              *)
IgnoreStruct ==
  /\ phase = "apply" /\ applied < Len(structs)
  /\ Struct.name \notin KnownStructs
  /\ NextStruct
  /\ UNCHANGED <<baseVars, history>>

Opened ==
  /\ phase = "apply" /\ applied = Len(structs)
  /\ phase' = "run"
  /\ structs' = <<>>
  /\ UNCHANGED <<conf, stack, applied, err, baseVars, closing, history>>
-----------------------------------------------------------------------------
(* Release                                                                 *)

(* The configuration was not parsed: nothing is set up yet.                *)
LoadFailed ==
  /\ phase = "refused"
  /\ StartRelease
  /\ err' = TRUE
  /\ UNCHANGED <<applied, baseVars, history>>

(* bano_close, after the loop.                                             *)
Close ==
  /\ phase = "run"
  /\ StartRelease
  /\ UNCHANGED <<applied, err, baseVars, history>>

Releasing(part) ==
  /\ phase = "release" /\ closing # <<>> /\ Head(closing) = part
  /\ closing' = Tail(closing)
  /\ phase' = IF Len(closing) = 1 THEN "closed" ELSE phase
  /\ UNCHANGED <<conf, stack, structs, applied, err>>

(* bano_httpd_fini, bano_cam_close and bano_sms_close, if is_httpd, is_cam *)
(* and is_sms say so.                                                      *)
ReleaseDevice(part) ==
  /\ Releasing(part)
  /\ held' = held \ {part}
  /\ UNCHANGED <<nodls, sockets, nodes, history>>

(* bano_httpd_fini does not come back: BanoHttpd has the ways it may not.  *)
FiniWaits == closing # <<>> /\ Head(closing) = "thread" /\ "thread" \in held

HangInFini ==
  /\ phase = "release" /\ FiniWaits
  /\ EndsAs("hung")

ReleaseNodls ==
  /\ Releasing("nodls")
  /\ nodls' = EmptyDict
  /\ UNCHANGED <<sockets, nodes, held, history>>

(* bano_list_fini empties the list.                                        *)
ReleaseNodes ==
  /\ Releasing("nodes")
  /\ FreeNodes(1)
  /\ nodes' = <<>>
  /\ UNCHANGED <<nodls, sockets, held, unlisted>>

(* Where the C library notices that a node is freed again.                 *)
AbortInNodes ==
  /\ phase = "release" /\ closing # <<>> /\ Head(closing) = "nodes"
  /\ unlisted > 0 /\ nodes # <<>>
  /\ EndsAs("abort")

(* bano_socket_free frees the nodes that are in base->nodes, whatever      *)
(* their socket, and leaves them there.                                    *)
ReleaseSockets ==
  /\ Releasing("sockets")
  /\ FreeNodes(Len(sockets))
  /\ sockets' = <<>>
  /\ UNCHANGED <<nodls, nodes, held, unlisted>>

Proceed ==
  \/ ParserNext /\ UNCHANGED <<applied, err, baseVars, closing, history>>
  \/ ApplyBase \/ AbortInNodl \/ HangInNodl \/ ApplySocket \/ ApplyNode \/ ApplyHttpd
  \/ ApplyDevice("cam", "camera") \/ ApplyDevice("sms", "tls") \/ IgnoreStruct
  \/ Opened \/ LoadFailed
  \/ \E part \in {"thread", "camera", "tls"} : ReleaseDevice(part)
  \/ HangInFini \/ ReleaseNodls \/ ReleaseNodes \/ AbortInNodes \/ ReleaseSockets

Next == Proceed \/ Close

(* One thread, that waits for nothing but, in the loop, a signal to end.   *)
Spec == Init /\ [][Next]_vars /\ WF_vars(Proceed)
-----------------------------------------------------------------------------
(***************************************************************************)
(* However the opening fails, and at the closing, what was set up is       *)
(* released, each node once, although bano_socket_free frees nodes too.    *)
(* The one exception is a socket that could not be listed: all the nodes   *)
(* there are at that time are freed then, and a second time at the end.    *)
(***************************************************************************)
Released ==
  /\ \A n \in DOMAIN frees : frees[n] <= 1 + unlisted
  /\ unlisted <= 1
  /\ phase = "closed" =>
       /\ held = {} /\ sockets = <<>> /\ nodes = <<>>
       /\ \A n \in DOMAIN frees : frees[n] = 1 + unlisted

(***************************************************************************)
(* "must come before http_server as nodes are / associated to first socket *)
(* in list by default" (conf/base.conf:12-13): in a configuration that     *)
(* keeps to that, whatever it includes, each node is on the radio.         *)
(***************************************************************************)
SocketFirst ==
  \A i \in Begins(conf, "http_server") : \E j \in Begins(conf, "socket") : j < i

NodesOnRadio ==
  nodes # <<>> /\ SocketFirst =>
    \A n \in DOMAIN nodes : phase \in {"apply", "run"} => sockets[nodes[n].socket] = "radio"

(***************************************************************************)
(* No node has a description of which a part was refused, unless its id is *)
(* described twice: bano_dict_del then takes out the description that was  *)
(* there, and leaves the one that failed.                                  *)
(***************************************************************************)
DescribedTwice(id) ==
  LET t == Expanded[conf] IN
  Cardinality({i \in 1 .. Len(t) - 2 :
     t[i] = "nodl_dir" /\ t[i + 2] \in NodlDir /\ id \in DOMAIN Nodl[t[i + 2]]}) > 1

NodlWhole ==
  \A n \in DOMAIN nodes : nodes[n].nodl.whole \/ DescribedTwice(nodes[n].id)

(***************************************************************************)
(* The opening and the closing end, whatever fails: the program runs the   *)
(* loop or stops.  The exceptions are three waits without an end: a        *)
(* directive other than .include in the configuration, or in a description *)
(* that is loaded, where the parser stays; and bano_httpd_fini, once the   *)
(* thread of the server was started.                                       *)
(***************************************************************************)
Settles ==
  []<>(\/ phase \in {"run", "closed", "abort"}
       \/ Looking /\ Token \in OtherDirective
       \/ phase = "hung" /\ applied < Len(structs) /\ LoadsDirective
       \/ phase = "hung" /\ FiniWaits)
=============================================================================
