-------------------------- MODULE BanoOpen_proofs --------------------------
(***************************************************************************)
(* The opening of the base, for any configuration, any node descriptions   *)
(* and any order in which they are read: what was set up is released, and  *)
(* no node is freed twice; the structs are those of the configuration;     *)
(* nodes are on the radio; and their descriptions are whole.               *)
(***************************************************************************)
EXTENDS BanoOpen, SeqLemmas, FiniteSetTheorems

(* The nodes are in the list, and none was freed, but for a socket that    *)
(* could not be listed.                                                    *)
NodesKept ==
  /\ \E S : nodes \in Seq(S)
  /\ frees \in Seq(Nat) /\ Len(frees) = Len(nodes)
  /\ unlisted \in {0, 1}
  /\ \A n \in 1 .. Len(frees) : frees[n] = unlisted

(* The list is empty, and each node was freed, and again after that.       *)
NodesFreed ==
  /\ nodes = <<>>
  /\ frees \in Seq(Nat)
  /\ unlisted \in {0, 1}
  /\ \A n \in 1 .. Len(frees) : frees[n] = 1 + unlisted

(* Nothing has failed yet for which the nodes would be freed.              *)
Going == {"load", "parse", "apply", "refused", "run"}

Devices == {"thread", "camera", "tls"}

(* How far the release has come.  bano_socket_free is called when the list *)
(* of nodes is empty already.                                              *)
Unwound ==
  \/ /\ closing = <<"thread", "camera", "tls", "nodls", "nodes", "sockets">>
     /\ NodesKept
  \/ closing = <<"camera", "tls", "nodls", "nodes", "sockets">> /\ NodesKept /\ "thread" \notin held
  \/ closing = <<"tls", "nodls", "nodes", "sockets">> /\ NodesKept /\ held \subseteq {"tls"}
  \/ closing = <<"nodls", "nodes", "sockets">> /\ NodesKept /\ held = {}
  \/ closing = <<"nodes", "sockets">> /\ NodesKept /\ held = {}
  \/ closing = <<"sockets">> /\ NodesFreed /\ held = {}

IInv ==
  /\ phase \in Going \cup {"abort", "hung", "release", "closed"}
  /\ held \subseteq Devices
  /\ phase \notin {"release", "closed"} => NodesKept
  /\ phase \in Going => unlisted = 0
  /\ phase = "release" => Unwound
  /\ phase = "closed" => NodesFreed /\ held = {} /\ sockets = <<>>
-----------------------------------------------------------------------------
LEMMA InitIInv == Init => IInv
<1> SUFFICES ASSUME Init PROVE IInv
  OBVIOUS
<1>1. nodes \in Seq({}) /\ frees \in Seq(Nat) /\ Len(nodes) = 0 /\ Len(frees) = 0 /\ unlisted = 0
  BY DEF Init
<1>2. NodesKept
  BY <1>1 DEF NodesKept
<1> QED BY <1>1, <1>2 DEF Init, ParserInit, IInv, Devices, Going

(* A step of the parser, or one that applies a struct and goes on.         *)
LEMMA GoesOn ==
  ASSUME IInv, phase \in Going, phase' \in Going \cup {"abort", "hung"},
         held' \subseteq Devices, NodesKept', UNCHANGED unlisted
  PROVE  IInv'
BY DEF IInv, Going

LEMMA Keeps ==
  ASSUME NodesKept, UNCHANGED <<nodes, history>>
  PROVE  NodesKept'
BY DEF NodesKept, history

LEMMA NodesKeptGoing ==
  ASSUME IInv, phase \in Going
  PROVE  NodesKept /\ unlisted = 0 /\ held \subseteq Devices
BY DEF IInv, Going

(* One that starts the release.                                            *)
LEMMA StartReleaseStep ==
  ASSUME IInv, StartRelease, NodesKept', held' \subseteq Devices
  PROVE  IInv'
<1>2. /\ phase' = "release"
      /\ closing' = <<"thread", "camera", "tls", "nodls", "nodes", "sockets">>
  BY DEF StartRelease, Parts
<1> QED BY <1>2 DEF IInv, Unwound, Going

LEMMA ParserStep ==
  ASSUME IInv, ParserNext, UNCHANGED <<baseVars, history>>
  PROVE  IInv'
<1>1. phase \in {"load", "parse"} /\ phase' \in {"load", "parse", "apply", "refused", "abort"}
  BY DEF ParserNext, LoadFile, ParseStruct, ParseInclude, ParseOtherDirective, EndBuf,
     ParseFails, Looking, parserVars
<1>2. NodesKept' /\ held' \subseteq Devices /\ UNCHANGED unlisted
  BY <1>1, Keeps, NodesKeptGoing DEF Going, baseVars, history
<1> QED BY <1>1, <1>2, GoesOn DEF Going

(* A node that is added was not freed.                                     *)
LEMMA ApplyNodeStep == IInv /\ ApplyNode => IInv'
<1> SUFFICES ASSUME IInv, ApplyNode PROVE IInv'
  OBVIOUS
<1>1. /\ phase \in Going /\ UNCHANGED <<nodls, sockets, held, unlisted>>
      /\ held \subseteq Devices /\ NodesKept /\ unlisted = 0
  BY NodesKeptGoing DEF ApplyNode, Applying, Going
<1>2. CASE ~ NodeAccepted
  <2>1. StartRelease /\ UNCHANGED <<nodes, history>>
    BY <1>1, <1>2 DEF ApplyNode, StructFails, history
  <2> QED BY <1>1, <2>1, Keeps, StartReleaseStep
<1>3. CASE NodeAccepted
  <2>1. PICK e : nodes' = Append(nodes, e) /\ frees' = Append(frees, 0) /\ phase' = phase
    BY <1>3 DEF ApplyNode, NextStruct
  <2>2. PICK S : nodes \in Seq(S)
    BY <1>1 DEF NodesKept
  <2>3. nodes \in Seq(S \cup {e}) /\ e \in S \cup {e}
    <3>1. Len(nodes) \in Nat /\ nodes \in [1 .. Len(nodes) -> S]
      BY <2>2, LenProperties
    <3>2. nodes \in [1 .. Len(nodes) -> S \cup {e}]
      BY <3>1
    <3> QED BY <3>1, <3>2
  <2>4. nodes' \in Seq(S \cup {e}) /\ Len(nodes') = Len(nodes) + 1
    BY <2>1, <2>3, AppendProperties
  <2>5. /\ frees' \in Seq(Nat) /\ Len(frees') = Len(frees) + 1
        /\ \A n \in 1 .. Len(frees') : frees'[n] = 0
    BY <1>1, <2>1, AppendProperties DEF NodesKept
  <2>6. NodesKept'
    BY <1>1, <2>4, <2>5 DEF NodesKept
  <2> QED BY <1>1, <2>1, <2>6, GoesOn
<1> QED BY <1>2, <1>3

(* The other structs leave the nodes alone.                                *)
LEMMA ApplyStep ==
  ASSUME IInv, phase = "apply", UNCHANGED <<nodes, history>>, held' \subseteq Devices,
         NextStruct \/ StructFails
  PROVE  IInv'
<1>0. phase \in Going /\ NodesKept' /\ UNCHANGED unlisted
  BY Keeps, NodesKeptGoing DEF Going, history
<1>1. CASE NextStruct
  <2>1. phase' = phase
    BY <1>1 DEF NextStruct
  <2> QED BY <1>0, <2>1, GoesOn
<1>2. CASE StructFails
  BY <1>0, <1>2, StartReleaseStep DEF StructFails
<1> QED BY <1>1, <1>2

(* A socket that is not listed frees each node a first time.               *)
LEMMA UnlistedStep ==
  ASSUME IInv, phase = "apply", SocketUnlisted, StructFails, UNCHANGED <<nodes, held>>
  PROVE  IInv'
<1>1. NodesKept /\ unlisted = 0 /\ held \subseteq Devices
  BY NodesKeptGoing DEF Going
<1>2. /\ frees \in Seq(Nat) /\ Len(frees) \in Nat /\ DOMAIN frees = 1 .. Len(frees)
      /\ DOMAIN nodes = 1 .. Len(frees) /\ \A n \in 1 .. Len(frees) : frees[n] = 0
      /\ Len(frees) = Len(nodes)
  BY <1>1, LenProperties DEF NodesKept
<1>3. frees' = [n \in 1 .. Len(frees) |-> 1] /\ unlisted' = 1
  BY <1>1, <1>2 DEF SocketUnlisted, FreeNodes
<1>4. frees' \in Seq(Nat) /\ Len(frees') = Len(nodes) /\ \A n \in 1 .. Len(frees') : frees'[n] = 1
  BY <1>2, <1>3
<1>5. NodesKept'
  BY <1>1, <1>3, <1>4 DEF NodesKept
<1> QED BY <1>1, <1>5, StartReleaseStep DEF StructFails

LEMMA ReleaseDeviceStep ==
  ASSUME IInv, NEW part \in Devices, ReleaseDevice(part)
  PROVE  IInv'
<1>1. /\ phase = "release" /\ Head(closing) = part /\ closing' = Tail(closing)
      /\ phase' = IF Len(closing) = 1 THEN "closed" ELSE phase
      /\ held' = held \ {part} /\ UNCHANGED <<nodes, history>>
  BY DEF ReleaseDevice, Releasing
<1>2. Unwound /\ held \subseteq Devices
  BY <1>1 DEF IInv
<1>3. NodesKept => NodesKept'
  BY <1>1, Keeps
<1>4. CASE part = "thread"
  <2>1. closing = <<"thread", "camera", "tls", "nodls", "nodes", "sockets">> /\ NodesKept
    BY <1>1, <1>2, <1>4 DEF Unwound
  <2>2. closing' = <<"camera", "tls", "nodls", "nodes", "sockets">> /\ phase' = "release"
    BY <1>1, <2>1
  <2> QED BY <1>1, <1>2, <1>3, <1>4, <2>1, <2>2 DEF IInv, Unwound, Going
<1>5. CASE part = "camera"
  <2>1. /\ closing = <<"camera", "tls", "nodls", "nodes", "sockets">> /\ NodesKept
        /\ "thread" \notin held
    BY <1>1, <1>2, <1>5 DEF Unwound
  <2>2. closing' = <<"tls", "nodls", "nodes", "sockets">> /\ phase' = "release"
    BY <1>1, <2>1
  <2> QED BY <1>1, <1>2, <1>3, <1>5, <2>1, <2>2 DEF IInv, Unwound, Devices, Going
<1>6. CASE part = "tls"
  <2>1. closing = <<"tls", "nodls", "nodes", "sockets">> /\ NodesKept /\ held \subseteq {"tls"}
    BY <1>1, <1>2, <1>6 DEF Unwound
  <2>2. closing' = <<"nodls", "nodes", "sockets">> /\ phase' = "release"
    BY <1>1, <2>1
  <2> QED BY <1>1, <1>2, <1>3, <1>6, <2>1, <2>2 DEF IInv, Unwound, Going
<1> QED BY <1>4, <1>5, <1>6 DEF Devices

LEMMA ReleaseNodlsStep == IInv /\ ReleaseNodls => IInv'
<1> SUFFICES ASSUME IInv, ReleaseNodls PROVE IInv'
  OBVIOUS
<1>1. /\ phase = "release" /\ Head(closing) = "nodls" /\ closing' = Tail(closing)
      /\ phase' = IF Len(closing) = 1 THEN "closed" ELSE phase
      /\ UNCHANGED <<nodes, history, held>>
  BY DEF ReleaseNodls, Releasing
<1>2. closing = <<"nodls", "nodes", "sockets">> /\ NodesKept /\ held = {}
  BY <1>1 DEF IInv, Unwound
<1>3. closing' = <<"nodes", "sockets">> /\ phase' = "release"
  BY <1>1, <1>2
<1> QED BY <1>1, <1>2, <1>3, Keeps DEF IInv, Unwound, Going

LEMMA ReleaseNodesStep == IInv /\ ReleaseNodes => IInv'
<1> SUFFICES ASSUME IInv, ReleaseNodes PROVE IInv'
  OBVIOUS
<1>1. /\ phase = "release" /\ Head(closing) = "nodes" /\ closing' = Tail(closing)
      /\ phase' = IF Len(closing) = 1 THEN "closed" ELSE phase
      /\ held' = held /\ nodes' = <<>> /\ unlisted' = unlisted
      /\ frees' = [n \in DOMAIN frees |-> IF n \in DOMAIN nodes THEN frees[n] + 1 ELSE frees[n]]
  BY DEF ReleaseNodes, Releasing, FreeNodes
<1>2. closing = <<"nodes", "sockets">> /\ NodesKept /\ held = {}
  BY <1>1 DEF IInv, Unwound
<1>3. closing' = <<"sockets">> /\ phase' = "release"
  BY <1>1, <1>2
<1>4. /\ frees \in Seq(Nat) /\ Len(frees) \in Nat /\ DOMAIN frees = 1 .. Len(frees)
      /\ DOMAIN nodes = 1 .. Len(frees) /\ \A n \in 1 .. Len(frees) : frees[n] = unlisted
      /\ unlisted \in {0, 1}
  BY <1>2, LenProperties DEF NodesKept
<1>5. frees' = [n \in 1 .. Len(frees) |-> 1 + unlisted]
  BY <1>1, <1>4
<1>6. frees' \in Seq(Nat) /\ \A n \in 1 .. Len(frees') : frees'[n] = 1 + unlisted
  BY <1>4, <1>5
<1>7. NodesFreed'
  BY <1>1, <1>4, <1>6 DEF NodesFreed
<1> QED BY <1>1, <1>2, <1>3, <1>7 DEF IInv, Unwound, Going

(* bano_socket_free finds no node left to free.                            *)
LEMMA ReleaseSocketsStep == IInv /\ ReleaseSockets => IInv'
<1> SUFFICES ASSUME IInv, ReleaseSockets PROVE IInv'
  OBVIOUS
<1>1. /\ phase = "release" /\ Head(closing) = "sockets" /\ closing' = Tail(closing)
      /\ phase' = IF Len(closing) = 1 THEN "closed" ELSE phase
      /\ held' = held /\ nodes' = nodes /\ sockets' = <<>> /\ unlisted' = unlisted
      /\ frees' = [n \in DOMAIN frees |->
                     IF n \in DOMAIN nodes THEN frees[n] + Len(sockets) ELSE frees[n]]
  BY DEF ReleaseSockets, Releasing, FreeNodes
<1>2. closing = <<"sockets">> /\ NodesFreed /\ held = {}
  BY <1>1 DEF IInv, Unwound
<1>3. phase' = "closed"
  BY <1>1, <1>2
<1>4. frees \in Seq(Nat) /\ DOMAIN nodes = {}
  BY <1>2 DEF NodesFreed
<1>5. frees' = [n \in DOMAIN frees |-> frees[n]]
  BY <1>1, <1>4
<1>6. frees' = frees
  BY <1>4, <1>5
<1> QED BY <1>1, <1>2, <1>3, <1>6 DEF IInv, NodesFreed, Going

(* The steps after which there is none.                                    *)
LEMMA EndsStep ==
  ASSUME IInv, AbortInNodl \/ HangInNodl \/ HangInFini \/ AbortInNodes
  PROVE  IInv'
<1>1. /\ phase' \in {"abort", "hung"} /\ UNCHANGED <<nodes, history, held>>
  BY DEF AbortInNodl, HangInNodl, HangInFini, AbortInNodes, EndsAs, baseVars
<1>2. CASE AbortInNodl \/ HangInNodl
  <2>1. NodesKept /\ held \subseteq Devices
    BY <1>2, NodesKeptGoing DEF AbortInNodl, HangInNodl, Applying, Going
  <2> QED BY <1>1, <2>1, Keeps DEF IInv, Going
<1>3. CASE HangInFini \/ AbortInNodes
  <2>1. phase = "release" /\ Head(closing) \in {"thread", "nodes"}
    BY <1>3 DEF HangInFini, FiniWaits, AbortInNodes
  <2>2. NodesKept /\ held \subseteq Devices
    BY <2>1 DEF IInv, Unwound
  <2> QED BY <1>1, <2>2, Keeps DEF IInv, Going
<1> QED BY <1>2, <1>3

LEMMA Step == IInv /\ [Next]_vars => IInv'
<1> SUFFICES ASSUME IInv, [Next]_vars PROVE IInv'
  OBVIOUS
<1>0. phase = "apply" => held \subseteq Devices /\ NodesKept
  BY NodesKeptGoing DEF Going
<1>1. CASE ParserNext /\ UNCHANGED <<applied, err, baseVars, closing, history>>
  BY <1>1, ParserStep
<1>2. CASE ApplyBase
  BY <1>0, <1>2, ApplyStep DEF ApplyBase, Applying
<1>3. CASE AbortInNodl \/ HangInNodl \/ HangInFini \/ AbortInNodes
  BY <1>3, EndsStep
<1>4. CASE ApplySocket
  <2>1. phase = "apply" /\ UNCHANGED <<nodes, held>>
    BY <1>4 DEF ApplySocket, Applying
  <2>2. \/ UNCHANGED history /\ (NextStruct \/ StructFails)
        \/ SocketUnlisted /\ StructFails
    BY <1>4, Zenon DEF ApplySocket, AddSocket
  <2> QED BY <1>0, <2>1, <2>2, ApplyStep, UnlistedStep
<1>5. CASE ApplyNode
  BY <1>5, ApplyNodeStep
<1>6. CASE ApplyHttpd
  <2>1. phase = "apply" /\ UNCHANGED nodes
    BY <1>6 DEF ApplyHttpd, Applying
  <2>2. \/ /\ UNCHANGED history /\ (NextStruct \/ StructFails)
           /\ held' = held \/ held' = held \cup {"thread"}
        \/ SocketUnlisted /\ StructFails /\ held' = held
    BY <1>6, Zenon DEF ApplyHttpd, AddSocket
  <2>3. held' \subseteq Devices
    BY <1>0, <2>1, <2>2 DEF Devices
  <2> QED BY <2>1, <2>2, <2>3, ApplyStep, UnlistedStep
<1>7. ASSUME NEW name, NEW part \in Devices, ApplyDevice(name, part) PROVE IInv'
  <2>1. /\ phase = "apply" /\ UNCHANGED <<nodes, history>> /\ (NextStruct \/ StructFails)
        /\ held' = held \/ held' = held \cup {part}
    BY <1>7 DEF ApplyDevice, Applying
  <2>2. held' \subseteq Devices
    BY <1>0, <2>1
  <2> QED BY <2>1, <2>2, ApplyStep
<1>8. CASE IgnoreStruct
  BY <1>0, <1>8, ApplyStep DEF IgnoreStruct, baseVars
<1>9. CASE Opened
  <2>1. phase = "apply" /\ phase' = "run" /\ UNCHANGED <<nodes, history, held>>
    BY <1>9 DEF Opened, baseVars
  <2> QED BY <1>0, <2>1, GoesOn, Keeps DEF Going, history
<1>10. CASE LoadFailed \/ Close
  <2>1. phase \in Going /\ StartRelease /\ UNCHANGED <<nodes, history, held>>
    BY <1>10 DEF LoadFailed, Close, baseVars, Going
  <2> QED BY <2>1, StartReleaseStep, Keeps, NodesKeptGoing
<1>11. CASE \E part \in {"thread", "camera", "tls"} : ReleaseDevice(part)
  BY <1>11, ReleaseDeviceStep DEF Devices
<1>12. CASE ReleaseNodls \/ ReleaseNodes \/ ReleaseSockets
  BY <1>12, ReleaseNodlsStep, ReleaseNodesStep, ReleaseSocketsStep
<1>13. CASE UNCHANGED vars
  <2>1. UNCHANGED <<phase, held, nodes, frees, unlisted, sockets, closing>>
    BY <1>13 DEF vars, baseVars, parserVars, history
  <2> QED BY <2>1 DEF IInv, NodesKept, NodesFreed, Unwound
<1>14. CASE ApplyDevice("cam", "camera") \/ ApplyDevice("sms", "tls")
  BY <1>7, <1>14 DEF Devices
<1> QED BY <1>1, <1>2, <1>3, <1>4, <1>5, <1>6, <1>8, <1>9, <1>10, <1>11, <1>12, <1>13, <1>14
        DEF Next, Proceed
-----------------------------------------------------------------------------
(* The text of a configuration                                             *)

Token0 == UNION {ToSet(Text[f]) : f \in File}
Tok == Token0 \cup {"{", "}"}

(* What stands for token i of f, when e has the text of the other files.   *)
ExpandAt(e, f, i) ==
  CASE Named(f, i)     -> e[Text[f][i]]
    [] Named(f, i + 1) -> <<>>
    [] OTHER           -> <<Text[f][i]>>

Body(e, f) == FlattenSeq([i \in DOMAIN Text[f] |-> ExpandAt(e, f, i)])

LEMMA TextFacts ==
  ASSUME NEW f \in File
  PROVE  /\ Text[f] \in Seq(Tok) /\ Len(Text[f]) \in Nat /\ DOMAIN Text[f] = 1 .. Len(Text[f])
         /\ \A i \in 1 .. Len(Text[f]) : Text[f][i] \in Tok
<1>1. Text[f] \in Seq(ToSet(Text[f])) /\ ToSet(Text[f]) \subseteq Tok
  <2>1. Text[f] \in Seq(ToSet(Text[f]))
    BY ParserAssumption, Zenon
  <2>2. ToSet(Text[f]) \subseteq Token0
    BY Zenon DEF Token0
  <2> QED BY <2>1, <2>2, Zenon DEF Tok
<1>2. Text[f] \in Seq(Tok)
  BY <1>1, SeqMonotonic
<1> QED BY <1>2, LenProperties

LEMMA NamedIncluded ==
  ASSUME NEW f \in File, NEW i, Named(f, i)
  PROVE  i \in 1 .. Len(Text[f]) /\ Text[f][i] \in IncludedBy({f})
<1>1. Len(Text[f]) \in Nat
  BY TextFacts
<1>2. i \in 2 .. Len(Text[f]) /\ Text[f][i - 1] = IncludeDirective /\ Text[f][i] \in File
  BY DEF Named
<1>3. i - 1 \in 1 .. Len(Text[f]) - 1 /\ (i - 1) + 1 = i
  BY <1>1, <1>2
<1>4. Includes(f, Text[f][i])
  BY <1>2, <1>3 DEF Includes
<1> QED BY <1>1, <1>2, <1>4 DEF IncludedBy

LEMMA ExpandAtType ==
  ASSUME NEW f \in File, NEW e, \A g \in IncludedBy({f}) : e[g] \in Seq(Tok)
  PROVE  \A i \in 1 .. Len(Text[f]) : ExpandAt(e, f, i) \in Seq(Tok)
<1> SUFFICES ASSUME NEW i \in 1 .. Len(Text[f])
             PROVE  ExpandAt(e, f, i) \in Seq(Tok)
  OBVIOUS
<1>1. <<>> \in Seq(Tok) /\ <<Text[f][i]>> \in Seq(Tok)
  BY TextFacts
<1>2. Named(f, i) => e[Text[f][i]] \in Seq(Tok)
  BY NamedIncluded
<1> QED BY <1>1, <1>2 DEF ExpandAt

LEMMA BodyType ==
  ASSUME NEW f \in File, NEW e, \A g \in IncludedBy({f}) : e[g] \in Seq(Tok)
  PROVE  Body(e, f) \in Seq(Tok)
<1>1. PICK n \in Nat : n = Len(Text[f]) /\ DOMAIN Text[f] = 1 .. n
  BY TextFacts
<1>2. PICK ss : ss = [i \in 1 .. n |-> ExpandAt(e, f, i)]
  OBVIOUS
<1>3. PICK Q : Q = Seq(Tok)
  OBVIOUS
<1>4. ss \in [1 .. n -> Q]
  BY <1>1, <1>2, <1>3, ExpandAtType
<1>5. ss \in Seq(Q)
  BY <1>4
<1>6. ss \in Seq(Seq(Tok))
  BY <1>3, <1>5
<1>7. FlattenSeq(ss) \in Seq(Tok)
  BY <1>6, FlattenElements
<1> QED BY <1>1, <1>2, <1>7 DEF Body

(* It depends on the files that f includes only.                           *)
LEMMA BodyAgrees ==
  ASSUME NEW f \in File, NEW e, NEW d, \A g \in IncludedBy({f}) : e[g] = d[g]
  PROVE  Body(e, f) = Body(d, f)
<1>1. \A i : ExpandAt(e, f, i) = ExpandAt(d, f, i)
  <2> TAKE i
  <2>1. Named(f, i) => e[Text[f][i]] = d[Text[f][i]]
    BY NamedIncluded
  <2> QED BY <2>1 DEF ExpandAt
<1> QED BY <1>1 DEF Body

(* There is a file in every set of files that includes none of the others. *)
LEMMA OneIncludesNone ==
  ASSUME NEW S \in SUBSET File, S # {}
  PROVE  \E f \in S : IncludedBy({f}) \cap S = {}
<1> SUFFICES ASSUME \A f \in S : IncludedBy({f}) \cap S # {}
             PROVE  FALSE
  OBVIOUS
<1> DEFINE R == S \cap IncludedBy(S)
<1>1. \A f \in S : IncludedBy({f}) \cap R # {}
  <2> SUFFICES ASSUME NEW f \in S
               PROVE  IncludedBy({f}) \cap R # {}
    OBVIOUS
  <2>1. PICK g \in IncludedBy({f}) : g \in S
    OBVIOUS
  <2>2. g \in IncludedBy(S)
    BY <2>1 DEF IncludedBy
  <2> QED BY <2>1, <2>2
<1>2. R # {} /\ R \subseteq S
  BY <1>1
<1>3. R \subseteq {f \in IncludedBy(File) : IncludedBy({f}) # {}}
  <2> SUFFICES ASSUME NEW f \in R
               PROVE  f \in IncludedBy(File) /\ IncludedBy({f}) # {}
    OBVIOUS
  <2>1. f \in IncludedBy(File)
    BY DEF IncludedBy
  <2> QED BY <1>1, <2>1
<1> HIDE DEF R
<1>4. PICK f \in R : IncludedBy({f}) \cap R = {}
  BY <1>2, <1>3, ParserAssumption
<1> QED BY <1>1, <1>2, <1>4

(* A text for some of the files, and for all that these include.           *)
Partial(D, e) ==
  /\ D \subseteq File /\ \A f \in D : IncludedBy({f}) \subseteq D
  /\ e \in [D -> Seq(Tok)] /\ \A f \in D : e[f] = Body(e, f)

LEMMA PartialUnique ==
  ASSUME NEW D, NEW e, Partial(D, e), NEW C, NEW d, Partial(C, d)
  PROVE  \A f \in D \cap C : e[f] = d[f]
<1> DEFINE S == {f \in D \cap C : e[f] # d[f]}
<1> SUFFICES ASSUME S # {} PROVE FALSE
  OBVIOUS
<1>1. S \in SUBSET File
  BY DEF Partial
<1>2. PICK f \in S : IncludedBy({f}) \cap S = {}
  BY <1>1, OneIncludesNone
<1>3. f \in File /\ f \in D /\ f \in C /\ e[f] # d[f]
  BY <1>1, <1>2
<1>4. \A g \in IncludedBy({f}) : e[g] = d[g]
  BY <1>2, <1>3 DEF Partial
<1>5. Body(e, f) = Body(d, f)
  BY <1>3, <1>4, BodyAgrees
<1> QED BY <1>3, <1>5 DEF Partial

(* Each file has a text: Expanded is what its definition says it is.       *)
LEMMA ExpandedExists ==
  \E e \in [File -> Seq(Tok)] : \A f \in File : e[f] = Body(e, f)
<1> DEFINE G == {f \in File : \E D, e : Partial(D, e) /\ f \in D}
           The(f) == CHOOSE t \in Seq(Tok) : \E D, e : Partial(D, e) /\ f \in D /\ t = e[f]
<1>1. PICK h : h = [f \in G |-> The(f)]
  OBVIOUS
<1>2. ASSUME NEW D, NEW e, Partial(D, e)
      PROVE  D \subseteq G /\ \A f \in D : h[f] = e[f]
  <2>1. D \subseteq G
    BY <1>2 DEF Partial
  <2>2. ASSUME NEW f \in D
        PROVE  h[f] = e[f]
    <3>1. e[f] \in Seq(Tok) /\ f \in G
      BY <1>2, <2>1 DEF Partial
    <3>2. The(f) \in Seq(Tok) /\ \E C, d : Partial(C, d) /\ f \in C /\ The(f) = d[f]
      BY <1>2, <3>1
    <3>3. PICK C, d : Partial(C, d) /\ f \in C /\ The(f) = d[f]
      BY <3>2
    <3>4. e[f] = d[f]
      BY <1>2, <3>3, PartialUnique
    <3> QED BY <1>1, <3>1, <3>3, <3>4
  <2> QED BY <2>1, <2>2
<1> HIDE DEF The
<1>3. Partial(G, h)
  <2>1. G \subseteq File
    OBVIOUS
  <2>2. ASSUME NEW f \in G
        PROVE  IncludedBy({f}) \subseteq G /\ h[f] \in Seq(Tok) /\ h[f] = Body(h, f)
    <3>1. PICK D, e : Partial(D, e) /\ f \in D
      OBVIOUS
    <3>2. f \in File /\ IncludedBy({f}) \subseteq D /\ e[f] \in Seq(Tok) /\ e[f] = Body(e, f)
      BY <3>1 DEF Partial
    <3>3. D \subseteq G /\ \A g \in D : h[g] = e[g]
      BY <1>2, <3>1
    <3>4. Body(h, f) = Body(e, f)
      BY <3>2, <3>3, BodyAgrees
    <3> QED BY <3>1, <3>2, <3>3, <3>4
  <2>3. h \in [G -> Seq(Tok)]
    BY <1>1, <2>2
  <2> QED BY <2>1, <2>2, <2>3 DEF Partial
<1>4. G = File
  <2> SUFFICES ASSUME File \ G # {} PROVE FALSE
    OBVIOUS
  <2>1. PICK f \in File \ G : IncludedBy({f}) \cap (File \ G) = {}
    <3>1. File \ G \in SUBSET File
      OBVIOUS
    <3> QED BY <3>1, OneIncludesNone
  <2>2. IncludedBy({f}) \subseteq G
    BY <2>1 DEF IncludedBy
  <2> DEFINE C == G \cup {f}
  <2>3. PICK d : d = [g \in C |-> IF g = f THEN Body(h, f) ELSE h[g]]
    OBVIOUS
  <2>4. \A g \in G : d[g] = h[g] /\ g # f
    BY <2>1, <2>3
  <2>5. /\ h \in [G -> Seq(Tok)] /\ \A g \in G : IncludedBy({g}) \subseteq G /\ h[g] = Body(h, g)
        /\ G \subseteq File
    BY <1>3 DEF Partial
  <2>6. Body(h, f) \in Seq(Tok)
    BY <2>1, <2>2, <2>5, BodyType
  <2>7. d \in [C -> Seq(Tok)]
    BY <2>3, <2>5, <2>6
  <2>8. \A g \in C : IncludedBy({g}) \subseteq G /\ g \in File
    BY <2>1, <2>2, <2>5
  <2>9. ASSUME NEW g \in C
        PROVE  d[g] = Body(d, g)
    <3>1. Body(d, g) = Body(h, g)
      BY <2>4, <2>8, BodyAgrees
    <3>2. d[g] = Body(h, g)
      BY <2>3, <2>5
    <3> QED BY <3>1, <3>2
  <2>10. Partial(C, d)
    BY <2>7, <2>8, <2>9 DEF Partial
  <2>11. f \in G
    BY <2>1, <2>10
  <2> QED BY <2>1, <2>11
<1> HIDE DEF G
<1>5. h \in [File -> Seq(Tok)] /\ \A f \in File : h[f] = Body(h, f)
  BY <1>3, <1>4 DEF Partial
<1> QED BY <1>5

LEMMA ExpandedIs == Expanded \in [File -> Seq(Tok)] /\ \A f \in File : Expanded[f] = Body(Expanded, f)
<1>1. PICK e : e \in [File -> Seq(Tok)] /\ \A f \in File : e[f] = Body(e, f)
  BY ExpandedExists
<1>2. e = [f \in File |-> Body(e, f)]
  BY <1>1
<1>3. Expanded = CHOOSE d : d = [f \in File |-> Body(d, f)]
  BY Zenon DEF Expanded, Body, ExpandAt
<1>4. Expanded = [f \in File |-> Body(Expanded, f)]
  BY <1>2, <1>3
<1> DEFINE S == {f \in File : Expanded[f] # e[f]}
<1>5. S = {}
  <2> SUFFICES ASSUME S # {} PROVE FALSE
    OBVIOUS
  <2>1. S \in SUBSET File
    OBVIOUS
  <2>2. PICK f \in S : IncludedBy({f}) \cap S = {}
    BY <2>1, OneIncludesNone
  <2>3. \A g \in IncludedBy({f}) : Expanded[g] = e[g]
    BY <2>2 DEF IncludedBy
  <2>4. f \in File /\ Expanded[f] # e[f]
    BY <2>2
  <2>5. Body(Expanded, f) = Body(e, f)
    BY <2>3, <2>4, BodyAgrees
  <2>6. Expanded[f] = Body(Expanded, f)
    BY <1>4, <2>4
  <2> QED BY <1>1, <2>4, <2>5, <2>6
<1>6. DOMAIN Expanded = File /\ \A f \in File : Expanded[f] = e[f]
  <2>1. DOMAIN Expanded = File
    BY <1>4
  <2> QED BY <1>5, <2>1
<1>7. Expanded = e
  <2>1. Expanded = [f \in File |-> Expanded[f]]
    BY <1>4
  <2>2. e = [f \in File |-> Expanded[f]]
    BY <1>1, <1>6
  <2> QED BY <2>1, <2>2
<1> QED BY <1>1, <1>7
-----------------------------------------------------------------------------
(* What was parsed of a file                                               *)

(* The end of the struct that begins at token i.                           *)
Closes(t, i, j) == j \in Closings(t, i) /\ \A c \in Closings(t, i) : j <= c

(* A configuration without the name of a file after a directive in a pair: *)
(* the parser takes any three words for a pair, and keeps them as they     *)
(* stand.  No file has the name of the directive.                          *)
PlainText ==
  /\ IncludeDirective \notin File
  /\ \A f \in File : \A i \in 1 .. Len(Text[f]) : \A j \in Closings(Text[f], i) :
       Closes(Text[f], i, j) => \A m \in i + 2 .. j : ~ Named(f, m)

(* What the first a tokens of f stand for.                                 *)
Pre(f, a) == FlattenSeq([i \in 1 .. a |-> ExpandAt(Expanded, f, i)])

LEMMA PreFacts ==
  ASSUME NEW f \in File
  PROVE  /\ Pre(f, 0) = <<>> /\ Pre(f, Len(Text[f])) = Expanded[f]
         /\ \A a \in 0 .. Len(Text[f]) : Pre(f, a) \in Seq(Tok)
         /\ \A a \in 1 .. Len(Text[f]) :
              /\ Pre(f, a) = Pre(f, a - 1) \o ExpandAt(Expanded, f, a)
              /\ ExpandAt(Expanded, f, a) \in Seq(Tok)
<1>1. PICK n \in Nat : n = Len(Text[f]) /\ DOMAIN Text[f] = 1 .. n
  BY TextFacts
<1>2. PICK Q : Q = Seq(Tok)
  OBVIOUS
<1>3. \A i \in 1 .. n : ExpandAt(Expanded, f, i) \in Q
  <2>1. \A g \in IncludedBy({f}) : Expanded[g] \in Seq(Tok)
    BY ExpandedIs DEF IncludedBy
  <2> QED BY <1>1, <1>2, <2>1, ExpandAtType
<1>4. ASSUME NEW a \in 0 .. n
      PROVE  [i \in 1 .. a |-> ExpandAt(Expanded, f, i)] \in Seq(Seq(Tok))
  <2>1. [i \in 1 .. a |-> ExpandAt(Expanded, f, i)] \in [1 .. a -> Q]
    BY <1>3
  <2>2. [i \in 1 .. a |-> ExpandAt(Expanded, f, i)] \in Seq(Q)
    BY <2>1
  <2> QED BY <1>2, <2>2
<1>5. ASSUME NEW a \in 0 .. n
      PROVE  Pre(f, a) \in Seq(Tok)
  BY <1>4, FlattenElements DEF Pre
<1>6. ASSUME NEW a \in 1 .. n
      PROVE  Pre(f, a) = Pre(f, a - 1) \o ExpandAt(Expanded, f, a)
  <2>1. a - 1 \in 0 .. n
    OBVIOUS
  <2>2. PICK s \in Seq(Seq(Tok)) : s = [i \in 1 .. a - 1 |-> ExpandAt(Expanded, f, i)]
    BY <1>4, <2>1
  <2>3. PICK t \in Seq(Tok) : t = ExpandAt(Expanded, f, a)
    BY <1>2, <1>3
  <2>4. Append(s, t) = [i \in 1 .. a |-> ExpandAt(Expanded, f, i)]
    <3>1. Len(s) = a - 1 /\ \A i \in 1 .. a - 1 : s[i] = ExpandAt(Expanded, f, i)
      BY <2>2
    <3>2. s \in Seq(Q) /\ t \in Q
      BY <1>2
    <3>3. /\ Append(s, t) \in Seq(Q) /\ Len(Append(s, t)) = a /\ Append(s, t)[a] = t
          /\ \A i \in 1 .. a - 1 : Append(s, t)[i] = s[i]
      BY <3>1, <3>2, AppendProperties
    <3>4. DOMAIN Append(s, t) = 1 .. a
      BY <3>3, LenProperties
    <3>5. \A i \in 1 .. a : Append(s, t)[i] = ExpandAt(Expanded, f, i)
      <4> TAKE i \in 1 .. a
      <4>1. i \in 1 .. a - 1 \/ i = a
        OBVIOUS
      <4> QED BY <2>3, <3>1, <3>3, <4>1
    <3>6. Append(s, t) = [i \in 1 .. a |-> Append(s, t)[i]]
      <4>1. PICK r \in Seq(Q) : r = Append(s, t)
        BY <3>3
      <4>2. r \in [1 .. a -> Q]
        BY <3>3, <4>1, LenProperties
      <4>3. r = [i \in 1 .. a |-> r[i]]
        BY <4>2
      <4> QED BY <4>1, <4>3
    <3> QED BY <3>5, <3>6
  <2>5. FlattenSeq(Append(s, t)) = FlattenSeq(s) \o t
    BY FlattenAppend
  <2> QED BY <2>2, <2>3, <2>4, <2>5 DEF Pre
<1>7. Pre(f, 0) = <<>>
  <2>1. [i \in 1 .. 0 |-> ExpandAt(Expanded, f, i)] = <<>>
    OBVIOUS
  <2> QED BY <2>1, FlattenEmpty DEF Pre
<1>8. Pre(f, n) = Expanded[f]
  BY <1>1, ExpandedIs DEF Pre, Body
<1> QED BY <1>1, <1>2, <1>3, <1>5, <1>6, <1>7, <1>8

LEMMA StructPlace ==
  ASSUME PlainText, NEW f \in File, NEW i \in 1 .. Len(Text[f]), NEW j, Closes(Text[f], i, j)
  PROVE  /\ i \in Nat /\ j \in i + 2 .. Len(Text[f]) /\ (j - i - 2) % 3 = 0
         /\ Text[f][i + 1] = "{" /\ Text[f][j] = "}"
         /\ \A m \in i + 2 .. j : ~ Named(f, m)
<1>1. Len(Text[f]) \in Nat
  BY TextFacts
<1>2. i < Len(Text[f]) /\ Text[f][i + 1] = "{"
  BY DEF Closes, Closings
<1>3. j \in i + 2 .. Len(Text[f]) /\ Text[f][j] = "}" /\ (j - i - 2) % 3 = 0
  BY <1>1, <1>2 DEF Closes, Closings
<1>4. \A m \in i + 2 .. j : ~ Named(f, m)
  BY DEF PlainText, Closes
<1>5. i \in Nat
  BY <1>1
<1> QED BY <1>2, <1>3, <1>4, <1>5, Zenon

LEMMA TokConcat ==
  ASSUME NEW p \in Seq(Tok), NEW s \in Seq(Tok), NEW u \in Seq(Tok)
  PROVE  (p \o s) \o u = p \o (s \o u)
BY ConcatAssociative

LEMMA StructEnd ==
  ASSUME PlainText, NEW f \in File, NEW i \in 1 .. Len(Text[f]), NEW j, Closes(Text[f], i, j)
  PROVE  Text[f][j] # IncludeDirective
<1>1. Text[f][j] = "}"
  BY StructPlace
<1> QED BY <1>1 DEF IncludeDirective

(* The tokens of a struct stand for themselves.                            *)
LEMMA PreStruct ==
  ASSUME PlainText, NEW f \in File, NEW i \in 1 .. Len(Text[f]), NEW j, Closes(Text[f], i, j),
         Text[f][i] # IncludeDirective, ~ Named(f, i)
  PROVE  Pre(f, j) = Pre(f, i - 1) \o SubSeq(Text[f], i, j)
<1>1. PICK t \in Seq(Tok) : t = Text[f]
  BY TextFacts
<1>2. PICK n \in Nat : n = Len(t) /\ \A q \in 1 .. n : t[q] \in Tok
  BY LenProperties, ElementOfSeq
<1>3. i \in Nat /\ i \in 1 .. n /\ j \in i + 2 .. n
  BY <1>1, <1>2, StructPlace
<1>4. ASSUME NEW m \in i .. j
      PROVE  ~ Named(f, m) /\ ~ Named(f, m + 1)
  <2>1. ASSUME NEW q \in {i, i + 1, j}
        PROVE  ~ Named(f, q + 1)
    <3>1. t[i + 1] = "{" /\ t[j] = "}" /\ t[i] # IncludeDirective
      BY <1>1, StructPlace
    <3>2. t[q] # IncludeDirective
      BY <3>1 DEF IncludeDirective
    <3>3. (q + 1) - 1 = q
      BY <1>3
    <3> QED BY <1>1, <3>2, <3>3 DEF Named
  <2>2. m = i \/ m = i + 1 \/ m \in i + 2 .. j
    BY <1>3
  <2>3. m = j \/ m \in {i} \/ m \in {i + 1} \/ m + 1 \in i + 2 .. j
    BY <1>3
  <2>4. \A k \in i + 2 .. j : ~ Named(f, k)
    BY StructPlace
  <2> QED BY <2>1, <2>2, <2>3, <2>4
<1>5. ASSUME NEW m \in i .. j
      PROVE  ExpandAt(Expanded, f, m) = <<t[m]>> /\ m \in 1 .. n
  <2>1. m \in 1 .. n
    BY <1>3
  <2> QED BY <1>1, <1>4, <2>1 DEF ExpandAt
<1>6. PICK p \in Seq(Tok) : p = Pre(f, i - 1)
  <2>1. i - 1 \in 0 .. Len(Text[f])
    BY <1>1, <1>2, <1>3
  <2> QED BY <2>1, PreFacts
<1>7. PICK w \in Nat : w = (j - i) + 1 /\ i - 1 + w = j
  <2>1. (j - i) + 1 \in Nat /\ i - 1 + ((j - i) + 1) = j
    BY <1>3
  <2> QED BY <2>1
<1> DEFINE Stands(b) == Pre(f, i - 1 + b) = p \o SubSeq(t, i, i - 1 + b)
           T == {b \in Nat : b <= w => Stands(b)}
<1>8. Stands(0)
  <2>1. i - 1 + 0 = i - 1 /\ i - 1 < i /\ i \in Int /\ i - 1 \in Int
    BY <1>3
  <2>2. SubSeq(t, i, i - 1) = <<>>
    BY <2>1, SubSeqEmpty
  <2>3. p \o <<>> = p
    BY ConcatEmptySeq
  <2> QED BY <1>6, <2>1, <2>2, <2>3
<1>9. ASSUME NEW b \in Nat, b + 1 <= w, Stands(b)
      PROVE  Stands(b + 1)
  <2>1. PICK m \in i .. j : m = i - 1 + (b + 1) /\ m - 1 = i - 1 + b
    <3>1. i + b \in i .. j /\ i + b = i - 1 + (b + 1) /\ (i + b) - 1 = i - 1 + b
      BY <1>3, <1>7, <1>9
    <3> QED BY <3>1
  <2>2. PICK l \in Int : l = m - 1 /\ l + 1 = m
    BY <1>3
  <2>3. Pre(f, l) = p \o SubSeq(t, i, l)
    BY <1>9, <2>1, <2>2
  <2>4. m \in 1 .. n /\ Pre(f, m) = Pre(f, l) \o <<t[m]>>
    BY <1>1, <1>2, <1>5, <2>2, PreFacts
  <2>5. PICK s \in Seq(Tok) : s = SubSeq(t, i, l)
    <3>1. \A q \in i .. l : t[q] \in Tok
      <4>1. \A q \in i .. l : q \in 1 .. n
        BY <1>3, <2>2
      <4> QED BY <1>2, <4>1
    <3>2. i \in Int /\ l \in Int
      BY <1>3, <2>2
    <3> QED BY <3>1, <3>2, SubSeqProperties
  <2>6. PICK u \in Seq(Tok) : u = <<t[m]>>
    <3>1. t[m] \in Tok
      BY <1>2, <2>4
    <3>2. <<t[m]>> \in Seq(Tok)
      BY <3>1
    <3> QED BY <3>2
  <2>7. SubSeq(t, i, m) = s \o u
    <3>1. i \in 1 .. Len(t) /\ m \in i .. Len(t) /\ l = m - 1
      BY <1>2, <1>3, <2>2
    <3>2. SubSeq(t, i, m) = SubSeq(t, i, l) \o <<t[m]>>
      BY <3>1, SubSeqAppend, Zenon
    <3> QED BY <2>5, <2>6, <3>2
  <2>8. (p \o s) \o u = p \o (s \o u)
    <3>1. p \in Seq(Tok) /\ s \in Seq(Tok) /\ u \in Seq(Tok)
      BY <1>6
    <3> QED BY ONLY <3>1, TokConcat, Zenon
  <2> QED BY <2>1, <2>3, <2>4, <2>5, <2>6, <2>7, <2>8
<1> HIDE DEF Stands
<1>10. /\ T \subseteq Nat /\ 0 \in T /\ (w \in T => Stands(w))
       /\ \A b \in T : b + 1 \in T
  BY <1>7, <1>8, <1>9
<1> HIDE DEF T
<1>11. Stands(w)
  BY <1>7, <1>10, SetInduction
<1>12. Pre(f, j) = p \o SubSeq(t, i, j)
  BY <1>7, <1>11 DEF Stands
<1> QED BY <1>1, <1>6, <1>12

(* The pairs of the struct that begins at token i of t.                    *)
ArePairs(ps, t, i, k) == ps = [q \in 1 .. k |-> SubSeq(t, i + 3 * q - 1, i + 3 * q + 1)]

(* There is a struct of k pairs from token i to token j of t.              *)
StructAt(t, i, j, k, open, close, ps) ==
  /\ t \in Seq(Tok) /\ i \in Nat /\ j \in Nat /\ k \in Nat
  /\ 1 <= i /\ i + 2 + 3 * k = j /\ j <= Len(t) /\ t[i + 1] = open /\ t[j] = close
  /\ ArePairs(ps, t, i, k)

Words(name, open, ps, close) == <<name, open>> \o FlattenSeq(ps) \o <<close>>
Cut(t, i, j) == SubSeq(t, i, j)

(* A struct keeps the tokens that it was parsed from.                      *)
LEMMA StructIs ==
  ASSUME NEW t, NEW i, NEW j, NEW k, NEW open, NEW close, NEW ps,
         StructAt(t, i, j, k, open, close, ps)
  PROVE  /\ ps \in Seq(Seq(Tok))
         /\ Words(t[i], open, ps, close) = Cut(t, i, j)
<1> /\ t \in Seq(Tok) /\ i \in Nat /\ j \in Nat /\ k \in Nat
    /\ 1 <= i /\ i + 2 + 3 * k = j /\ j <= Len(t) /\ t[i + 1] = open /\ t[j] = close
    /\ ArePairs(ps, t, i, k)
  BY DEF StructAt
<1>2. PICK n \in Nat : n = Len(t)
  BY LenProperties
<1> j <= n
  BY <1>2
<1>1. \A q \in 1 .. n : t[q] \in Tok
  BY <1>2, LenProperties, ElementOfSeq
<1>6. \A q \in 1 .. k : SubSeq(t, i + 3 * q - 1, i + 3 * q + 1) \in Seq(Tok)
  <2> SUFFICES ASSUME NEW q \in 1 .. k
               PROVE  SubSeq(t, i + 3 * q - 1, i + 3 * q + 1) \in Seq(Tok)
    BY <1>2
  <2>1. PICK a \in Int, c \in Int : a = i + 3 * q - 1 /\ c = i + 3 * q + 1
    BY <1>2
  <2>2. \A m \in a .. c : m \in 1 .. n
    BY <1>2, <2>1
  <2>3. SubSeq(t, a, c) \in Seq(Tok)
    BY <1>1, <2>2, SubSeqProperties
  <2> QED BY <2>1, <2>3
<1>7. ps \in Seq(Seq(Tok)) /\ Len(ps) = k
  <2>1. PICK Q : Q = Seq(Tok)
    BY <1>2
  <2>2. ps \in [1 .. k -> Q]
    BY <1>6, <2>1 DEF ArePairs
  <2>3. ps \in Seq(Q) /\ Len(ps) = k
    BY <1>2, <2>2
  <2> QED BY <2>1, <2>3
<1>8. PICK f : f = [q \in 0 .. k |-> SubSeq(t, i + 2, i + 1 + 3 * q)]
  BY <1>2
<1>9. f[0] = <<>>
  <2>1. i + 2 \in Int /\ i + 1 \in Int /\ i + 1 < i + 2 /\ i + 1 + 3 * 0 = i + 1
    BY <1>2
  <2>2. SubSeq(t, i + 2, i + 1) = <<>>
    BY <2>1, SubSeqEmpty
  <2> QED BY <1>8, <2>1, <2>2
<1>10. \A q \in 1 .. k : f[q] = f[q - 1] \o ps[q]
  <2> SUFFICES ASSUME NEW q \in 1 .. k
               PROVE  f[q] = f[q - 1] \o ps[q]
    BY <1>2
  <2>1. PICK a \in 1 .. Len(t) + 1 : a = i + 2
    BY <1>2
  <2>2. PICK b \in a - 1 .. Len(t) : b = i + 1 + 3 * (q - 1)
    <3>1. i + 1 + 3 * (q - 1) \in a - 1 .. Len(t)
      BY <1>2, <2>1
    <3> QED BY <3>1
  <2>3. PICK c \in b .. Len(t) : c = i + 1 + 3 * q
    <3>1. i + 1 + 3 * q \in b .. Len(t)
      BY <1>2, <2>2
    <3> QED BY <3>1
  <2>4. PICK l \in Nat : l = i + 3 * q - 1 /\ l = b + 1 /\ c = i + 3 * q + 1
    <3>1. i + 3 * q - 1 \in Nat /\ i + 3 * q - 1 = b + 1 /\ c = i + 3 * q + 1
      BY <1>2, <2>2, <2>3
    <3> QED BY <3>1
  <2>5. SubSeq(t, a, b) \o SubSeq(t, l, c) = SubSeq(t, a, c)
    BY <2>4, SubSeqConcat
  <2>6. f[q] = SubSeq(t, a, c) /\ f[q - 1] = SubSeq(t, a, b) /\ ps[q] = SubSeq(t, l, c)
    <3>1. f[q] = SubSeq(t, i + 2, i + 1 + 3 * q)
      <4>1. q \in 0 .. k
        BY <1>2
      <4> QED BY <1>8, <4>1, Zenon
    <3>2. PICK h \in 0 .. k : h = q - 1
      BY <1>2
    <3>3. f[h] = SubSeq(t, i + 2, i + 1 + 3 * h)
      BY <1>8
    <3>4. ps[q] = SubSeq(t, i + 3 * q - 1, i + 3 * q + 1)
      BY Zenon DEF ArePairs
    <3> QED BY <2>1, <2>2, <2>3, <2>4, <3>1, <3>2, <3>3, <3>4
  <2> QED BY <2>5, <2>6
<1>11. FlattenSeq(ps) = f[k]
  BY <1>7, <1>9, <1>10, FlattenBy
<1>12. PICK a \in 1 .. n + 1, b \in 0 .. n : a = i + 2 /\ b = j - 1 /\ f[k] = SubSeq(t, a, b)
  <2>1. i + 2 \in 1 .. n + 1 /\ j - 1 \in 0 .. n /\ i + 1 + 3 * k = j - 1
    BY <1>2
  <2>2. f[k] = SubSeq(t, i + 2, i + 1 + 3 * k)
    BY <1>8
  <2> QED BY <2>1, <2>2
<1>13. PICK m \in Seq(Tok) : m = SubSeq(t, a, b)
  BY <1>7, <1>11, <1>12, FlattenElements
<1>14. SubSeq(t, a, j) = m \o <<t[j]>>
  <2>1. a \in 1 .. Len(t) /\ j \in a .. Len(t) /\ b = j - 1
    BY <1>2, <1>12
  <2> QED BY <1>13, <2>1, SubSeqAppend
<1>15. SubSeq(t, i, i + 1) = <<t[i], t[i + 1]>>
  <2>1. PICK d \in 1 .. Len(t) : d = i + 1 /\ i \in 1 .. Len(t)
    BY <1>2
  <2>2. SubSeq(t, i, d) = <<t[i], t[d]>>
    BY <2>1, SubSeqTwo
  <2> QED BY <2>1, <2>2
<1>16. SubSeq(t, i, i + 1) \o SubSeq(t, a, j) = SubSeq(t, i, j)
  <2>1. PICK b1 \in i - 1 .. Len(t) : b1 = i + 1 /\ a = b1 + 1
    BY <1>2, <1>12
  <2>2. i \in 1 .. Len(t) + 1 /\ j \in b1 .. Len(t)
    BY <1>2, <2>1
  <2>3. SubSeq(t, i, b1) \o SubSeq(t, a, j) = SubSeq(t, i, j)
    BY <2>1, <2>2, SubSeqConcat
  <2> QED BY <2>1, <2>3
<1>17. PICK u \in Seq(Tok), v \in Seq(Tok) : u = <<t[i], open>> /\ v = <<close>>
  <2>1. t[i] \in Tok /\ open \in Tok /\ close \in Tok
    BY <1>1
  <2>2. <<t[i], open>> \in Seq(Tok) /\ <<close>> \in Seq(Tok)
    BY <1>2, <2>1
  <2> QED BY <1>2, <2>2
<1>18. (u \o m) \o v = u \o (m \o v)
  BY <1>13, <1>17, TokConcat
<1>19. <<t[i], open>> \o FlattenSeq(ps) \o <<close>> = (u \o m) \o v
  BY <1>11, <1>12, <1>13, <1>17
<1>20. SubSeq(t, i, j) = u \o (m \o v)
  BY <1>14, <1>15, <1>16, <1>17
<1> QED BY <1>7, <1>18, <1>19, <1>20 DEF Words, Cut

-----------------------------------------------------------------------------
(* The frames of parse_buf                                                 *)

Frames == {fr \in [file : File, at : Nat] : fr.at <= Len(Text[fr.file])}
AtBoundary(fr) == fr.at > 0 => Text[fr.file][fr.at] # IncludeDirective
Including(fr, g) ==
  fr.at + 2 <= Len(Text[fr.file]) /\ Text[fr.file][fr.at + 1] = IncludeDirective
    /\ Text[fr.file][fr.at + 2] = g

(* Each frame but the last one stands at the directive whose file the next *)
(* one parses.                                                             *)
Standing(st, c) ==
  /\ st \in Seq(Frames) /\ st # <<>> /\ st[1].file = c
  /\ \A k \in 1 .. Len(st) : AtBoundary(st[k])
  /\ \A k \in 1 .. Len(st) - 1 : Including(st[k], st[k + 1].file)

(* What was parsed by the frames.                                          *)
Piece == [fr \in Frames |-> Pre(fr.file, fr.at)]
Said(st) == Pieces(Piece, st)

LEMMA PieceType == Piece \in [Frames -> Seq(Tok)]
<1> SUFFICES ASSUME NEW fr \in Frames
             PROVE  Pre(fr.file, fr.at) \in Seq(Tok)
  BY DEF Piece
<1>1. PICK f \in File, a \in Nat : f = fr.file /\ a = fr.at /\ a <= Len(Text[f])
  BY DEF Frames
<1>2. a \in 0 .. Len(Text[f])
  BY <1>1, TextFacts
<1> QED BY <1>1, <1>2, PreFacts

LEMMA SaidAppend ==
  ASSUME NEW st \in Seq(Frames), NEW fr \in Frames
  PROVE  /\ Said(st) \in Seq(Tok) /\ Piece[fr] \in Seq(Tok)
         /\ Said(Append(st, fr)) = Said(st) \o Piece[fr]
<1>1. PICK m \in [Frames -> Seq(Tok)] : m = Piece
  BY PieceType
<1>2. Pieces(m, st) \in Seq(Tok) /\ Pieces(m, Append(st, fr)) = Pieces(m, st) \o m[fr]
  <2>1. IsPieces(m, Frames, Tok)
    BY DEF IsPieces
  <2> QED BY <2>1, PiecesAppend
<1>3. m[fr] \in Seq(Tok)
  OBVIOUS
<1> QED BY <1>1, <1>2, <1>3 DEF Said

(* The last frame, and those before it.                                    *)
LEMMA StandingTop ==
  ASSUME NEW st, NEW c, Standing(st, c)
  PROVE  \E front \in Seq(Frames), top \in Frames :
           /\ st = Append(front, top) /\ Len(front) \in Nat /\ Len(st) = Len(front) + 1
           /\ st[Len(st)] = top /\ AtBoundary(top)
           /\ front = <<>> => top.file = c
           /\ front # <<>> => Standing(front, c) /\ Including(front[Len(front)], top.file)
<1>1. st \in Seq(Frames) /\ st # <<>>
  BY DEF Standing
<1>2. PICK front \in Seq(Frames), top \in Frames : st = Append(front, top)
  BY <1>1, SequenceEmptyOrAppend
<1>3. PICK n \in Nat : n = Len(front) /\ DOMAIN front = 1 .. n
  BY LenProperties
<1>4. Len(st) = n + 1 /\ st[n + 1] = top /\ \A k \in 1 .. n : st[k] = front[k]
  BY <1>2, <1>3, AppendProperties
<1>5. /\ st[1].file = c /\ \A k \in 1 .. n + 1 : AtBoundary(st[k])
      /\ \A k \in 1 .. n : Including(st[k], st[k + 1].file)
  BY <1>4 DEF Standing
<1>6. AtBoundary(top)
  BY <1>4, <1>5
<1>7. front = <<>> => top.file = c
  <2>1. front = <<>> => n = 0
    BY <1>3
  <2> QED BY <1>4, <1>5, <2>1
<1>8. front # <<>> => Standing(front, c) /\ Including(front[Len(front)], top.file)
  <2> SUFFICES ASSUME front # <<>>
               PROVE  Standing(front, c) /\ Including(front[Len(front)], top.file)
    OBVIOUS
  <2>1. n > 0
    BY <1>3, EmptySeq
  <2>2. \A k \in 1 .. n : AtBoundary(front[k])
    BY <1>4, <1>5
  <2>3. \A k \in 1 .. n - 1 : Including(front[k], front[k + 1].file)
    <3> SUFFICES ASSUME NEW k \in 1 .. n - 1
                 PROVE  Including(front[k], front[k + 1].file)
      OBVIOUS
    <3>1. k \in 1 .. n /\ k + 1 \in 1 .. n
      OBVIOUS
    <3>2. st[k] = front[k] /\ st[k + 1] = front[k + 1]
      BY <1>4, <3>1
    <3> QED BY <1>5, <3>1, <3>2
  <2>4. front[1].file = c
    BY <1>4, <1>5, <2>1
  <2>5. Including(front[n], top.file)
    BY <1>4, <1>5, <2>1
  <2> QED BY <1>3, <2>2, <2>3, <2>4, <2>5 DEF Standing
<1> QED BY <1>2, <1>3, <1>4, <1>6, <1>7, <1>8

(* A frame on top of others.                                               *)
LEMMA StandingOn ==
  ASSUME NEW c, NEW front \in Seq(Frames), NEW top \in Frames, AtBoundary(top),
         front = <<>> => top.file = c,
         front # <<>> => Standing(front, c) /\ Including(front[Len(front)], top.file)
  PROVE  Standing(Append(front, top), c)
<1>1. PICK st \in Seq(Frames) : st = Append(front, top)
  BY AppendProperties
<1>2. PICK n \in Nat : n = Len(front) /\ DOMAIN front = 1 .. n
  BY LenProperties
<1>3. Len(st) = n + 1 /\ st[n + 1] = top /\ \A k \in 1 .. n : st[k] = front[k]
  BY <1>1, <1>2, AppendProperties
<1>4. st # <<>>
  BY <1>2, <1>3
<1>5. front = <<>> <=> n = 0
  BY <1>2, EmptySeq
<1>6. CASE front = <<>>
  BY <1>1, <1>3, <1>4, <1>5, <1>6 DEF Standing
<1>7. CASE front # <<>>
  <2>1. /\ front[1].file = c /\ \A k \in 1 .. n : AtBoundary(front[k])
        /\ \A k \in 1 .. n - 1 : Including(front[k], front[k + 1].file)
        /\ Including(front[n], top.file)
    BY <1>2, <1>7 DEF Standing
  <2>2. st[1].file = c
    BY <1>2, <1>3, <1>5, <1>7, <2>1
  <2>3. ASSUME NEW k \in 1 .. n + 1
        PROVE  AtBoundary(st[k])
    <3>1. k \in 1 .. n \/ k = n + 1
      OBVIOUS
    <3> QED BY <1>3, <2>1, <3>1
  <2>4. ASSUME NEW k \in 1 .. n
        PROVE  Including(st[k], st[k + 1].file)
    <3>1. CASE k = n
      BY <1>3, <2>1, <3>1
    <3>2. CASE k # n
      <4>1. k \in 1 .. n - 1 /\ k + 1 \in 1 .. n
        BY <3>2
      <4>2. st[k] = front[k] /\ st[k + 1] = front[k + 1]
        BY <1>3, <4>1
      <4> QED BY <2>1, <4>1, <4>2
    <3> QED BY <3>1, <3>2
  <2>5. (n + 1) - 1 = n
    OBVIOUS
  <2> QED BY <1>1, <1>3, <1>4, <2>2, <2>3, <2>4, <2>5 DEF Standing
<1> QED BY <1>6, <1>7

(* What was kept of the text that was parsed.                              *)
StructSet == [name : Tok, pairs : Seq(Seq(Tok))]
StructPiece == [s \in StructSet |-> StructText(s)]
Texts(ss) == Pieces(StructPiece, ss)

LEMMA StructPieceType == StructPiece \in [StructSet -> Seq(Tok)]
<1> SUFFICES ASSUME NEW s \in StructSet
             PROVE  StructText(s) \in Seq(Tok)
  BY DEF StructPiece
<1>1. PICK open \in Tok, close \in Tok : open = "{" /\ close = "}"
  BY Zenon DEF Tok
<1>2. PICK name \in Tok, ps \in Seq(Seq(Tok)) : name = s.name /\ ps = s.pairs
  BY DEF StructSet
<1>3. StructText(s) = <<name, open>> \o FlattenSeq(ps) \o <<close>>
  BY <1>1, <1>2, Zenon DEF StructText
<1>4. FlattenSeq(ps) \in Seq(Tok)
  BY FlattenElements
<1>5. <<name, open>> \in Seq(Tok) /\ <<close>> \in Seq(Tok)
  OBVIOUS
<1>6. <<name, open>> \o FlattenSeq(ps) \in Seq(Tok)
  BY <1>4, <1>5, ConcatProperties
<1> QED BY <1>3, <1>5, <1>6, ConcatProperties

LEMMA TextsAppend ==
  ASSUME NEW ss \in Seq(StructSet), NEW s \in StructSet
  PROVE  /\ Texts(ss) \in Seq(Tok) /\ Append(ss, s) \in Seq(StructSet)
         /\ Texts(Append(ss, s)) = Texts(ss) \o StructText(s)
<1>1. PICK m : m = StructPiece /\ IsPieces(m, StructSet, Tok)
  BY StructPieceType DEF IsPieces
<1>2. Pieces(m, ss) \in Seq(Tok) /\ Pieces(m, Append(ss, s)) = Pieces(m, ss) \o m[s]
  BY <1>1, PiecesAppend
<1>3. m[s] = StructText(s)
  BY <1>1 DEF StructPiece
<1> QED BY <1>1, <1>2, <1>3, AppendProperties DEF Texts

(* It is what TextKept compares.                                           *)
LEMMA TextsAre ==
  ASSUME NEW ss \in Seq(StructSet)
  PROVE  Texts(ss) = FlattenSeq([k \in DOMAIN ss |-> StructText(ss[k])])
<1>1. \A k \in DOMAIN ss : ss[k] \in StructSet
  BY LenProperties, ElementOfSeq
<1>2. \A k \in DOMAIN ss : StructPiece[ss[k]] = StructText(ss[k])
  BY <1>1, Zenon DEF StructPiece
<1>3. [k \in DOMAIN ss |-> StructPiece[ss[k]]] = [k \in DOMAIN ss |-> StructText(ss[k])]
  BY <1>2
<1> QED BY <1>3, Zenon DEF Texts, Pieces

LEMMA NothingSaid == Texts(<<>>) = <<>> /\ Said(<<>>) = <<>>
<1>1. [k \in DOMAIN <<>> |-> StructPiece[<<>>[k]]] = <<>>
  OBVIOUS
<1>2. [k \in DOMAIN <<>> |-> Piece[<<>>[k]]] = <<>>
  OBVIOUS
<1> QED BY <1>1, <1>2, FlattenEmpty, Zenon DEF Texts, Said, Pieces

(* A frame that moves on.                                                  *)
Moved(st, d) == [st EXCEPT ![Len(st)].at = @ + d]
MovedTo(fr, a) == [fr EXCEPT !.at = a]

LEMMA MovesOn ==
  ASSUME NEW front \in Seq(Frames), NEW top \in Frames, NEW a \in 0 .. Len(Text[top.file]), NEW d,
         a = top.at + d
  PROVE  /\ Moved(Append(front, top), d) = Append(front, MovedTo(top, a))
         /\ MovedTo(top, a) \in Frames
         /\ MovedTo(top, a).file = top.file /\ MovedTo(top, a).at = a
<1>1. PICK nx : nx = MovedTo(top, a) /\ nx = [top EXCEPT !.at = a]
  BY DEF MovedTo
<1>2. nx \in Frames /\ nx.file = top.file /\ nx.at = a /\ nx = [top EXCEPT !.at = @ + d]
  <2>1. a \in Nat /\ a <= Len(Text[top.file])
    BY TextFacts DEF Frames
  <2>2. nx \in [file : File, at : Nat] /\ nx.file = top.file /\ nx.at = a
    BY <1>1, <2>1 DEF Frames
  <2>3. nx = [top EXCEPT !.at = @ + d]
    BY <1>1
  <2> QED BY <2>1, <2>2, <2>3 DEF Frames
<1>3. PICK st \in Seq(Frames) : st = Append(front, top)
  BY AppendProperties
<1>4. PICK n \in Nat, l \in Nat : n = Len(front) /\ l = n + 1
  <2>1. Len(front) \in Nat /\ Len(front) + 1 \in Nat
    BY LenProperties
  <2> QED BY <2>1
<1>5. Len(st) = l /\ DOMAIN st = 1 .. l /\ st[l] = top /\ \A k \in 1 .. n : st[k] = front[k]
  <2>1. Len(st) = l /\ st[l] = top /\ \A k \in 1 .. n : st[k] = front[k]
    BY <1>3, <1>4, AppendProperties
  <2> QED BY <2>1, LenProperties
<1>6. PICK r : r = [st EXCEPT ![l].at = @ + d]
  OBVIOUS
<1>7. PICK s \in Seq(Frames) : s = Append(front, nx)
  BY <1>2, AppendProperties
<1>8. Len(s) = l /\ s[l] = nx /\ \A k \in 1 .. n : s[k] = front[k]
  BY <1>2, <1>4, <1>7, AppendProperties
<1>9. \A k \in 1 .. l : st[k] \in Frames
  BY <1>5, ElementOfSeq
<1>10. r[l] = nx /\ \A k \in 1 .. n : r[k] = st[k]
  <2>1. l \in 1 .. l /\ \A k \in 1 .. n : k \in 1 .. l /\ k # l
    BY <1>4
  <2> QED BY <1>2, <1>5, <1>6, <2>1
<1>11. r \in Seq(Frames) /\ Len(r) = l
  <2>1. r \in [1 .. l -> Frames]
    <3>1. \A k \in 1 .. l : k \in 1 .. n \/ k = l
      BY <1>4
    <3>2. \A k \in 1 .. l : r[k] \in Frames
      BY <1>2, <1>9, <1>10, <3>1
    <3> QED BY <1>5, <1>6, <3>2
  <2> QED BY <2>1
<1>12. r = s
  <2>1. \A k \in 1 .. l : k \in 1 .. n \/ k = l
    BY <1>4
  <2>2. \A k \in 1 .. l : r[k] = s[k]
    BY <1>5, <1>8, <1>10, <2>1
  <2> QED BY <1>8, <1>11, <2>2, SeqEqual
<1>13. Moved(st, d) = r
  BY <1>5, <1>6 DEF Moved
<1> QED BY <1>1, <1>2, <1>3, <1>7, <1>12, <1>13

(* The struct at the top of st is parsed.                                  *)
AtStruct(st, c, f, i, j, e) ==
  /\ Standing(st, c)
  /\ f = st[Len(st)].file /\ i = st[Len(st)].at + 1 /\ st[Len(st)].at < Len(Text[f])
  /\ Text[f][i] # IncludeDirective /\ Closes(Text[f], i, j) /\ e = j - i + 1

LEMMA StructSaid ==
  ASSUME PlainText, NEW c, NEW st, NEW f, NEW i, NEW j, NEW e, AtStruct(st, c, f, i, j, e),
         NEW nx, nx = Moved(st, e)
  PROVE  /\ i \in 1 .. Len(Text[f]) /\ f \in File
         /\ Standing(nx, c) /\ Said(nx) = Said(st) \o SubSeq(Text[f], i, j)
         /\ SubSeq(Text[f], i, j) \in Seq(Tok)
<1>0. PICK fr :
        /\ Standing(st, c) /\ fr = st[Len(st)] /\ f = fr.file /\ i = fr.at + 1
        /\ fr.at < Len(Text[f]) /\ Text[f][i] # IncludeDirective /\ Closes(Text[f], i, j)
  BY Zenon DEF AtStruct
<1>1. PICK front \in Seq(Frames), top \in Frames :
        /\ st = Append(front, top) /\ st[Len(st)] = top /\ AtBoundary(top)
        /\ front = <<>> => top.file = c
        /\ front # <<>> => Standing(front, c) /\ Including(front[Len(front)], top.file)
  BY <1>0, StandingTop
<1>2. f \in File /\ top.at \in Nat /\ top.file = f /\ i = top.at + 1 /\ top.at < Len(Text[f])
  BY <1>0, <1>1 DEF Frames
<1>3. PICK n \in Nat : n = Len(Text[f]) /\ i \in 1 .. n /\ i \in Nat /\ i - 1 = top.at
  BY <1>2, TextFacts
<1>4. j \in i + 2 .. n /\ j \in Nat
  <2>1. j \in i + 2 .. Len(Text[f])
    BY <1>0, <1>2, <1>3, StructPlace
  <2> QED BY <1>3, <2>1
<1>5. ~ Named(f, i)
  <2> SUFFICES ASSUME Named(f, i)
               PROVE  FALSE
    OBVIOUS
  <2>1. top.at > 0 /\ Text[f][top.at] = IncludeDirective
    BY <1>2, <1>3 DEF Named
  <2> QED BY <1>1, <1>2, <2>1 DEF AtBoundary
<1>6. Pre(f, j) = Pre(f, i - 1) \o SubSeq(Text[f], i, j)
  BY <1>0, <1>2, <1>3, <1>5, PreStruct
<1>7. SubSeq(Text[f], i, j) \in Seq(Tok)
  <2>1. \A m \in i .. j : m \in 1 .. n
    BY <1>3, <1>4
  <2>2. \A m \in i .. j : Text[f][m] \in Tok
    BY <1>2, <1>3, <2>1, TextFacts
  <2>3. i \in Int /\ j \in Int
    BY <1>3, <1>4
  <2> QED BY <2>2, <2>3, SubSeqProperties
<1>8. PICK d \in Int : d = e /\ j = top.at + d /\ j \in 0 .. Len(Text[top.file])
  <2>1. PICK a \in Nat : a = top.at /\ i = a + 1
    BY <1>2
  <2>2. e = j - i + 1
    BY DEF AtStruct
  <2>3. PICK x \in Int : x = j - i + 1 /\ j = a + x /\ j \in 0 .. n
    <3>1. j \in Nat /\ i \in Nat /\ j <= n /\ i = a + 1
      BY <1>3, <1>4, <2>1
    <3>2. j - i + 1 \in Int /\ j = a + (j - i + 1) /\ j \in 0 .. n
      BY <3>1
    <3> QED BY <3>2
  <2> QED BY <1>2, <1>3, <2>1, <2>2, <2>3
<1>9. PICK new \in Frames : new.file = f /\ new.at = j /\ nx = Append(front, new)
  <2>1. nx = Moved(Append(front, top), d)
    BY <1>1, <1>8 DEF Moved
  <2>2. /\ Moved(Append(front, top), d) = Append(front, MovedTo(top, j))
        /\ MovedTo(top, j) \in Frames
        /\ MovedTo(top, j).file = top.file /\ MovedTo(top, j).at = j
    BY <1>8, MovesOn
  <2> QED BY <1>2, <2>1, <2>2
<1>10. AtBoundary(new)
  <2>1. f \in File /\ i \in 1 .. Len(Text[f])
    BY <1>2, <1>3
  <2>2. Text[f][j] # IncludeDirective
    BY <1>0, <2>1, StructEnd
  <2> QED BY <1>9, <2>2 DEF AtBoundary
<1>11. Standing(nx, c)
  <2>1. /\ front = <<>> => new.file = c
        /\ front # <<>> => Standing(front, c) /\ Including(front[Len(front)], new.file)
    BY <1>1, <1>2, <1>9
  <2>2. Standing(Append(front, new), c)
    BY <1>10, <2>1, StandingOn
  <2> QED BY <1>9, <2>2
<1>12. Said(st) = Said(front) \o Pre(f, i - 1) /\ Said(nx) = Said(front) \o Pre(f, j)
  <2>1. Said(Append(front, top)) = Said(front) \o Piece[top]
    BY SaidAppend
  <2>2. Said(Append(front, new)) = Said(front) \o Piece[new]
    BY SaidAppend
  <2>3. Piece[top] = Pre(f, top.at) /\ Piece[new] = Pre(f, j)
    BY <1>2, <1>9 DEF Piece
  <2> QED BY <1>1, <1>3, <1>9, <2>1, <2>2, <2>3
<1>13. Said(front) \in Seq(Tok) /\ Pre(f, i - 1) \in Seq(Tok)
  <2>1. i - 1 \in 0 .. Len(Text[f])
    BY <1>3
  <2> QED BY <1>2, <2>1, SaidAppend, PreFacts
<1>14. PICK x \in Seq(Tok), y \in Seq(Tok), z \in Seq(Tok) :
         x = Said(front) /\ y = Pre(f, i - 1) /\ z = SubSeq(Text[f], i, j)
  BY <1>7, <1>13
<1>15. (x \o y) \o z = x \o (y \o z)
  BY TokConcat
<1>16. Said(nx) = Said(st) \o SubSeq(Text[f], i, j)
  BY <1>6, <1>12, <1>14, <1>15
<1> QED BY <1>2, <1>3, <1>7, <1>11, <1>16

LEMMA StructKept ==
  ASSUME PlainText, NEW f \in File, NEW i \in 1 .. Len(Text[f]), NEW j, Closes(Text[f], i, j),
         NEW s, s = [name |-> Text[f][i], pairs |-> PairsBetween(Text[f], i, j)]
  PROVE  s \in StructSet /\ StructText(s) = SubSeq(Text[f], i, j)
<1>1. PICK t \in Seq(Tok), n \in Nat : t = Text[f] /\ n = Len(t) /\ \A q \in 1 .. n : t[q] \in Tok
  BY TextFacts
<1>2. i \in Nat /\ 1 <= i /\ i <= n /\ j \in i + 2 .. n /\ j \in Nat
  <2>1. i \in Nat /\ j \in i + 2 .. Len(Text[f])
    BY StructPlace
  <2> QED BY <1>1, <2>1
<1>3. PICK d \in Nat : d = j - i - 2 /\ d % 3 = 0
  <2>1. j - i - 2 \in Nat
    BY <1>2
  <2>2. (j - i - 2) % 3 = 0
    BY StructPlace
  <2> QED BY <2>1, <2>2
<1>4. PICK k \in Nat : k = d \div 3 /\ 3 * k = d
  <2>1. d \div 3 \in Nat /\ 3 * (d \div 3) = d
    BY <1>3
  <2> QED BY <2>1
<1>5. i + 2 + 3 * k = j /\ j <= n
  BY <1>2, <1>3, <1>4
<1>6. PICK open, close : open = "{" /\ close = "}"
  OBVIOUS
<1>7. t[i + 1] = open /\ t[j] = close
  <2>1. Text[f][i + 1] = "{" /\ Text[f][j] = "}"
    BY StructPlace
  <2> QED BY <1>1, <1>6, <2>1, Zenon
<1>8. PICK ps : ArePairs(ps, t, i, k)
  BY DEF ArePairs
<1>9. ps \in Seq(Seq(Tok)) /\ Words(t[i], open, ps, close) = SubSeq(t, i, j)
  <2>1. t \in Seq(Tok) /\ n \in Nat /\ n = Len(t) /\ i \in Nat /\ j \in Nat /\ k \in Nat
    BY <1>1, <1>2
  <2>2. 1 <= i /\ i + 2 + 3 * k = j /\ j <= n
    BY <1>2, <1>5
  <2>3. StructAt(t, i, j, k, open, close, ps)
    BY <1>7, <1>8, <2>1, <2>2 DEF StructAt
  <2>4. ps \in Seq(Seq(Tok))
    BY <2>3, StructIs
  <2>5. Words(t[i], open, ps, close) = SubSeq(t, i, j)
    <3>1. Words(t[i], open, ps, close) = Cut(t, i, j)
      BY <2>3, StructIs
    <3> QED BY <3>1, Zenon DEF Cut
  <2> QED BY <2>4, <2>5
<1>10. ps = PairsBetween(t, i, j)
  BY <1>3, <1>4, <1>8, Zenon DEF PairsBetween, ArePairs
<1>11. s.name = t[i] /\ s.pairs = ps
  BY <1>1, <1>10
<1>12. StructText(s) = Words(t[i], open, ps, close)
  BY <1>6, <1>11, Zenon DEF StructText, Words
<1>13. s \in StructSet
  BY <1>1, <1>2, <1>9, <1>10 DEF StructSet
<1> QED BY <1>1, <1>9, <1>12, <1>13

LEMMA NewFrame ==
  ASSUME NEW g \in File
  PROVE  [file |-> g, at |-> 0] \in Frames
<1>1. 0 <= Len(Text[g])
  BY TextFacts
<1> QED BY <1>1 DEF Frames

LEMMA IncludeSaid ==
  ASSUME NEW c, NEW st, Standing(st, c), NEW g \in File, Including(st[Len(st)], g),
         NEW nx, nx = Append(st, [file |-> g, at |-> 0])
  PROVE  Standing(nx, c) /\ Said(nx) = Said(st)
<1>1. st \in Seq(Frames) /\ st # <<>>
  BY DEF Standing
<1>2. PICK new \in Frames : new = [file |-> g, at |-> 0] /\ new.file = g /\ new.at = 0
  BY NewFrame
<1>3. AtBoundary(new)
  BY <1>2 DEF AtBoundary
<1>4. Standing(Append(st, new), c)
  BY <1>1, <1>2, <1>3, StandingOn
<1>5. Said(Append(st, new)) = Said(st) \o Piece[new] /\ Said(st) \in Seq(Tok)
  BY <1>1, SaidAppend
<1>6. Piece[new] = <<>>
  <2>1. Pre(g, 0) = <<>>
    BY PreFacts
  <2> QED BY <1>2, <2>1 DEF Piece
<1>7. Said(st) \o <<>> = Said(st)
  BY <1>5, ConcatEmptySeq
<1> QED BY <1>2, <1>4, <1>5, <1>6, <1>7

LEMMA LastSaid ==
  ASSUME NEW c, NEW st, Standing(st, c), Len(st) = 1, st[Len(st)].at = Len(Text[st[Len(st)].file])
  PROVE  c \in File /\ Said(st) = Expanded[c]
<1>1. PICK front \in Seq(Frames), top \in Frames :
        /\ st = Append(front, top) /\ Len(front) \in Nat /\ Len(st) = Len(front) + 1
        /\ st[Len(st)] = top /\ (front = <<>> => top.file = c)
  BY StandingTop
<1>2. front = <<>>
  <2>1. Len(front) = 0
    BY <1>1
  <2> QED BY <2>1, EmptySeq
<1>3. c \in File /\ top.file = c /\ top.at = Len(Text[c])
  BY <1>1, <1>2 DEF Frames
<1>4. Said(Append(front, top)) = Said(front) \o Piece[top] /\ Piece[top] \in Seq(Tok)
  BY SaidAppend
<1>5. Piece[top] = Expanded[c]
  <2>1. Pre(c, Len(Text[c])) = Expanded[c]
    BY <1>3, PreFacts
  <2> QED BY <1>3, <2>1 DEF Piece
<1>6. <<>> \o Piece[top] = Piece[top]
  BY <1>4, ConcatEmptySeq
<1>7. Said(front) = <<>>
  BY <1>2, NothingSaid
<1> QED BY <1>1, <1>3, <1>4, <1>5, <1>6, <1>7

(* The directive and the path of a file stand for its text.                *)
LEMMA DirectiveSaid ==
  ASSUME PlainText, NEW fr \in Frames, AtBoundary(fr), NEW g \in File, Including(fr, g)
  PROVE  /\ MovedTo(fr, fr.at + 2) \in Frames /\ AtBoundary(MovedTo(fr, fr.at + 2))
         /\ Piece[MovedTo(fr, fr.at + 2)] = Piece[fr] \o Expanded[g]
<1>1. PICK f \in File, a \in Nat : f = fr.file /\ a = fr.at
  BY DEF Frames
<1>2. PICK n \in Nat : n = Len(Text[f]) /\ a + 2 <= n
  BY <1>1, TextFacts DEF Including
<1>3. Text[f][a + 1] = IncludeDirective /\ Text[f][a + 2] = g
  BY <1>1 DEF Including
<1>4. PICK b \in 1 .. n, d \in 1 .. n : b = a + 1 /\ d = a + 2 /\ b - 1 = a /\ d - 1 = b
  <2>1. a + 1 \in 1 .. n /\ a + 2 \in 1 .. n /\ (a + 1) - 1 = a /\ (a + 2) - 1 = a + 1
    BY <1>2
  <2> QED BY <2>1
<1>5. Named(f, d) /\ b + 1 = d
  <2>1. d \in 2 .. n /\ b + 1 = d
    BY <1>4
  <2> QED BY <1>2, <1>3, <1>4, <2>1 DEF Named
<1>6. ~ Named(f, b)
  <2> SUFFICES ASSUME Named(f, b)
               PROVE  FALSE
    OBVIOUS
  <2>1. Text[f][b] \in File
    BY DEF Named
  <2> QED BY <1>3, <1>4, <2>1 DEF PlainText
<1>7. ExpandAt(Expanded, f, b) = <<>> /\ ExpandAt(Expanded, f, d) = Expanded[g]
  <2>1. Named(f, b + 1)
    BY <1>5
  <2>2. ExpandAt(Expanded, f, b) = <<>>
    BY <1>6, <2>1 DEF ExpandAt
  <2>3. ExpandAt(Expanded, f, d) = Expanded[Text[f][d]]
    <3>1. Named(f, d)
      BY <1>5
    <3>2. ~ Named(f, d + 1)
      <4>1. (d + 1) - 1 = d
        BY <1>4
      <4>2. Named(f, d + 1) => Text[f][d] = IncludeDirective
        BY <4>1, Zenon DEF Named
      <4> QED BY <1>3, <1>4, <4>2 DEF PlainText
    <3> QED BY <3>1, <3>2, Zenon DEF ExpandAt
  <2> QED BY <1>3, <1>4, <2>2, <2>3
<1>8. PICK p \in Seq(Tok) : p = Pre(f, a)
  <2>1. a \in 0 .. Len(Text[f])
    BY <1>2
  <2> QED BY <2>1, PreFacts
<1>9. Pre(f, b) = p \o <<>>
  <2>1. b \in 1 .. Len(Text[f])
    BY <1>2
  <2> QED BY <1>4, <1>7, <1>8, <2>1, PreFacts
<1>10. Pre(f, d) = Pre(f, b) \o Expanded[g]
  <2>1. d \in 1 .. Len(Text[f])
    BY <1>2
  <2> QED BY <1>4, <1>7, <2>1, PreFacts
<1>11. p \o <<>> = p
  BY ConcatEmptySeq
<1>12. PICK nx \in Frames : nx = MovedTo(fr, fr.at + 2) /\ nx.file = f /\ nx.at = d
  <2>1. PICK nx : nx = MovedTo(fr, fr.at + 2)
    OBVIOUS
  <2>2. nx = [fr EXCEPT !.at = d]
    BY <1>1, <1>4, <2>1 DEF MovedTo
  <2>3. d \in Nat /\ d <= Len(Text[f])
    BY <1>2
  <2> QED BY <1>1, <2>1, <2>2, <2>3 DEF Frames
<1>13. Text[f][d] # IncludeDirective
  BY <1>3, <1>4 DEF PlainText
<1>14. Piece[nx] = Pre(f, d) /\ Piece[fr] = p
  BY <1>1, <1>8, <1>12 DEF Piece
<1>15. AtBoundary(nx)
  BY <1>12, <1>13 DEF AtBoundary
<1> QED BY <1>9, <1>10, <1>11, <1>12, <1>14, <1>15

OnTop(st, c, front, top) ==
  /\ st = Append(front, top) /\ Len(front) \in Nat /\ Len(st) = Len(front) + 1
  /\ st[Len(st)] = top /\ AtBoundary(top)
  /\ front = <<>> => top.file = c
  /\ front # <<>> => Standing(front, c) /\ Including(front[Len(front)], top.file)

LEMMA StandingSplit ==
  ASSUME NEW st, NEW c, Standing(st, c)
  PROVE  \E front \in Seq(Frames), top \in Frames : OnTop(st, c, front, top)
BY StandingTop DEF OnTop

LEMMA EndSaid ==
  ASSUME PlainText, NEW c, NEW st, Standing(st, c), Len(st) # 1, st[Len(st)].at = Len(Text[st[Len(st)].file]),
         NEW nx, nx = Moved(SubSeq(st, 1, Len(st) - 1), 2)
  PROVE  Standing(nx, c) /\ Said(nx) = Said(st)
<1>1. PICK front \in Seq(Frames), top \in Frames :
        /\ st = Append(front, top) /\ Len(front) \in Nat /\ Len(st) = Len(front) + 1
        /\ st[Len(st)] = top
        /\ front # <<>> => Standing(front, c) /\ Including(front[Len(front)], top.file)
  BY StandingTop
<1>2. PICK g \in File : g = top.file /\ top.at = Len(Text[g])
  BY <1>1 DEF Frames
<1>3. front # <<>>
  <2>1. Len(front) # 0
    BY <1>1
  <2> QED BY <2>1
<1>4. SubSeq(st, 1, Len(st) - 1) = front
  <2>1. Len(st) - 1 = Len(front)
    BY <1>1
  <2>2. SubSeq(Append(front, top), 1, Len(front)) = front
    BY SubSeqOfAppend
  <2> QED BY <1>1, <2>1, <2>2
<1>5. Standing(front, c) /\ Including(front[Len(front)], g)
  BY <1>1, <1>2, <1>3
<1>6. PICK rest \in Seq(Frames), fr \in Frames :
        /\ front = Append(rest, fr) /\ Len(rest) \in Nat /\ Len(front) = Len(rest) + 1
        /\ front[Len(front)] = fr /\ AtBoundary(fr)
        /\ rest = <<>> => fr.file = c
        /\ rest # <<>> => Standing(rest, c) /\ Including(rest[Len(rest)], fr.file)
  <2>1. Standing(front, c)
    BY <1>5
  <2>2. \E rest \in Seq(Frames), fr \in Frames : OnTop(front, c, rest, fr)
    BY <2>1, StandingSplit, Zenon
  <2> QED BY <2>2 DEF OnTop
<1>7. Including(fr, g)
  BY <1>5, <1>6
<1>8. PICK a : /\ a = fr.at + 2 /\ MovedTo(fr, a) \in Frames /\ AtBoundary(MovedTo(fr, a))
               /\ Piece[MovedTo(fr, a)] = Piece[fr] \o Expanded[g]
  <2>1. fr \in Frames /\ AtBoundary(fr)
    BY <1>6
  <2>2. /\ MovedTo(fr, fr.at + 2) \in Frames /\ AtBoundary(MovedTo(fr, fr.at + 2))
        /\ Piece[MovedTo(fr, fr.at + 2)] = Piece[fr] \o Expanded[g]
    BY <1>7, <2>1, DirectiveSaid, Zenon
  <2> QED BY <2>2, Zenon
<1>9. a \in 0 .. Len(Text[fr.file])
  <2>1. fr.at \in Nat /\ a <= Len(Text[fr.file]) /\ Len(Text[fr.file]) \in Nat
    BY <1>7, <1>8, TextFacts DEF Including, Frames
  <2> QED BY <1>8, <2>1
<1>10. /\ Moved(Append(rest, fr), 2) = Append(rest, MovedTo(fr, a))
       /\ MovedTo(fr, a).file = fr.file
  BY <1>8, <1>9, MovesOn
<1>11. PICK new \in Frames : new = MovedTo(fr, a) /\ new.file = fr.file /\ AtBoundary(new)
  BY <1>8, <1>10
<1>12. nx = Append(rest, new)
  BY <1>4, <1>6, <1>10, <1>11
<1>13. Standing(Append(rest, new), c)
  <2>1. /\ rest = <<>> => new.file = c
        /\ rest # <<>> => Standing(rest, c) /\ Including(rest[Len(rest)], new.file)
    BY <1>6, <1>11
  <2> QED BY <1>11, <2>1, StandingOn
<1>14. Said(Append(rest, new)) = Said(rest) \o (Piece[fr] \o Expanded[g])
  <2>1. Said(Append(rest, new)) = Said(rest) \o Piece[new]
    BY SaidAppend
  <2> QED BY <1>8, <1>11, <2>1
<1>15. Said(st) = (Said(rest) \o Piece[fr]) \o Expanded[g]
  <2>1. Said(Append(rest, fr)) = Said(rest) \o Piece[fr]
    BY SaidAppend
  <2>2. Said(Append(front, top)) = Said(front) \o Piece[top]
    BY SaidAppend
  <2>3. Piece[top] = Expanded[g]
    <3>1. Pre(g, Len(Text[g])) = Expanded[g]
      BY PreFacts
    <3> QED BY <1>2, <3>1 DEF Piece
  <2> QED BY <1>1, <1>6, <2>1, <2>2, <2>3
<1>16. PICK x \in Seq(Tok), y \in Seq(Tok), z \in Seq(Tok) :
         x = Said(rest) /\ y = Piece[fr] /\ z = Expanded[g]
  <2>1. Said(rest) \in Seq(Tok) /\ Piece[fr] \in Seq(Tok)
    BY SaidAppend
  <2>2. Expanded[g] \in Seq(Tok)
    BY ExpandedIs
  <2> QED BY <2>1, <2>2
<1>17. (x \o y) \o z = x \o (y \o z)
  BY TokConcat
<1> QED BY <1>12, <1>13, <1>14, <1>15, <1>16, <1>17

(* What was kept is what was parsed.                                       *)
TextInv ==
  /\ phase = "load" => structs = <<>>
  /\ phase = "parse" => structs \in Seq(StructSet) /\ Standing(stack, conf) /\ Texts(structs) = Said(stack)
  /\ phase = "apply" => structs \in Seq(StructSet) /\ conf \in File /\ Texts(structs) = Expanded[conf]

LEMMA LoadFileText == TextInv /\ LoadFile => TextInv'
<1> SUFFICES ASSUME TextInv, LoadFile, conf \in File
             PROVE  TextInv'
  BY DEF LoadFile, TextInv
<1>11. PICK st : st = <<[file |-> conf, at |-> 0]>>
  OBVIOUS
<1>1. PICK c \in File : c = conf /\ st = <<[file |-> c, at |-> 0]>>
  BY <1>11
<1>2. phase' = "parse" /\ structs' = <<>> /\ conf' = c /\ stack' = st
  BY <1>1 DEF LoadFile, TextInv
<1>3. PICK new \in Frames : new = [file |-> c, at |-> 0] /\ new.file = c /\ new.at = 0
  BY NewFrame
<1>4. st = Append(<<>>, new) /\ <<>> \in Seq(Frames) /\ <<>> \in Seq(StructSet)
  BY <1>1, <1>3
<1>5. AtBoundary(new)
  BY <1>3 DEF AtBoundary
<1>6. Standing(st, c)
  BY <1>3, <1>4, <1>5, StandingOn
<1>7. Said(Append(<<>>, new)) = Said(<<>>) \o Piece[new]
  BY <1>4, SaidAppend
<1>8. Piece[new] = <<>>
  <2>1. Pre(c, 0) = <<>>
    BY PreFacts
  <2> QED BY <1>3, <2>1 DEF Piece
<1>9. Said(st) = <<>> /\ Texts(<<>>) = <<>>
  BY <1>4, <1>7, <1>8, NothingSaid
<1>10. structs' \in Seq(StructSet) /\ Standing(stack, conf)' /\ (Texts(structs) = Said(stack))'
  BY <1>2, <1>4, <1>6, <1>9, Zenon
<1> QED BY <1>2, <1>10 DEF TextInv

(* A struct is closed at the first place where it may be.                  *)
LEMMA FirstClosing ==
  ASSUME NEW f \in File, NEW i \in Nat, Closings(Text[f], i) # {}
  PROVE  Closes(Text[f], i, CHOOSE c \in Closings(Text[f], i) : \A d \in Closings(Text[f], i) : c <= d)
<1>1. Len(Text[f]) \in Nat
  BY TextFacts
<1>2. Closings(Text[f], i) \subseteq i + 2 .. Len(Text[f])
  BY Zenon DEF Closings
<1>3. Closings(Text[f], i) \in SUBSET Nat
  <2>1. i + 2 .. Len(Text[f]) \subseteq Nat
    BY <1>1
  <2> QED BY <1>2, <2>1
<1>4. PICK T \in SUBSET Nat : T = Closings(Text[f], i) /\ T # {}
  BY <1>3
<1>5. \E c \in T : \A d \in T : c <= d
  BY <1>4, LeastExists
<1>6. PICK j : j = CHOOSE c \in T : \A d \in T : c <= d
  OBVIOUS
<1>7. j \in T /\ \A d \in T : j <= d
  BY <1>5, <1>6, Zenon
<1> QED BY <1>4, <1>6, <1>7, Zenon DEF Closes

LEMMA FailsText == TextInv /\ ParseFails => TextInv'
BY DEF ParseFails, TextInv

(* The struct s, from token i to token j of f, was added.                  *)
StructAdded(f, i, j, s) ==
  /\ f \in File /\ i \in 1 .. Len(Text[f]) /\ Closes(Text[f], i, j)
  /\ s = [name |-> Text[f][i], pairs |-> PairsBetween(Text[f], i, j)]
  /\ structs \in Seq(StructSet) /\ s \in StructSet /\ structs' = Append(structs, s)
  /\ StructText(s) = SubSeq(Text[f], i, j)

LEMMA ParseStructText ==
  ASSUME PlainText, TextInv, ParseStruct
  PROVE  TextInv' /\ (ParseFails \/ \E f, i, j, s : StructAdded(f, i, j, s))
<1>1. PICK c, st, ss : c = conf /\ st = stack /\ ss = structs
  OBVIOUS
<1>2. /\ phase = "parse" /\ ss \in Seq(StructSet) /\ Standing(st, c) /\ Texts(ss) = Said(st)
      /\ conf' = c
  BY <1>1 DEF ParseStruct, Looking, TextInv
<1>3. PICK fr, f, i : fr = st[Len(st)] /\ f = fr.file /\ i = fr.at + 1
  OBVIOUS
<1>4. fr = Top /\ Text[f] = Tokens /\ Text[f][i] = Token /\ fr.at < Len(Text[f])
      /\ Text[f][i] # IncludeDirective
  BY <1>1, <1>3 DEF Top, Tokens, Token, ParseStruct, Looking
<1>5. f \in File /\ i \in Nat
  <2>1. PICK front \in Seq(Frames), top \in Frames : OnTop(st, c, front, top)
    BY <1>2, StandingSplit
  <2> QED BY <1>3, <2>1 DEF OnTop, Frames
<1>6. PICK j : j = CHOOSE d \in Closings(Text[f], i) : \A e \in Closings(Text[f], i) : d <= e
  OBVIOUS
<1>7. CASE Closings(Text[f], i) = {}
  <2>1. ParseFails
    BY <1>3, <1>4, <1>7, Zenon DEF ParseStruct
  <2> QED BY <2>1, FailsText, Zenon
<1>8. CASE Closings(Text[f], i) # {}
  <2>1. Closes(Text[f], i, j)
    BY <1>5, <1>6, <1>8, FirstClosing
  <2>2. PICK s : s = [name |-> Text[f][i], pairs |-> PairsBetween(Text[f], i, j)]
    OBVIOUS
  <2>3. AddStruct(s) /\ stack' = Skip(j - i + 1) /\ UNCHANGED phase
    BY <1>3, <1>4, <1>6, <1>8, <2>2, Zenon DEF ParseStruct
  <2>4. PICK e, nx : e = j - i + 1 /\ nx = Moved(st, e)
    OBVIOUS
  <2>5. structs' = Append(ss, s) /\ stack' = nx /\ phase' = "parse"
    BY <1>1, <1>2, <2>3, <2>4 DEF AddStruct, Skip, Moved
  <2>6. /\ i \in 1 .. Len(Text[f]) /\ f \in File
        /\ Standing(nx, c) /\ Said(nx) = Said(st) \o SubSeq(Text[f], i, j)
        /\ SubSeq(Text[f], i, j) \in Seq(Tok)
    <3>1. AtStruct(st, c, f, i, j, e)
      BY <1>2, <1>3, <1>4, <2>1, <2>4, Zenon DEF AtStruct
    <3>2. nx = Moved(st, e)
      BY <2>4
    <3> QED BY <3>1, <3>2, StructSaid
  <2>7. s \in StructSet /\ StructText(s) = SubSeq(Text[f], i, j)
    BY <1>5, <2>1, <2>2, <2>6, StructKept
  <2>8. Append(ss, s) \in Seq(StructSet) /\ Texts(Append(ss, s)) = Texts(ss) \o StructText(s)
    BY <1>2, <2>7, TextsAppend
  <2>9. structs' \in Seq(StructSet) /\ Standing(stack, conf)' /\ (Texts(structs) = Said(stack))'
    BY <1>2, <2>5, <2>6, <2>7, <2>8, Zenon
  <2>10. TextInv'
    BY <2>5, <2>9 DEF TextInv
  <2>11. StructAdded(f, i, j, s)
    BY <1>1, <1>2, <1>5, <2>1, <2>2, <2>5, <2>6, <2>7, Zenon DEF StructAdded
  <2> QED BY <2>10, <2>11, Zenon
<1> QED BY <1>7, <1>8

LEMMA ParseIncludeText == TextInv /\ ParseInclude => TextInv'
<1> SUFFICES ASSUME TextInv, ParseInclude
             PROVE  TextInv'
  OBVIOUS
<1>1. PICK c, st, ss : c = conf /\ st = stack /\ ss = structs
  OBVIOUS
<1>2. /\ phase = "parse" /\ ss \in Seq(StructSet) /\ Standing(st, c) /\ Texts(ss) = Said(st)
      /\ conf' = c
  BY <1>1 DEF ParseInclude, Looking, TextInv
<1>3. PICK fr, f, g : fr = st[Len(st)] /\ f = fr.file /\ g = Text[f][fr.at + 2]
  OBVIOUS
<1>4. /\ fr = Top /\ Text[f] = Tokens /\ Text[f][fr.at + 1] = IncludeDirective
      /\ g = Tokens[Top.at + 2]
  BY <1>1, <1>3 DEF Top, Tokens, Token, ParseInclude
<1>5. fr.at \in Nat /\ Len(Text[f]) \in Nat
  <2>1. PICK front \in Seq(Frames), top \in Frames : OnTop(st, c, front, top)
    BY <1>2, StandingSplit
  <2>2. top = fr /\ f \in File /\ fr.at \in Nat
    BY <1>3, <2>1 DEF OnTop, Frames
  <2> QED BY <2>2, TextFacts
<1>6. CASE ~ (Top.at + 1 < Len(Tokens) /\ Tokens[Top.at + 2] \in File)
  <2>1. ParseFails
    BY <1>6, Zenon DEF ParseInclude
  <2> QED BY <2>1, FailsText
<1>7. CASE Top.at + 1 < Len(Tokens) /\ Tokens[Top.at + 2] \in File
  <2>1. PICK nx : nx = Append(st, [file |-> g, at |-> 0])
    OBVIOUS
  <2>2. stack' = nx /\ structs' = ss /\ phase' = "parse"
    BY <1>1, <1>2, <1>4, <1>7, <2>1, Zenon DEF ParseInclude
  <2>3. fr.at + 1 < Len(Text[f]) /\ g \in File
    BY <1>4, <1>7
  <2>4. Including(fr, g)
    <3>1. fr.at + 2 <= Len(Text[f])
      BY <1>5, <2>3
    <3> QED BY <1>3, <1>4, <3>1 DEF Including
  <2>5. Standing(nx, c) /\ Said(nx) = Said(st)
    <3>1. Standing(st, c) /\ Including(st[Len(st)], g) /\ g \in File
      BY <1>2, <1>3, <2>3, <2>4
    <3> QED BY <2>1, <3>1, IncludeSaid, Zenon
  <2>6. structs' \in Seq(StructSet) /\ Standing(stack, conf)' /\ (Texts(structs) = Said(stack))'
    BY <1>2, <2>2, <2>5, Zenon
  <2> QED BY <2>2, <2>6 DEF TextInv
<1> QED BY <1>6, <1>7

LEMMA EndBufText == PlainText /\ TextInv /\ EndBuf => TextInv'
<1> SUFFICES ASSUME PlainText, TextInv, EndBuf
             PROVE  TextInv'
  OBVIOUS
<1>1. PICK c, st, ss : c = conf /\ st = stack /\ ss = structs
  OBVIOUS
<1>2. /\ phase = "parse" /\ ss \in Seq(StructSet) /\ Standing(st, c) /\ Texts(ss) = Said(st)
      /\ conf' = c /\ structs' = ss
  BY <1>1 DEF EndBuf, TextInv
<1>3. st[Len(st)].at = Len(Text[st[Len(st)].file])
  BY <1>1 DEF EndBuf, Top, Tokens
<1>4. CASE Len(stack) = 1
  <2>1. phase' = "apply"
    BY <1>4 DEF EndBuf
  <2>2. c \in File /\ Said(st) = Expanded[c]
    BY <1>1, <1>2, <1>3, <1>4, LastSaid
  <2>3. structs' \in Seq(StructSet) /\ conf' \in File /\ (Texts(structs) = Expanded[conf])'
    BY <1>2, <2>2, Zenon
  <2> QED BY <2>1, <2>3 DEF TextInv
<1>5. CASE Len(stack) # 1
  <2>1. EndInclude /\ UNCHANGED phase
    BY <1>5 DEF EndBuf
  <2>2. PICK front : front = SubSeq(st, 1, Len(st) - 1)
    OBVIOUS
  <2>3. Len(front) = Len(st) - 1
    <3>1. PICK rest \in Seq(Frames), top \in Frames : OnTop(st, c, rest, top)
      BY <1>2, StandingSplit
    <3>2. Len(st) - 1 = Len(rest)
      BY <3>1 DEF OnTop
    <3>3. SubSeq(Append(rest, top), 1, Len(rest)) = rest
      BY SubSeqOfAppend
    <3> QED BY <2>2, <3>1, <3>2, <3>3 DEF OnTop
  <2>4. PICK nx : nx = Moved(SubSeq(st, 1, Len(st) - 1), 2)
    OBVIOUS
  <2>5. stack' = nx
    BY <1>1, <2>1, <2>2, <2>3, <2>4 DEF EndInclude, Moved
  <2>6. Standing(nx, c) /\ Said(nx) = Said(st)
    BY <1>1, <1>2, <1>3, <1>5, <2>4, EndSaid
  <2>7. structs' \in Seq(StructSet) /\ Standing(stack, conf)' /\ (Texts(structs) = Said(stack))'
    BY <1>2, <2>5, <2>6, Zenon
  <2>8. phase' = "parse"
    BY <1>2, <2>1
  <2> QED BY <2>7, <2>8 DEF TextInv
<1> QED BY <1>4, <1>5

(* The parser is done, or does not move.                                   *)
LEMMA OtherText ==
  ASSUME TextInv, UNCHANGED <<conf, structs>>, UNCHANGED <<phase, stack>> \/ phase' = "run"
  PROVE  TextInv'
BY DEF TextInv, Standing

LEMMA ReleaseText ==
  ASSUME phase' \in {"refused", "abort", "hung", "run", "release", "closed"}
  PROVE  TextInv'
BY DEF TextInv

LEMMA NextStructText == TextInv /\ NextStruct => TextInv'
BY OtherText DEF NextStruct

(* What the steps do to the phase, but for those of the parser.            *)
LEMMA OtherSteps ==
  ASSUME [Next]_vars, ~ ParserNext
  PROVE  \/ NextStruct \/ StructFails \/ StartRelease \/ Opened
         \/ EndsAs("abort") \/ EndsAs("hung")
         \/ (\E part : Releasing(part)) \/ UNCHANGED vars
<1>1. ApplyBase \/ ApplySocket \/ ApplyNode \/ ApplyHttpd \/ IgnoreStruct => NextStruct \/ StructFails
  BY Zenon DEF ApplyBase, ApplySocket, ApplyNode, ApplyHttpd, IgnoreStruct
<1>2. \A name, part : ApplyDevice(name, part) => NextStruct \/ StructFails
  BY Zenon DEF ApplyDevice
<1>3. LoadFailed \/ Close => StartRelease
  BY DEF LoadFailed, Close
<1>4. ReleaseNodls \/ ReleaseNodes \/ ReleaseSockets => \E part : Releasing(part)
  BY Zenon DEF ReleaseNodls, ReleaseNodes, ReleaseSockets
<1>5. (\E part \in {"thread", "camera", "tls"} : ReleaseDevice(part)) => \E part : Releasing(part)
  BY Zenon DEF ReleaseDevice
<1>6. AbortInNodl \/ HangInNodl \/ HangInFini \/ AbortInNodes => EndsAs("abort") \/ EndsAs("hung")
  BY Zenon DEF AbortInNodl, HangInNodl, HangInFini, AbortInNodes
<1> QED BY <1>1, <1>2, <1>3, <1>4, <1>5, <1>6, Zenon DEF Next, Proceed

LEMMA TextStep == PlainText /\ TextInv /\ [Next]_vars => TextInv'
<1> SUFFICES ASSUME PlainText, TextInv, [Next]_vars
             PROVE  TextInv'
  OBVIOUS
<1>1. CASE ParserNext
  <2>1. CASE ParseOtherDirective
    BY <2>1, OtherText DEF ParseOtherDirective, parserVars
  <2> QED BY <1>1, <2>1, LoadFileText, ParseStructText, ParseIncludeText, EndBufText DEF ParserNext
<1>2. CASE NextStruct
  BY <1>2, NextStructText
<1>3. CASE StructFails \/ StartRelease
  BY <1>3, ReleaseText DEF StructFails, StartRelease
<1>4. CASE \E part : Releasing(part)
  <2>1. phase' \in {"release", "closed"}
    BY <1>4 DEF Releasing
  <2> QED BY <2>1, ReleaseText
<1>5. CASE EndsAs("abort") \/ EndsAs("hung") \/ Opened
  BY <1>5, ReleaseText DEF EndsAs, Opened
<1>6. CASE UNCHANGED vars
  BY <1>6, OtherText DEF vars, parserVars
<1> QED BY <1>1, <1>2, <1>3, <1>4, <1>5, <1>6, OtherSteps

(* The structs that the base is set up from are those of the configuration *)
(* whatever files it includes, and these in turn: bano_parser_load_file    *)
(* and parse_buf.  The parser takes any three words in a struct for a      *)
(* pair, so that no pair of the configuration may look like a directive.   *)
THEOREM TextKeptAlways == ASSUME PlainText PROVE Spec => []TextKept
<1>1. Init => TextInv
  BY DEF Init, ParserInit, TextInv
<1>2. TextInv => TextKept
  <2> SUFFICES ASSUME TextInv, phase = "apply"
               PROVE  FlattenSeq([i \in DOMAIN structs |-> StructText(structs[i])]) = Expanded[conf]
    BY DEF TextKept
  <2>1. structs \in Seq(StructSet) /\ Texts(structs) = Expanded[conf]
    BY DEF TextInv
  <2> QED BY <2>1, TextsAre, Zenon
<1> QED BY <1>1, <1>2, TextStep, PTL DEF Spec

-----------------------------------------------------------------------------
(* Where structs begin in the text                                         *)

Brace == "{"

(* A configuration with an accolade where a struct is opened only.         *)
PlainBraces ==
  \A f \in File : \A i \in 1 .. Len(Text[f]) : \A j \in Closings(Text[f], i) :
    Closes(Text[f], i, j) => \A m \in i .. j : Text[f][m] = Brace => m = i + 1

(* w is the text of one struct.                                            *)
Opens(w, name) ==
  /\ w \in Seq(Tok) /\ Len(w) \in Nat /\ Len(w) >= 2 /\ w[1] = name /\ w[2] = Brace
  /\ \A q \in 1 .. Len(w) : w[q] = Brace => q = 2

BeginsAt(t, name, i) == i \in 1 .. Len(t) - 1 /\ t[i] = name /\ t[i + 1] = Brace
NoneNamed(ss, n, name) == \A k \in 1 .. n : ss[k].name # name

LEMMA BeginsIs == \A c, name, i : i \in Begins(c, name) <=> BeginsAt(Expanded[c], name, i)
BY Zenon DEF Begins, BeginsAt, Brace

LEMMA StructOpens ==
  ASSUME PlainText, PlainBraces, NEW f, NEW i, NEW j, NEW s, StructAdded(f, i, j, s)
  PROVE  Opens(StructText(s), s.name)
<1>1. f \in File /\ i \in 1 .. Len(Text[f]) /\ Closes(Text[f], i, j) /\ s.name = Text[f][i]
  BY DEF StructAdded
<1>2. PICK w : w = SubSeq(Text[f], i, j) /\ w = StructText(s)
  BY DEF StructAdded
<1>3. i \in Nat /\ j \in i + 2 .. Len(Text[f]) /\ Text[f][i + 1] = Brace
  <2>1. i \in Nat /\ j \in i + 2 .. Len(Text[f])
    BY <1>1, StructPlace
  <2>2. Text[f][i + 1] = "{"
    BY <1>1, StructPlace
  <2> QED BY <2>1, <2>2, Zenon DEF Brace
<1>4. PICK t \in Seq(Tok), n \in Nat :
        t = Text[f] /\ n = Len(t) /\ \A m \in 1 .. n : t[m] \in Tok
  BY <1>1, TextFacts
<1>5. j \in Nat /\ i + 2 <= j /\ j <= n /\ 1 <= i
  BY <1>1, <1>3, <1>4
<1>6. /\ w \in Seq(Tok) /\ Len(w) = j - i + 1
      /\ \A q \in 1 .. j - i + 1 : w[q] = t[i + q - 1]
  <2>1. \A m \in i .. j : t[m] \in Tok
    BY <1>3, <1>4, <1>5
  <2>2. i \in Int /\ j \in Int /\ i <= j
    BY <1>3, <1>5
  <2>3. SubSeq(t, i, j) \in Seq(Tok)
    BY <2>1, <2>2, SubSeqProperties
  <2>4. Len(SubSeq(t, i, j)) = j - i + 1
    BY <2>1, <2>2, SubSeqProperties
  <2>5. \A q \in 1 .. j - i + 1 : SubSeq(t, i, j)[q] = t[i + q - 1]
    BY <2>1, <2>2, SubSeqProperties
  <2> QED BY <1>2, <1>4, <2>3, <2>4, <2>5
<1>7. w[1] = t[i] /\ w[2] = t[i + 1]
  <2>1. 1 \in 1 .. j - i + 1 /\ 2 \in 1 .. j - i + 1 /\ i + 1 - 1 = i /\ i + 2 - 1 = i + 1
    BY <1>3, <1>5
  <2> QED BY <1>6, <2>1
<1>8. ASSUME NEW q \in 1 .. j - i + 1, w[q] = Brace
      PROVE  q = 2
  <2>1. PICK m \in i .. j : m = i + q - 1
    BY <1>3, <1>5
  <2>2. t[m] = Brace
    BY <1>6, <1>8, <2>1
  <2>3. m = i + 1
    <3>1. j \in Closings(Text[f], i)
      BY <1>1 DEF Closes
    <3> QED BY <1>1, <1>4, <2>2, <3>1 DEF PlainBraces
  <2> QED BY <1>3, <2>1, <2>3
<1>9. Len(w) \in Nat /\ Len(w) >= 2
  BY <1>3, <1>5, <1>6
<1> QED BY <1>1, <1>2, <1>3, <1>4, <1>6, <1>7, <1>8, <1>9 DEF Opens

(* The structs ss, of text t: when none is a socket, no socket begins in   *)
(* the text, and when none is up to an HTTP server, none does before it.   *)
Ordered(ss, t) ==
  /\ NoneNamed(ss, Len(ss), "socket") => \A j : ~ BeginsAt(t, "socket", j)
  /\ \A k \in 1 .. Len(ss) : ss[k].name = "http_server" /\ NoneNamed(ss, k - 1, "socket") =>
       \E i : BeginsAt(t, "http_server", i) /\ \A j \in 1 .. i - 1 : ~ BeginsAt(t, "socket", j)

LEMMA OrderedAppend ==
  ASSUME NEW ss \in Seq(StructSet), NEW s \in StructSet, NEW t \in Seq(Tok), NEW w,
         Opens(w, s.name), Ordered(ss, t)
  PROVE  Ordered(Append(ss, s), t \o w)
<1>1. PICK n \in Nat, l \in Nat : n = Len(ss) /\ l = Len(t)
  BY LenProperties
<1>2. PICK h \in Nat : h = Len(w) /\ h >= 2 /\ w \in Seq(Tok)
  BY DEF Opens
<1>3. PICK r, u : r = Append(ss, s) /\ u = t \o w
  OBVIOUS
<1>4. Len(r) = n + 1 /\ r[n + 1] = s /\ \A k \in 1 .. n : r[k] = ss[k]
  BY <1>1, <1>3, AppendProperties
<1>5. Len(u) = l + h /\ (\A q \in 1 .. l : u[q] = t[q]) /\ \A q \in 1 .. h : u[l + q] = w[q]
  <2>1. Len(u) = l + h
    BY <1>1, <1>2, <1>3, ConcatProperties
  <2>2. \A q \in 1 .. l + h : u[q] = IF q <= l THEN t[q] ELSE w[q - l]
    BY <1>1, <1>2, <1>3, ConcatProperties
  <2>3. \A q \in 1 .. h : l + q \in 1 .. l + h /\ ~ (l + q <= l) /\ (l + q) - l = q
    OBVIOUS
  <2> QED BY <2>1, <2>2, <2>3
<1>6. ASSUME NEW name, NEW j \in 1 .. l - 1
      PROVE  BeginsAt(u, name, j) <=> BeginsAt(t, name, j)
  <2>1. j \in 1 .. l /\ j + 1 \in 1 .. l /\ j \in 1 .. Len(u) - 1
    BY <1>1, <1>2, <1>5
  <2> QED BY <1>1, <1>5, <2>1 DEF BeginsAt
<1>7. ASSUME NEW name, NEW j, BeginsAt(u, name, j), j \notin 1 .. l - 1, name # s.name
      PROVE  FALSE
  <2>1. j \in Nat /\ j >= 1 /\ j <= l + h - 1
    BY <1>5, <1>7 DEF BeginsAt
  <2>2. j >= l
    BY <1>1, <2>1, <1>7
  <2>3. PICK q \in 1 .. h : q = j + 1 - l
    <3>1. j \in Nat /\ j >= l /\ j <= l + h - 1
      BY <2>1, <2>2
    <3>2. j + 1 - l \in 1 .. h
      BY <3>1
    <3> QED BY <3>2
  <2>4. w[q] = Brace
    <3>1. l + q = j + 1
      BY <2>1, <2>3
    <3> QED BY <1>5, <1>7, <3>1 DEF BeginsAt
  <2>5. q = 2
    BY <1>2, <2>4 DEF Opens
  <2>6. j = l + 1 /\ 1 \in 1 .. h
    BY <1>2, <2>1, <2>3, <2>5
  <2>7. u[j] = w[1]
    BY <1>5, <2>6
  <2> QED BY <1>7, <2>7 DEF BeginsAt, Opens
<1>8. NoneNamed(r, n, "socket") <=> NoneNamed(ss, n, "socket")
  BY <1>4 DEF NoneNamed
<1>9. ASSUME NoneNamed(r, n + 1, "socket")
      PROVE  \A j : ~ BeginsAt(u, "socket", j)
  <2>1. s.name # "socket" /\ NoneNamed(ss, n, "socket")
    <3>1. n + 1 \in 1 .. n + 1 /\ \A k \in 1 .. n : k \in 1 .. n + 1
      OBVIOUS
    <3> QED BY <1>4, <1>9, <3>1 DEF NoneNamed
  <2>2. \A j : ~ BeginsAt(t, "socket", j)
    BY <1>1, <2>1 DEF Ordered
  <2> QED BY <1>6, <1>7, <2>1, <2>2
<1>10. ASSUME NEW k \in 1 .. n + 1, r[k].name = "http_server", NoneNamed(r, k - 1, "socket")
       PROVE  \E i : /\ BeginsAt(u, "http_server", i)
                     /\ \A j \in 1 .. i - 1 : ~ BeginsAt(u, "socket", j)
  <2>1. CASE k \in 1 .. n
    <3>1. ss[k].name = "http_server" /\ NoneNamed(ss, k - 1, "socket")
      <4>1. \A m \in 1 .. k - 1 : m \in 1 .. n
        BY <2>1
      <4> QED BY <1>4, <1>10, <2>1, <4>1 DEF NoneNamed
    <3>2. PICK i : /\ BeginsAt(t, "http_server", i)
                   /\ \A j \in 1 .. i - 1 : ~ BeginsAt(t, "socket", j)
      BY <1>1, <2>1, <3>1 DEF Ordered
    <3>3. i \in 1 .. l - 1
      BY <1>1, <3>2 DEF BeginsAt
    <3>4. \A j \in 1 .. i - 1 : j \in 1 .. l - 1
      BY <3>3
    <3> QED BY <1>6, <3>2, <3>3, <3>4
  <2>2. CASE k = n + 1
    <3>1. s.name = "http_server" /\ NoneNamed(ss, n, "socket")
      <4>1. k - 1 = n
        BY <2>2
      <4> QED BY <1>4, <1>8, <1>10, <2>2, <4>1
    <3>2. \A j : ~ BeginsAt(t, "socket", j)
      BY <1>1, <3>1 DEF Ordered
    <3>3. PICK i : i = l + 1
      OBVIOUS
    <3>4. BeginsAt(u, "http_server", i)
      <4>1. u[l + 1] = w[1] /\ u[l + 2] = w[2]
        BY <1>2, <1>5
      <4>2. l + 1 \in 1 .. Len(u) - 1 /\ (l + 1) + 1 = l + 2
        BY <1>2, <1>5
      <4> QED BY <3>1, <3>3, <4>1, <4>2 DEF BeginsAt, Opens
    <3>5. \A j : ~ BeginsAt(u, "socket", j)
      BY <1>6, <1>7, <3>1, <3>2
    <3> QED BY <3>4, <3>5
  <2> QED BY <2>1, <2>2
<1> QED BY <1>3, <1>4, <1>9, <1>10 DEF Ordered

(* What a step does to the structs while they matter.                      *)
LEMMA StructsMove ==
  ASSUME PlainText, TextInv, [Next]_vars
  PROVE  \/ phase = "parse" /\ \E f, i, j, s : StructAdded(f, i, j, s)
         \/ structs' = <<>>
         \/ UNCHANGED structs /\ (UNCHANGED phase \/ phase = "parse")
         \/ phase' \notin {"parse", "apply"}
<1>1. ParseStruct => \/ phase = "parse" /\ \E f, i, j, s : StructAdded(f, i, j, s)
                     \/ ParseFails
  <2>1. ParseStruct => phase = "parse"
    BY DEF ParseStruct, Looking
  <2> QED BY <2>1, ParseStructText
<1>2. LoadFile => structs' = <<>>
  BY DEF LoadFile, TextInv
<1>3. ParseInclude => ParseFails \/ UNCHANGED <<phase, structs>>
  BY DEF ParseInclude
<1>4. ParseFails => phase' \notin {"parse", "apply"}
  BY DEF ParseFails
<1>5. EndBuf => UNCHANGED structs /\ phase = "parse"
  BY DEF EndBuf
<1>6. CASE ParserNext
  BY <1>1, <1>2, <1>3, <1>4, <1>5, <1>6 DEF ParserNext, ParseOtherDirective, parserVars
<1>7. NextStruct => UNCHANGED <<phase, structs>>
  BY DEF NextStruct
<1>8. StructFails \/ StartRelease \/ EndsAs("abort") \/ EndsAs("hung") \/ Opened
        => phase' \notin {"parse", "apply"}
  BY DEF StructFails, StartRelease, EndsAs, Opened
<1>9. \A part : Releasing(part) => phase' \notin {"parse", "apply"}
  BY DEF Releasing
<1>10. CASE ~ ParserNext
  BY <1>7, <1>8, <1>9, <1>10, OtherSteps DEF vars, parserVars
<1> QED BY <1>6, <1>10

LEMMA TextGrows ==
  ASSUME NEW f, NEW i, NEW j, NEW s, StructAdded(f, i, j, s)
  PROVE  /\ structs \in Seq(StructSet) /\ s \in StructSet /\ Texts(structs) \in Seq(Tok)
         /\ structs' = Append(structs, s)
         /\ Texts(structs)' = Texts(structs) \o StructText(s)
<1>1. structs \in Seq(StructSet) /\ s \in StructSet /\ structs' = Append(structs, s)
  BY DEF StructAdded
<1>2. PICK ss \in Seq(StructSet) : ss = structs
  BY <1>1
<1>3. Texts(Append(ss, s)) = Texts(ss) \o StructText(s) /\ Texts(ss) \in Seq(Tok)
  BY <1>1, TextsAppend
<1> QED BY <1>1, <1>2, <1>3, Zenon

OrderInv == phase \in {"parse", "apply"} => Ordered(structs, Texts(structs))

LEMMA OrderStep ==
  ASSUME PlainText, PlainBraces, TextInv, OrderInv, [Next]_vars
  PROVE  OrderInv'
<1>1. CASE phase = "parse" /\ \E f, i, j, s : StructAdded(f, i, j, s)
  <2>1. PICK f, i, j, s : StructAdded(f, i, j, s)
    BY <1>1
  <2>2. PICK ss \in Seq(StructSet), t \in Seq(Tok) : ss = structs /\ t = Texts(structs)
    BY <2>1, TextGrows
  <2>3. PICK w : w = StructText(s) /\ s \in StructSet
    BY <2>1, TextGrows
  <2>4. Opens(w, s.name)
    BY <2>1, <2>3, StructOpens
  <2>5. Ordered(ss, t)
    BY <1>1, <2>2 DEF OrderInv
  <2>6. Ordered(Append(ss, s), t \o w)
    BY <2>3, <2>4, <2>5, OrderedAppend
  <2>7. structs' = Append(ss, s) /\ Texts(structs)' = t \o w
    BY <2>1, <2>2, <2>3, TextGrows
  <2>8. Ordered(structs, Texts(structs))'
    BY <2>6, <2>7, Zenon
  <2> QED BY <2>8 DEF OrderInv
<1>2. CASE structs' = <<>>
  <2>1. Ordered(<<>>, Texts(<<>>))
    <3>1. Texts(<<>>) = <<>> /\ Len(<<>>) = 0
      BY NothingSaid
    <3>2. (\A j : ~ BeginsAt(<<>>, "socket", j)) /\ 1 .. Len(<<>>) = {}
      BY DEF BeginsAt
    <3> QED BY <3>1, <3>2 DEF Ordered
  <2>2. Ordered(structs, Texts(structs))'
    BY <1>2, <2>1, Zenon
  <2> QED BY <2>2 DEF OrderInv
<1>3. CASE UNCHANGED structs /\ (UNCHANGED phase \/ phase = "parse")
  BY <1>3 DEF OrderInv
<1>4. CASE phase' \notin {"parse", "apply"}
  BY <1>4 DEF OrderInv
<1> QED BY <1>1, <1>2, <1>3, <1>4, StructsMove

(* An HTTP server was set up before any socket of the configuration.       *)
HttpdFirst(ss, a) ==
  \E k \in 1 .. a : ss[k].name = "http_server" /\ NoneNamed(ss, k - 1, "socket")

(* The list of sockets against the structs that were applied.              *)
SocketsInv ==
  /\ phase \in {"load", "parse"} => applied = 0 /\ sockets = <<>>
  /\ phase \in {"apply", "run"} => sockets \in Seq({"radio", "pipe"})
  /\ phase = "apply" =>
       /\ structs \in Seq(StructSet) /\ applied \in 0 .. Len(structs)
       /\ sockets = <<>> => NoneNamed(structs, applied, "socket")
       /\ sockets = <<>> \/ sockets[1] = "radio" \/ HttpdFirst(structs, applied)
  /\ phase = "run" => sockets = <<>> \/ sockets[1] = "radio" \/ ~ SocketFirst

NodesInv ==
  /\ phase \in {"load", "parse"} => nodes = <<>>
  /\ phase \in {"apply", "run"} =>
       (nodes # <<>> => sockets # <<>>) /\ \A n \in DOMAIN nodes : nodes[n].socket = 1

LEMMA NotSocketFirst ==
  ASSUME NEW ss, NEW a, a <= Len(ss), Len(ss) \in Nat, a \in Nat,
         HttpdFirst(ss, a), Ordered(ss, Expanded[conf])
  PROVE  ~ SocketFirst
<1>1. PICK k \in 1 .. a : ss[k].name = "http_server" /\ NoneNamed(ss, k - 1, "socket")
  BY DEF HttpdFirst
<1>2. k \in 1 .. Len(ss)
  OBVIOUS
<1>3. PICK i : /\ BeginsAt(Expanded[conf], "http_server", i)
               /\ \A j \in 1 .. i - 1 : ~ BeginsAt(Expanded[conf], "socket", j)
  BY <1>1, <1>2 DEF Ordered
<1>4. i \in Begins(conf, "http_server")
  BY <1>3, BeginsIs, Zenon
<1>5. ASSUME NEW j \in Begins(conf, "socket"), j < i
      PROVE  FALSE
  <2>1. BeginsAt(Expanded[conf], "socket", j)
    BY BeginsIs, Zenon
  <2>2. i \in Int /\ j \in Int /\ j >= 1
    BY <1>3, <2>1 DEF BeginsAt
  <2>3. j \in 1 .. i - 1
    BY <1>5, <2>2
  <2> QED BY <1>3, <2>1, <2>3
<1> QED BY <1>4, <1>5 DEF SocketFirst

(* A struct was applied; only one that is a socket, or an HTTP server, may *)
(* have changed the list.                                                  *)
LEMMA SocketsNext ==
  ASSUME SocketsInv, phase = "apply", applied < Len(structs), NextStruct, NEW name, name = Struct.name,
         \/ UNCHANGED sockets /\ name # "socket"
         \/ sockets' = Append(sockets, "radio")
         \/ sockets' = Append(sockets, "pipe") /\ name = "http_server"
  PROVE  SocketsInv'
<1>1. PICK ss \in Seq(StructSet), n \in Nat, k \in Seq({"radio", "pipe"}), a \in Nat :
        ss = structs /\ n = Len(ss) /\ k = sockets /\ a = applied
  <2>1. structs \in Seq(StructSet) /\ sockets \in Seq({"radio", "pipe"})
        /\ applied \in 0 .. Len(structs) /\ Len(structs) \in Nat
    BY LenProperties DEF SocketsInv
  <2> QED BY <2>1
<1>2. PICK l : l = sockets'
  OBVIOUS
<1>3. /\ structs' = ss /\ applied' = a + 1 /\ phase' = "apply" /\ a < n /\ name = ss[a + 1].name
  BY <1>1 DEF NextStruct, Struct
<1>4. /\ k = <<>> => NoneNamed(ss, a, "socket")
      /\ k = <<>> \/ k[1] = "radio" \/ HttpdFirst(ss, a)
  BY <1>1 DEF SocketsInv
<1>5. a \in Nat /\ a + 1 \in 0 .. n
  BY <1>3
<1>6. HttpdFirst(ss, a) => HttpdFirst(ss, a + 1)
  <2>1. \A q \in 1 .. a : q \in 1 .. a + 1
    BY <1>5
  <2> QED BY <2>1 DEF HttpdFirst
<1>7. \A e \in {"radio", "pipe"} :
        /\ Append(k, e) # <<>> /\ Append(<<>>, e)[1] = e
        /\ k # <<>> => Append(k, e)[1] = k[1]
  <2> SUFFICES ASSUME NEW e \in {"radio", "pipe"}
               PROVE  /\ Append(k, e) # <<>> /\ Append(<<>>, e)[1] = e
                      /\ k # <<>> => Append(k, e)[1] = k[1]
    OBVIOUS
  <2>1. PICK m \in Nat : m = Len(k)
    BY LenProperties
  <2>2. k # <<>> => 1 \in 1 .. m
    BY <2>1, EmptySeq
  <2>3. Len(Append(k, e)) = m + 1 /\ \A q \in 1 .. m : Append(k, e)[q] = k[q]
    BY <2>1, AppendProperties
  <2>4. Append(k, e) # <<>>
    <3>1. Len(<<>>) = 0 /\ m + 1 # 0
      OBVIOUS
    <3> QED BY <2>3, <3>1
  <2>5. Append(<<>>, e)[1] = e
    OBVIOUS
  <2> QED BY <2>2, <2>3, <2>4, <2>5
<1>8. l \in Seq({"radio", "pipe"})
  BY <1>1, <1>2, AppendProperties
<1>9. l = <<>> => NoneNamed(ss, a + 1, "socket")
  <2> SUFFICES ASSUME l = <<>>
               PROVE  NoneNamed(ss, a + 1, "socket")
    OBVIOUS
  <2>1. k = <<>> /\ name # "socket"
    BY <1>1, <1>2, <1>7
  <2>2. \A q \in 1 .. a + 1 : q \in 1 .. a \/ q = a + 1
    BY <1>5
  <2> QED BY <1>3, <1>4, <2>1, <2>2 DEF NoneNamed
<1>10. l = <<>> \/ l[1] = "radio" \/ HttpdFirst(ss, a + 1)
  <2>1. CASE k # <<>>
    BY <1>1, <1>2, <1>4, <1>6, <1>7, <2>1
  <2>2. CASE k = <<>>
    <3>1. CASE l = Append(k, "pipe") /\ name = "http_server"
      <4>1. a + 1 \in 1 .. a + 1 /\ (a + 1) - 1 = a
        BY <1>5
      <4> QED BY <1>3, <1>4, <2>2, <3>1, <4>1 DEF HttpdFirst
    <3> QED BY <1>1, <1>2, <1>7, <2>2, <3>1
  <2> QED BY <2>1, <2>2
<1> QED BY <1>1, <1>2, <1>3, <1>5, <1>8, <1>9, <1>10 DEF SocketsInv

(* The sockets are let alone outside the opening.                          *)
LEMMA SocketsElse ==
  ASSUME SocketsInv, phase' \notin {"load", "parse", "apply", "run"}
  PROVE  SocketsInv'
BY DEF SocketsInv

LEMMA SocketsParser ==
  ASSUME TextInv, TextInv', SocketsInv, ParserNext, UNCHANGED <<applied, sockets>>
  PROVE  SocketsInv'
<1>1. phase \in {"load", "parse"} /\ phase' \in {"load", "parse", "apply", "refused", "abort"}
  BY DEF ParserNext, LoadFile, ParseStruct, ParseInclude, ParseOtherDirective, EndBuf,
     ParseFails, Looking, parserVars, TextInv
<1>2. applied' = 0 /\ sockets' = <<>>
  BY <1>1 DEF SocketsInv
<1>3. phase' = "apply" => structs' \in Seq(StructSet)
  BY DEF TextInv
<1>4. <<>> \in Seq({"radio", "pipe"})
  OBVIOUS
<1>5. phase' = "apply" => applied' \in 0 .. Len(structs') /\ NoneNamed(structs, applied, "socket")'
  <2> SUFFICES ASSUME phase' = "apply"
               PROVE  applied' \in 0 .. Len(structs') /\ NoneNamed(structs, applied, "socket")'
    OBVIOUS
  <2>1. PICK ss \in Seq(StructSet), n \in Nat : ss = structs' /\ n = Len(ss)
    BY <1>3, LenProperties
  <2>2. 0 \in 0 .. n /\ NoneNamed(ss, 0, "socket")
    BY DEF NoneNamed
  <2> QED BY <1>2, <2>1, <2>2, Zenon
<1> QED BY <1>1, <1>2, <1>3, <1>4, <1>5 DEF SocketsInv

(* A struct was applied, with what it may have done to the sockets and to  *)
(* the nodes.                                                              *)
SocketsMove ==
  \/ UNCHANGED sockets /\ Struct.name # "socket"
  \/ sockets' = Append(sockets, "radio")
  \/ sockets' = Append(sockets, "pipe") /\ Struct.name = "http_server"

NodesMove ==
  \/ UNCHANGED nodes
  \/ /\ sockets # <<>> /\ UNCHANGED sockets
     /\ \E e : nodes' = Append(nodes, e) /\ e.socket = 1

StructApplied ==
  phase = "apply" /\ applied < Len(structs) /\ NextStruct /\ SocketsMove /\ NodesMove

LEMMA MovesOnly ==
  ASSUME [Next]_vars
  PROVE  \/ ParserNext /\ UNCHANGED <<applied, sockets, nodes>>
         \/ StructApplied
         \/ Opened
         \/ phase' \notin {"load", "parse", "apply", "run"}
         \/ UNCHANGED vars
<1> DEFINE Ends == phase' \notin {"load", "parse", "apply", "run"}
<1>1. StructFails \/ StartRelease => Ends
  BY DEF StructFails, StartRelease
<1>15. AbortInNodl \/ HangInNodl \/ HangInFini \/ AbortInNodes => Ends
  BY DEF AbortInNodl, HangInNodl, HangInFini, AbortInNodes, EndsAs
<1>2. \A part : Releasing(part) => Ends
  BY DEF Releasing
<1>3. \A name : Applying(name) => phase = "apply" /\ applied < Len(structs) /\ Struct.name = name
  BY DEF Applying
<1> HIDE DEF Ends
<1>4. ApplyBase => StructApplied \/ Ends
  <2> SUFFICES ASSUME ApplyBase
               PROVE  StructApplied \/ Ends
    OBVIOUS
  <2>1. Applying("base") /\ UNCHANGED <<sockets, nodes>> /\ (NextStruct \/ StructFails)
    BY DEF ApplyBase
  <2>2. SocketsMove /\ NodesMove
    BY <1>3, <2>1 DEF SocketsMove, NodesMove
  <2> QED BY <1>1, <1>3, <2>1, <2>2 DEF StructApplied
<1>5. ApplySocket => StructApplied \/ Ends
  BY <1>1, <1>3, Zenon DEF ApplySocket, StructApplied, SocketsMove, NodesMove, AddSocket
<1>6. ApplyNode => StructApplied \/ Ends
  <2> SUFFICES ASSUME ApplyNode
               PROVE  StructApplied \/ Ends
    OBVIOUS
  <2>1. phase = "apply" /\ applied < Len(structs) /\ Struct.name = "node" /\ UNCHANGED sockets
    BY <1>3 DEF ApplyNode
  <2>2. CASE ~ NodeAccepted
    BY <1>1, <2>2 DEF ApplyNode
  <2>3. CASE NodeAccepted
    <3>1. sockets # <<>>
      BY <2>3 DEF NodeAccepted
    <3>2. NextStruct /\ \E e : nodes' = Append(nodes, e) /\ e.socket = 1
      <4>1. PICK id, d : id = Value(Struct, "nodl_id") /\ d = DictGet(nodls, id)
        OBVIOUS
      <4>2. NextStruct /\ nodes' = Append(nodes, [id |-> id, nodl |-> d, socket |-> FirstSocket])
        BY <2>3, <4>1 DEF ApplyNode
      <4>3. [id |-> id, nodl |-> d, socket |-> FirstSocket].socket = 1
        BY DEF FirstSocket
      <4> QED BY <4>2, <4>3, Zenon
    <3>3. SocketsMove
      BY <2>1 DEF SocketsMove
    <3> QED BY <2>1, <3>1, <3>2, <3>3 DEF StructApplied, NodesMove
  <2> QED BY <2>2, <2>3
<1>7. ApplyHttpd => StructApplied \/ Ends
  BY <1>1, <1>3, Zenon DEF ApplyHttpd, StructApplied, SocketsMove, NodesMove, AddSocket
<1>8. ApplyDevice("cam", "camera") \/ ApplyDevice("sms", "tls") => StructApplied \/ Ends
  <2> SUFFICES ASSUME NEW name \in {"cam", "sms"}, NEW part, ApplyDevice(name, part)
               PROVE  StructApplied \/ Ends
    OBVIOUS
  <2>1. Applying(name) /\ UNCHANGED <<sockets, nodes>> /\ (NextStruct \/ StructFails)
    BY DEF ApplyDevice
  <2>2. SocketsMove /\ NodesMove
    BY <1>3, <2>1 DEF SocketsMove, NodesMove
  <2> QED BY <1>1, <1>3, <2>1, <2>2 DEF StructApplied
<1>9. IgnoreStruct => StructApplied
  BY Zenon DEF IgnoreStruct, StructApplied, SocketsMove, NodesMove, KnownStructs, baseVars
<1>10. LoadFailed \/ Close => StartRelease
  BY DEF LoadFailed, Close
<1>11. ReleaseNodls \/ ReleaseNodes \/ ReleaseSockets => Ends
  BY <1>2, Zenon DEF ReleaseNodls, ReleaseNodes, ReleaseSockets
<1>12. (\E part \in {"thread", "camera", "tls"} : ReleaseDevice(part)) => Ends
  BY <1>2, Zenon DEF ReleaseDevice
<1>13. ParserNext /\ UNCHANGED <<applied, err, baseVars, closing, history>>
         => ParserNext /\ UNCHANGED <<applied, sockets, nodes>>
  BY DEF baseVars
<1>14. Next => \/ ParserNext /\ UNCHANGED <<applied, sockets, nodes>>
               \/ StructApplied \/ Opened \/ Ends
  BY <1>1, <1>4, <1>5, <1>6, <1>7, <1>8, <1>9, <1>10, <1>11, <1>12, <1>13, <1>15,
     Zenon DEF Next, Proceed
<1> QED BY <1>14 DEF Ends

LEMMA SocketsStep ==
  ASSUME TextInv, TextInv', OrderInv, SocketsInv, [Next]_vars
  PROVE  SocketsInv'
<1>1. CASE ParserNext /\ UNCHANGED <<applied, sockets, nodes>>
  BY <1>1, SocketsParser
<1>2. CASE StructApplied
  BY <1>2, SocketsNext DEF StructApplied, SocketsMove
<1>3. CASE Opened
  <2>1. phase = "apply" /\ phase' = "run" /\ UNCHANGED <<sockets, conf>> /\ applied = Len(structs)
    BY <1>3 DEF Opened, baseVars
  <2>2. SocketFirst' <=> SocketFirst
    BY <2>1 DEF SocketFirst
  <2>3. HttpdFirst(structs, applied) => ~ SocketFirst
    <3>1. PICK ss \in Seq(StructSet), n \in Nat : ss = structs /\ n = Len(ss) /\ n = applied
      BY <2>1, LenProperties DEF SocketsInv
    <3>2. Ordered(ss, Expanded[conf])
      BY <2>1, <3>1 DEF TextInv, OrderInv
    <3>3. HttpdFirst(ss, n) => ~ SocketFirst
      <4>1. n <= Len(ss) /\ Len(ss) \in Nat
        BY <3>1
      <4> QED BY <3>2, <4>1, NotSocketFirst, Zenon
    <3> QED BY <3>1, <3>3
  <2> QED BY <2>1, <2>2, <2>3 DEF SocketsInv
<1>4. CASE phase' \notin {"load", "parse", "apply", "run"}
  BY <1>4, SocketsElse
<1>5. CASE UNCHANGED vars
  <2>1. UNCHANGED <<phase, structs, conf, applied, sockets>>
    BY <1>5 DEF vars, parserVars, baseVars
  <2> QED BY <2>1 DEF SocketsInv, SocketFirst
<1> QED BY <1>1, <1>2, <1>3, <1>4, <1>5, MovesOnly

LEMMA NodesStep ==
  ASSUME IInv, TextInv, SocketsInv, NodesInv, [Next]_vars
  PROVE  NodesInv'
<1>1. CASE ParserNext /\ UNCHANGED <<applied, sockets, nodes>>
  <2>1. phase \in {"load", "parse"}
    BY <1>1 DEF ParserNext, LoadFile, ParseStruct, ParseInclude, ParseOtherDirective, EndBuf,
       Looking, TextInv
  <2>2. nodes' = <<>>
    BY <1>1, <2>1 DEF NodesInv
  <2> QED BY <2>2 DEF NodesInv
<1>2. CASE StructApplied
  <2>1. phase = "apply" /\ phase' = "apply"
    BY <1>2 DEF StructApplied, NextStruct
  <2>2. sockets # <<>> => sockets' # <<>>
    <3>1. PICK k \in Seq({"radio", "pipe"}) : k = sockets
      BY <2>1 DEF SocketsInv
    <3>2. \A e \in {"radio", "pipe"} : Append(k, e) # <<>>
      <4> SUFFICES ASSUME NEW e \in {"radio", "pipe"}
                   PROVE  Append(k, e) # <<>>
        OBVIOUS
      <4>1. Len(Append(k, e)) = Len(k) + 1 /\ Len(k) \in Nat
        BY AppendProperties, LenProperties
      <4> QED BY <4>1
    <3> QED BY <1>2, <3>1, <3>2 DEF StructApplied, SocketsMove
  <2>3. CASE UNCHANGED nodes
    BY <2>1, <2>2, <2>3 DEF NodesInv
  <2>4. CASE sockets # <<>> /\ \E e : nodes' = Append(nodes, e) /\ e.socket = 1
    <3>1. PICK e : nodes' = Append(nodes, e) /\ e.socket = 1
      BY <2>4
    <3>2. PICK S : nodes \in Seq(S)
      BY <2>1 DEF IInv, NodesKept
    <3>3. PICK k \in Seq(S) : k = nodes
      BY <3>2
    <3>9. PICK n \in Nat : n = Len(k) /\ DOMAIN k = 1 .. n
      BY LenProperties
    <3>4. \A m \in 1 .. n : k[m].socket = 1
      BY <2>1, <3>3, <3>9 DEF NodesInv
    <3>5. k \in Seq(S \cup {e}) /\ e \in S \cup {e}
      <4>1. k \in [1 .. n -> S \cup {e}]
        BY <3>9, LenProperties
      <4> QED BY <4>1
    <3>6. PICK r : r = Append(k, e) /\ DOMAIN r = 1 .. n + 1 /\ r[n + 1] = e
                   /\ \A m \in 1 .. n : r[m] = k[m]
      <4>1. Append(k, e) \in Seq(S \cup {e}) /\ Len(Append(k, e)) = n + 1
        BY <3>5, <3>9, AppendProperties
      <4>2. Append(k, e)[n + 1] = e /\ \A m \in 1 .. n : Append(k, e)[m] = k[m]
        BY <3>5, <3>9, AppendProperties
      <4>3. DOMAIN Append(k, e) = 1 .. n + 1
        BY <4>1, LenProperties
      <4> QED BY <4>2, <4>3
    <3>7. \A m \in 1 .. n + 1 : m \in 1 .. n \/ m = n + 1
      OBVIOUS
    <3>8. \A m \in DOMAIN r : r[m].socket = 1
      BY <3>1, <3>4, <3>6, <3>7
    <3> QED BY <2>1, <2>2, <2>4, <3>1, <3>3, <3>6, <3>8 DEF NodesInv
  <2> QED BY <1>2, <2>3, <2>4 DEF StructApplied, NodesMove
<1>3. CASE Opened
  BY <1>3 DEF Opened, baseVars, NodesInv
<1>4. CASE phase' \notin {"load", "parse", "apply", "run"}
  BY <1>4 DEF NodesInv
<1>5. CASE UNCHANGED vars
  <2>1. UNCHANGED <<phase, sockets, nodes>>
    BY <1>5 DEF vars, parserVars, baseVars
  <2> QED BY <2>1 DEF NodesInv
<1> QED BY <1>1, <1>2, <1>3, <1>4, <1>5, MovesOnly

(* In a configuration where a socket comes before the HTTP server, as      *)
(* conf/base.conf asks for, each node is on the radio: no pair of the      *)
(* configuration may look like a directive, nor contain an accolade.       *)
THEOREM NodesOnRadioAlways == ASSUME PlainText, PlainBraces PROVE Spec => []NodesOnRadio
<1> DEFINE I == IInv /\ TextInv /\ OrderInv /\ SocketsInv /\ NodesInv
<1>1. Init => I
  <2>1. Init => phase = "load" /\ applied = 0 /\ sockets = <<>> /\ nodes = <<>> /\ structs = <<>>
    BY DEF Init, ParserInit
  <2> QED BY <2>1, InitIInv DEF TextInv, OrderInv, SocketsInv, NodesInv
<1>2. I /\ [Next]_vars => I'
  <2> SUFFICES ASSUME I, [Next]_vars PROVE I'
    OBVIOUS
  <2>1. TextInv'
    BY TextStep
  <2> QED BY <2>1, Step, OrderStep, SocketsStep, NodesStep
<1>3. I => NodesOnRadio
  <2> SUFFICES ASSUME I, nodes # <<>>, SocketFirst, NEW n \in DOMAIN nodes, phase \in {"apply", "run"}
               PROVE  sockets[nodes[n].socket] = "radio"
    BY DEF NodesOnRadio
  <2>1. sockets # <<>> /\ nodes[n].socket = 1
    BY DEF NodesInv
  <2>2. ASSUME phase = "apply"
        PROVE  ~ HttpdFirst(structs, applied)
    <3>1. PICK ss \in Seq(StructSet), h \in Nat, a \in Nat :
            ss = structs /\ h = Len(ss) /\ a = applied /\ a <= h
      BY <2>2, LenProperties DEF SocketsInv
    <3>2. Ordered(ss, Expanded[conf])
      BY <2>2, <3>1 DEF TextInv, OrderInv
    <3>3. HttpdFirst(ss, a) => ~ SocketFirst
      <4>1. a <= Len(ss) /\ Len(ss) \in Nat
        BY <3>1
      <4> QED BY <3>2, <4>1, NotSocketFirst, Zenon
    <3> QED BY <3>1, <3>3
  <2> QED BY <2>1, <2>2 DEF SocketsInv
<1> HIDE DEF I
<1> QED BY <1>1, <1>2, <1>3, PTL DEF Spec

-----------------------------------------------------------------------------
(* The dictionary of node descriptions                                     *)

Descr == [dir : NodlDir, whole : BOOLEAN]
Whole == {v \in Descr : v.whole}
NodlPair == [key : DictKey, val : Descr]
NodlDicts == [Bucket -> Seq(NodlPair)]

(* The descriptions that a list of pairs, and a dictionary, has under k.   *)
Vals(l, k) == {l[i].val : i \in {j \in DOMAIN l : l[j].key = k}}
HeldBy(d, k) == Vals(d[Hash[k]], k)

LEMMA ValsAppend ==
  ASSUME NEW l \in Seq(NodlPair), NEW p \in NodlPair, NEW k
  PROVE  /\ Append(l, p) \in Seq(NodlPair)
         /\ Vals(Append(l, p), k) = Vals(l, k) \cup (IF p.key = k THEN {p.val} ELSE {})
<1>1. PICK n \in Nat : n = Len(l) /\ DOMAIN l = 1 .. n
  BY LenProperties
<1>2. PICK r : r = Append(l, p)
  OBVIOUS
<1>3. r \in Seq(NodlPair) /\ DOMAIN r = 1 .. n + 1 /\ r[n + 1] = p /\ \A q \in 1 .. n : r[q] = l[q]
  BY <1>1, <1>2, AppendProperties
<1>4. \A q \in 1 .. n + 1 : q \in 1 .. n \/ q = n + 1
  OBVIOUS
<1>5. n + 1 \in 1 .. n + 1 /\ \A q \in 1 .. n : q \in 1 .. n + 1
  OBVIOUS
<1>6. ASSUME NEW v
      PROVE  v \in Vals(r, k) <=> v \in Vals(l, k) \/ (p.key = k /\ v = p.val)
  BY <1>1, <1>3, <1>4, <1>5 DEF Vals
<1> QED BY <1>2, <1>3, <1>6

LEMMA ValsRemove ==
  ASSUME NEW l \in Seq(NodlPair), NEW i \in DOMAIN l, NEW k
  PROVE  RemoveAt(l, i) \in Seq(NodlPair) /\ Vals(RemoveAt(l, i), k) \subseteq Vals(l, k)
<1>1. PICK n \in Nat : n = Len(l) /\ DOMAIN l = 1 .. n
  BY LenProperties
<1>2. PICK r : r = RemoveAt(l, i)
  OBVIOUS
<1>3. /\ r \in Seq(NodlPair) /\ Len(r) = n - 1
      /\ \A q \in 1 .. n - 1 : r[q] = IF q < i THEN l[q] ELSE l[q + 1]
  BY <1>1, <1>2, RemoveAtElements
<1>4. DOMAIN r = 1 .. n - 1 /\ \A q \in 1 .. n - 1 : q \in 1 .. n /\ q + 1 \in 1 .. n
  BY <1>1, <1>3
<1>5. ASSUME NEW q \in 1 .. n - 1
      PROVE  \E m \in 1 .. n : r[q] = l[m]
  BY <1>3, <1>4
<1>6. ASSUME NEW v \in Vals(r, k)
      PROVE  v \in Vals(l, k)
  <2>1. PICK q \in 1 .. n - 1 : r[q].key = k /\ v = r[q].val
    BY <1>4 DEF Vals
  <2>2. PICK m \in 1 .. n : r[q] = l[m]
    BY <1>5
  <2> QED BY <1>1, <2>1, <2>2 DEF Vals
<1> QED BY <1>2, <1>3, <1>6

LEMMA EmptyHolds ==
  /\ EmptyDict \in NodlDicts
  /\ \A k \in DictKey : HeldBy(EmptyDict, k) = {}
<1>1. <<>> \in Seq(NodlPair) /\ DOMAIN <<>> = {}
  OBVIOUS
<1>2. EmptyDict \in NodlDicts /\ \A b \in Bucket : EmptyDict[b] = <<>>
  BY <1>1 DEF EmptyDict, NodlDicts
<1> QED BY <1>1, <1>2, HashAssumption DEF HeldBy, Vals

(* A dictionary of which one list is changed.                              *)
LEMMA ListChanged ==
  ASSUME NEW d \in NodlDicts, NEW id \in DictKey, NEW l \in Seq(NodlPair), NEW e,
         e = [d EXCEPT ![Hash[id]] = l],
         \A k \in DictKey : k # id => Vals(l, k) \subseteq Vals(d[Hash[id]], k)
  PROVE  /\ e \in NodlDicts /\ HeldBy(e, id) = Vals(l, id)
         /\ \A k \in DictKey : k # id => HeldBy(e, k) \subseteq HeldBy(d, k)
<1>1. PICK h \in Bucket : h = Hash[id]
  BY HashAssumption
<1>2. e \in NodlDicts /\ e[h] = l /\ \A b \in Bucket : b # h => e[b] = d[b]
  BY <1>1 DEF NodlDicts
<1>3. ASSUME NEW k \in DictKey, k # id
      PROVE  HeldBy(e, k) \subseteq HeldBy(d, k)
  <2>1. PICK b \in Bucket : b = Hash[k]
    BY HashAssumption
  <2>2. CASE b = h
    BY <1>1, <1>2, <1>3, <2>1, <2>2 DEF HeldBy
  <2>3. CASE b # h
    BY <1>2, <2>1, <2>3 DEF HeldBy
  <2> QED BY <2>2, <2>3
<1> QED BY <1>1, <1>2, <1>3 DEF HeldBy

(* The first pair with a key, and what is found under it.                  *)
LEMMA PairFound ==
  ASSUME NEW d \in NodlDicts, NEW k \in DictKey, HasKey(d, k)
  PROVE  /\ FindPair(d, k) \in DOMAIN d[Hash[k]] /\ d[Hash[k]][FindPair(d, k)].key = k
         /\ DictGet(d, k) \in HeldBy(d, k)
<1>1. PICK l \in Seq(NodlPair) : l = d[Hash[k]]
  BY HashAssumption DEF NodlDicts
<1>2. PlacesOf(d, k) \subseteq Nat
  <2>1. DOMAIN l \subseteq Nat
    BY LenProperties
  <2> QED BY <1>1, <2>1 DEF PlacesOf
<1>3. \E i \in PlacesOf(d, k) : \A j \in PlacesOf(d, k) : i <= j
  BY <1>2, LeastExists DEF HasKey
<1>4. FindPair(d, k) \in PlacesOf(d, k)
  BY <1>3 DEF FindPair
<1> QED BY <1>4 DEF PlacesOf, DictGet, HeldBy, Vals

(* load_nodl_dir on one file: a description that was refused in part stays *)
(* only where another of its id stood before.                              *)
LEMMA LoadNodlVals ==
  ASSUME NEW d \in NodlDicts, NEW dir \in NodlDir, NEW id \in DictKey
  PROVE  /\ LoadNodl(d, dir, id) \in NodlDicts
         /\ \A k \in DictKey : k # id => HeldBy(LoadNodl(d, dir, id), k) \subseteq HeldBy(d, k)
         /\ HeldBy(d, id) = {} => HeldBy(LoadNodl(d, dir, id), id) \subseteq Whole
<1>1. PICK h \in Bucket, l \in Seq(NodlPair) : h = Hash[id] /\ l = d[h]
  BY HashAssumption DEF NodlDicts
<1>2. PICK n \in Nat : n = Len(l) /\ DOMAIN l = 1 .. n
  BY LenProperties
<1>3. PICK w \in BOOLEAN : w <=> Nodl[dir][id] = "whole"
  <2>1. (Nodl[dir][id] = "whole") \in BOOLEAN
    OBVIOUS
  <2> QED BY <2>1
<1>4. PICK v \in Descr : v = [dir |-> dir, whole |-> (Nodl[dir][id] = "whole")] /\ (v.whole <=> w)
  <2>1. [dir |-> dir, whole |-> w] \in Descr
    BY DEF Descr
  <2>2. (Nodl[dir][id] = "whole") = w
    BY <1>3, Zenon
  <2> QED BY <2>1, <2>2
<1>5. PICK p \in NodlPair : p = [key |-> id, val |-> v] /\ p.key = id /\ p.val = v
  <2>1. [key |-> id, val |-> v] \in NodlPair
    BY DEF NodlPair
  <2> QED BY <2>1
<1>6. PICK m \in Seq(NodlPair) : m = Append(l, p)
  BY ValsAppend
<1>7. PICK e : e = [d EXCEPT ![h] = m]
  OBVIOUS
<1>8. e = DictAdd(d, id, [dir |-> dir, whole |-> (Nodl[dir][id] = "whole")])
  BY <1>1, <1>4, <1>5, <1>6, <1>7 DEF DictAdd
<1>9. \A k : Vals(m, k) = Vals(l, k) \cup (IF p.key = k THEN {p.val} ELSE {})
  BY <1>6, ValsAppend
<1>10. /\ e \in NodlDicts /\ HeldBy(e, id) = Vals(m, id)
       /\ \A k \in DictKey : k # id => HeldBy(e, k) \subseteq HeldBy(d, k)
  <2>1. \A k \in DictKey : k # id => Vals(m, k) \subseteq Vals(d[Hash[id]], k)
    BY <1>1, <1>5, <1>9
  <2>2. e = [d EXCEPT ![Hash[id]] = m]
    BY <1>1, <1>7
  <2> QED BY <2>1, <2>2, ListChanged
<1>11. CASE w
  <2>1. LoadNodl(d, dir, id) = e
    BY <1>3, <1>8, <1>11 DEF LoadNodl
  <2>2. HeldBy(d, id) = {} => HeldBy(e, id) \subseteq Whole
    BY <1>1, <1>4, <1>5, <1>9, <1>10, <1>11 DEF HeldBy, Whole
  <2> QED BY <1>10, <2>1, <2>2
<1>12. CASE ~ w
  <2>1. LoadNodl(d, dir, id) = DictDel(e, id)
    BY <1>3, <1>8, <1>12 DEF LoadNodl
  <2>2. e[h] = m
    BY <1>7, <1>1 DEF NodlDicts
  <2>3. DOMAIN m = 1 .. n + 1 /\ m[n + 1] = p /\ \A q \in 1 .. n : m[q] = l[q]
    BY <1>2, <1>6, AppendProperties
  <2>4. HasKey(e, id)
    <3>1. n + 1 \in DOMAIN e[Hash[id]] /\ e[Hash[id]][n + 1].key = id
      BY <1>1, <1>5, <2>2, <2>3
    <3> QED BY <3>1 DEF HasKey, PlacesOf
  <2>5. PICK i \in 1 .. n + 1 : i = FindPair(e, id) /\ m[i].key = id
    BY <1>1, <1>10, <2>2, <2>3, <2>4, PairFound
  <2>6. PICK r \in Seq(NodlPair) : r = RemoveAt(m, i)
    BY <2>3, ValsRemove
  <2>7. PICK g : g = DictDel(e, id)
    OBVIOUS
  <2>8. g = [e EXCEPT ![Hash[id]] = r]
    BY <1>1, <2>2, <2>5, <2>6, <2>7 DEF DictDel, RemoveAt
  <2>9. \A k : Vals(r, k) \subseteq Vals(m, k)
    BY <2>3, <2>6, ValsRemove
  <2>10. /\ g \in NodlDicts /\ HeldBy(g, id) = Vals(r, id)
         /\ \A k \in DictKey : k # id => HeldBy(g, k) \subseteq HeldBy(e, k)
    <3>1. \A k \in DictKey : k # id => Vals(r, k) \subseteq Vals(e[Hash[id]], k)
      BY <1>1, <2>2, <2>9
    <3>2. e \in NodlDicts
      BY <1>10
    <3> QED BY <2>8, <3>1, <3>2, ListChanged, Zenon
  <2>11. ASSUME HeldBy(d, id) = {}
         PROVE  Vals(r, id) = {}
    <3>1. \A q \in 1 .. n : l[q].key # id
      BY <1>1, <1>2, <2>11 DEF HeldBy, Vals
    <3>2. i = n + 1
      BY <2>3, <2>5, <3>1
    <3>3. Len(m) = n + 1
      BY <2>3, LenProperties
    <3>4. Len(r) = n /\ \A q \in 1 .. n : r[q] = l[q]
      <4>1. Len(r) = Len(m) - 1 /\ \A q \in 1 .. Len(m) - 1 : r[q] = IF q < i THEN m[q] ELSE m[q + 1]
        BY <2>3, <2>6, RemoveAtElements
      <4> QED BY <2>3, <3>2, <3>3, <4>1
    <3>5. DOMAIN r = 1 .. n
      BY <3>4, LenProperties
    <3> QED BY <3>1, <3>4, <3>5 DEF Vals
  <2> QED BY <1>10, <2>1, <2>7, <2>10, <2>11
<1> QED BY <1>11, <1>12

(* g goes from one set to the next, and gains something, which is in W,    *)
(* only at the places in U, if it was empty.                               *)
Touches(m, g, U, W) ==
  /\ \A i \in 1 .. m : i \notin U => g[i] \subseteq g[i - 1]
  /\ \A i \in 1 .. m : i \in U /\ g[i - 1] = {} => g[i] \subseteq W

LEMMA OnceTouched ==
  ASSUME NEW m \in Nat, NEW g, NEW U \in SUBSET (1 .. m), NEW W, Touches(m, g, U, W)
  PROVE  /\ U = {} => g[m] \subseteq g[0]
         /\ g[0] = {} /\ (\A p, q \in U : p = q) => g[m] \subseteq W
<1> DEFINE Below(i) == \A p \in U : p > i
           P(i) == /\ Below(i) => g[i] \subseteq g[0]
                   /\ g[0] = {} /\ (\A p, q \in U : p = q) => g[i] \subseteq W
           T == {i \in Nat : i <= m => P(i)}
<1>1. 0 \in T
  OBVIOUS
<1>2. ASSUME NEW i \in T
      PROVE  i + 1 \in T
  <2> SUFFICES ASSUME i + 1 <= m
               PROVE  P(i + 1)
    OBVIOUS
  <2>1. i \in Nat /\ i + 1 \in 1 .. m /\ (i + 1) - 1 = i /\ P(i)
    OBVIOUS
  <2>2. CASE i + 1 \notin U
    <3>1. g[i + 1] \subseteq g[i]
      BY <2>1, <2>2 DEF Touches
    <3>2. Below(i + 1) => Below(i)
      BY <2>1
    <3> QED BY <2>1, <3>1, <3>2
  <2>3. CASE i + 1 \in U
    <3>1. ~ Below(i + 1)
      BY <2>1, <2>3
    <3>2. ASSUME g[0] = {}, \A p, q \in U : p = q
          PROVE  g[i + 1] \subseteq W
      <4>1. Below(i)
        BY <2>1, <2>3, <3>2
      <4>2. g[i] = {}
        BY <2>1, <3>2, <4>1
      <4> QED BY <2>1, <2>3, <4>2 DEF Touches
    <3> QED BY <3>1, <3>2
  <2> QED BY <2>2, <2>3
<1>3. P(m)
  <2>1. m \in T
    <3> HIDE DEF T
    <3>1. T \subseteq Nat
      BY DEF T
    <3> QED BY <1>1, <1>2, <3>1, SetInduction
  <2> QED BY <2>1
<1> QED BY <1>3

(* Step i of F may add descriptions with key k only if i is in U.          *)
Loads(m, F, U, k) ==
  \A i \in 1 .. m : \A e \in NodlDicts :
    /\ i \notin U => HeldBy(F[i][e], k) \subseteq HeldBy(e, k)
    /\ i \in U /\ HeldBy(e, k) = {} => HeldBy(F[i][e], k) \subseteq Whole

LEMMA ChainVals ==
  ASSUME NEW m \in Nat, NEW d, NEW F, NEW g, g \in Chains(m, NodlDicts, d, F),
         NEW k, NEW U \in SUBSET (1 .. m), Loads(m, F, U, k)
  PROVE  /\ U = {} => HeldBy(g[m], k) \subseteq HeldBy(d, k)
         /\ HeldBy(d, k) = {} /\ (\A p, q \in U : p = q) => HeldBy(g[m], k) \subseteq Whole
<1>1. g \in [0 .. m -> NodlDicts] /\ g[0] = d /\ \A i \in 1 .. m : g[i] = F[i][g[i - 1]]
  BY DEF Chains
<1>2. PICK h : h = [i \in 0 .. m |-> HeldBy(g[i], k)]
  OBVIOUS
<1>3. \A i \in 0 .. m : h[i] = HeldBy(g[i], k)
  BY <1>2
<1>4. ASSUME NEW i \in 1 .. m
      PROVE  /\ i \notin U => h[i] \subseteq h[i - 1]
             /\ i \in U /\ h[i - 1] = {} => h[i] \subseteq Whole
  <2>1. i \in 0 .. m /\ i - 1 \in 0 .. m
    OBVIOUS
  <2>2. PICK e \in NodlDicts : e = g[i - 1]
    BY <1>1, <2>1
  <2>3. h[i] = HeldBy(F[i][e], k) /\ h[i - 1] = HeldBy(e, k)
    BY <1>1, <1>3, <2>1, <2>2
  <2> QED BY <2>3 DEF Loads
<1>5. Touches(m, h, U, Whole)
  BY <1>4 DEF Touches
<1>6. /\ U = {} => h[m] \subseteq h[0]
      /\ h[0] = {} /\ (\A p, q \in U : p = q) => h[m] \subseteq Whole
  BY <1>5, OnceTouched
<1>7. h[m] = HeldBy(g[m], k) /\ h[0] = HeldBy(d, k)
  BY <1>1, <1>3
<1> QED BY <1>6, <1>7

(* load_nodl_dir, whatever the order of readdir: each file describes an id *)
(* of its own.                                                             *)
LEMMA LoadNodlDirVals ==
  ASSUME NEW d \in NodlDicts, NEW dir \in NodlDir, NEW order \in Orders(dir)
  PROVE  /\ LoadNodlDir(d, dir, order) \in NodlDicts
         /\ \A k \in DictKey :
              /\ k \notin DOMAIN Nodl[dir] => HeldBy(LoadNodlDir(d, dir, order), k) \subseteq HeldBy(d, k)
              /\ HeldBy(d, k) = {} => HeldBy(LoadNodlDir(d, dir, order), k) \subseteq Whole
<1>1. PICK S \in SUBSET DictKey : S = DOMAIN Nodl[dir] /\ IsFiniteSet(S)
  BY OpenAssumption
<1>2. PICK m \in Nat : m = Cardinality(S)
  BY <1>1, FS_CardinalityType
<1>3. order \in [1 .. m -> S] /\ \A i, j \in 1 .. m : i # j => order[i] # order[j]
  BY <1>1, <1>2 DEF Orders, SetToSeqs
<1>4. Len(order) = m
  <2>1. order \in Seq(S) /\ DOMAIN order = 1 .. m
    BY <1>3
  <2> QED BY <2>1, LenProperties
<1> DEFINE F == [i \in 1 .. m |-> [e \in NodlDicts |-> LoadNodl(e, dir, order[i])]]
<1>5. \A i \in 1 .. m : order[i] \in DictKey
  BY <1>1, <1>3
<1>6. F \in [1 .. m -> [NodlDicts -> NodlDicts]]
  BY <1>5, LoadNodlVals
<1>7. \A i \in 1 .. m, e \in NodlDicts : F[i][e] = LoadNodl(e, dir, order[i])
  OBVIOUS
<1> HIDE DEF F
<1>8. PICK G : G = F
  OBVIOUS
<1>9. PICK g : g \in Chains(m, NodlDicts, d, G)
  BY <1>6, <1>8, ChainExists, Zenon
<1>10. g \in [0 .. m -> NodlDicts] /\ g[0] = d /\ \A i \in 1 .. m : g[i] = G[i][g[i - 1]]
  BY <1>9 DEF Chains
<1>11. g = [i \in 0 .. m |-> IF i = 0 THEN d ELSE LoadNodl(g[i - 1], dir, order[i])]
  <2>1. ASSUME NEW i \in 1 .. m
        PROVE  g[i] = LoadNodl(g[i - 1], dir, order[i])
    <3>1. i - 1 \in 0 .. m /\ g[i - 1] \in NodlDicts
      BY <1>10
    <3> QED BY <1>7, <1>8, <1>10, <3>1
  <2>2. \A i \in 0 .. m : g[i] = IF i = 0 THEN d ELSE LoadNodl(g[i - 1], dir, order[i])
    BY <1>10, <2>1
  <2>3. g = [i \in 0 .. m |-> g[i]]
    BY <1>10
  <2> QED BY <2>2, <2>3
<1>12. PICK f : /\ f = [i \in 0 .. m |-> IF i = 0 THEN d ELSE LoadNodl(f[i - 1], dir, order[i])]
                /\ LoadNodlDir(d, dir, order) = f[m]
  BY <1>4, <1>11 DEF LoadNodlDir
<1>13. f \in Chains(m, NodlDicts, d, G)
  <2> DEFINE T == {i \in Nat : i <= m => f[i] \in NodlDicts}
  <2>1. 0 \in T /\ f[0] = d
    BY <1>12
  <2>2. \A i \in 1 .. m : f[i] = LoadNodl(f[i - 1], dir, order[i])
    BY <1>12
  <2>3. ASSUME NEW i \in T
        PROVE  i + 1 \in T
    <3> SUFFICES ASSUME i + 1 <= m
                 PROVE  f[i + 1] \in NodlDicts
      OBVIOUS
    <3>1. i + 1 \in 1 .. m /\ (i + 1) - 1 = i /\ f[i] \in NodlDicts
      OBVIOUS
    <3>2. f[i + 1] = LoadNodl(f[i], dir, order[i + 1])
      BY <2>2, <3>1
    <3>3. PICK e \in NodlDicts, id \in DictKey : e = f[i] /\ id = order[i + 1]
      BY <1>5, <3>1
    <3> HIDE DEF T
    <3> QED BY <3>2, <3>3, LoadNodlVals
  <2>4. T = Nat
    <3> HIDE DEF T
    <3>1. T \subseteq Nat
      BY DEF T
    <3> QED BY <2>1, <2>3, <3>1, SetInduction
  <2>5. \A i \in 0 .. m : f[i] \in NodlDicts
    BY <2>4
  <2>6. f \in [0 .. m -> NodlDicts]
    BY <1>12, <2>5
  <2>7. ASSUME NEW i \in 1 .. m
        PROVE  f[i] = G[i][f[i - 1]]
    <3>1. i - 1 \in 0 .. m /\ f[i - 1] \in NodlDicts
      BY <2>5
    <3> QED BY <1>7, <1>8, <2>2, <3>1
  <2> QED BY <2>1, <2>6, <2>7 DEF Chains
<1>14. f[m] \in NodlDicts
  BY <1>13 DEF Chains
<1>15. ASSUME NEW k \in DictKey
       PROVE  /\ k \notin S => HeldBy(f[m], k) \subseteq HeldBy(d, k)
              /\ HeldBy(d, k) = {} => HeldBy(f[m], k) \subseteq Whole
  <2>1. PICK U \in SUBSET (1 .. m) : U = {i \in 1 .. m : order[i] = k}
    OBVIOUS
  <2>2. ASSUME NEW i \in 1 .. m, NEW e \in NodlDicts
        PROVE  /\ i \notin U => HeldBy(G[i][e], k) \subseteq HeldBy(e, k)
               /\ i \in U /\ HeldBy(e, k) = {} => HeldBy(G[i][e], k) \subseteq Whole
    <3>1. PICK id \in DictKey : id = order[i] /\ (i \in U <=> id = k)
      BY <1>5, <2>1
    <3>2. G[i][e] = LoadNodl(e, dir, id)
      BY <1>7, <1>8, <3>1
    <3> QED BY <3>1, <3>2, LoadNodlVals
  <2>3. Loads(m, G, U, k)
    BY <2>2 DEF Loads
  <2>4. /\ U = {} => HeldBy(f[m], k) \subseteq HeldBy(d, k)
        /\ HeldBy(d, k) = {} /\ (\A p, q \in U : p = q) => HeldBy(f[m], k) \subseteq Whole
    BY <1>13, <2>3, ChainVals
  <2>5. \A p, q \in U : p = q
    BY <1>3, <2>1
  <2>6. k \notin S => U = {}
    BY <1>3, <2>1
  <2> QED BY <2>4, <2>5, <2>6
<1> QED BY <1>1, <1>12, <1>14, <1>15

(* The pairs of the struct that load a description with key k.             *)
Loading(k) == {i \in NodlDirs : k \in DOMAIN Nodl[DirOf(i)]}

LEMMA NodlDirsAre ==
  ASSUME NEW n \in Nat, DOMAIN Struct.pairs = 1 .. n
  PROVE  NodlDirs \in SUBSET (1 .. n) /\ \A i \in NodlDirs : DirOf(i) \in NodlDir
<1>1. ASSUME NEW i \in NodlDirs
      PROVE  i \in 1 .. n /\ DirOf(i) \in NodlDir
  <2>1. i \in 1 .. n /\ Struct.pairs[i][1] = "nodl_dir" /\ \A j \in 1 .. i : PairAccepted(Struct, Struct.pairs[j])
    BY DEF NodlDirs, Applied
  <2>2. i \in 1 .. i
    BY <2>1
  <2>3. PairAccepted(Struct, Struct.pairs[i])
    BY <2>1, <2>2
  <2> QED BY <2>1, <2>3 DEF PairAccepted, DirOf
<1> QED BY <1>1

(* apply_base_pair, on all the pairs of a struct up to one that is refused. *)
LEMMA LoadNodlDirsVals ==
  ASSUME nodls \in NodlDicts, NEW n \in Nat, Len(Struct.pairs) = n, DOMAIN Struct.pairs = 1 .. n,
         NEW orders, \A i \in NodlDirs : orders[i] \in Orders(DirOf(i))
  PROVE  /\ LoadNodlDirs(orders) \in NodlDicts
         /\ \A k \in DictKey :
              /\ Loading(k) = {} => HeldBy(LoadNodlDirs(orders), k) \subseteq HeldBy(nodls, k)
              /\ HeldBy(nodls, k) = {} /\ (\A p, q \in Loading(k) : p = q) =>
                   HeldBy(LoadNodlDirs(orders), k) \subseteq Whole
<1>1. PICK N \in SUBSET (1 .. n) : N = NodlDirs /\ \A i \in N : DirOf(i) \in NodlDir
  BY NodlDirsAre
<1>2. PICK d \in NodlDicts : d = nodls
  OBVIOUS
<1> DEFINE F == [i \in 1 .. n |-> [e \in NodlDicts |->
                   IF i \in N THEN LoadNodlDir(e, DirOf(i), orders[i]) ELSE e]]
<1>3. \A i \in N : orders[i] \in Orders(DirOf(i))
  BY <1>1
<1>4. ASSUME NEW i \in 1 .. n, NEW e \in NodlDicts
      PROVE  (IF i \in N THEN LoadNodlDir(e, DirOf(i), orders[i]) ELSE e) \in NodlDicts
  <2>1. CASE i \in N
    <3>1. PICK dir \in NodlDir, o \in Orders(DirOf(i)) : dir = DirOf(i) /\ o = orders[i] /\ o \in Orders(dir)
      BY <1>1, <1>3, <2>1
    <3> QED BY <2>1, <3>1, LoadNodlDirVals
  <2>2. CASE i \notin N
    BY <2>2
  <2> QED BY <2>1, <2>2
<1>5. F \in [1 .. n -> [NodlDicts -> NodlDicts]]
  BY <1>4
<1>6. \A i \in 1 .. n, e \in NodlDicts :
        F[i][e] = IF i \in N THEN LoadNodlDir(e, DirOf(i), orders[i]) ELSE e
  OBVIOUS
<1> HIDE DEF F
<1>7. PICK G : G = F
  OBVIOUS
<1>8. PICK g : g \in Chains(n, NodlDicts, d, G)
  BY <1>5, <1>7, ChainExists, Zenon
<1>9. g \in [0 .. n -> NodlDicts] /\ g[0] = d /\ \A i \in 1 .. n : g[i] = G[i][g[i - 1]]
  BY <1>8 DEF Chains
<1>10. g = [i \in 0 .. n |-> IF i = 0 THEN d
                             ELSE IF i \in N THEN LoadNodlDir(g[i - 1], DirOf(i), orders[i])
                             ELSE g[i - 1]]
  <2>1. ASSUME NEW i \in 1 .. n
        PROVE  g[i] = IF i \in N THEN LoadNodlDir(g[i - 1], DirOf(i), orders[i]) ELSE g[i - 1]
    <3>1. i - 1 \in 0 .. n /\ g[i - 1] \in NodlDicts
      BY <1>9
    <3> QED BY <1>6, <1>7, <1>9, <3>1
  <2>2. \A i \in 0 .. n : g[i] = IF i = 0 THEN d
                                 ELSE IF i \in N THEN LoadNodlDir(g[i - 1], DirOf(i), orders[i])
                                 ELSE g[i - 1]
    BY <1>9, <2>1
  <2>3. g = [i \in 0 .. n |-> g[i]]
    BY <1>9
  <2> QED BY <2>2, <2>3
<1>11. PICK f : /\ f = [i \in 0 .. n |-> IF i = 0 THEN d
                                        ELSE IF i \in N THEN LoadNodlDir(f[i - 1], DirOf(i), orders[i])
                                        ELSE f[i - 1]]
                /\ LoadNodlDirs(orders) = f[n]
  BY <1>1, <1>2, <1>10 DEF LoadNodlDirs
<1>12. f \in Chains(n, NodlDicts, d, G)
  <2> DEFINE T == {i \in Nat : i <= n => f[i] \in NodlDicts}
  <2>1. 0 \in T /\ f[0] = d
    BY <1>11
  <2>2. \A i \in 1 .. n : f[i] = IF i \in N THEN LoadNodlDir(f[i - 1], DirOf(i), orders[i]) ELSE f[i - 1]
    BY <1>11
  <2>3. ASSUME NEW i \in T
        PROVE  i + 1 \in T
    <3> SUFFICES ASSUME i + 1 <= n
                 PROVE  f[i + 1] \in NodlDicts
      OBVIOUS
    <3>1. i + 1 \in 1 .. n /\ (i + 1) - 1 = i /\ f[i] \in NodlDicts
      OBVIOUS
    <3>2. PICK e \in NodlDicts, j \in 1 .. n : e = f[i] /\ j = i + 1
      BY <3>1
    <3>3. f[j] = IF j \in N THEN LoadNodlDir(e, DirOf(j), orders[j]) ELSE e
      BY <2>2, <3>1, <3>2
    <3> HIDE DEF T
    <3> QED BY <1>4, <3>2, <3>3
  <2>4. T = Nat
    <3> HIDE DEF T
    <3>1. T \subseteq Nat
      BY DEF T
    <3> QED BY <2>1, <2>3, <3>1, SetInduction
  <2>5. \A i \in 0 .. n : f[i] \in NodlDicts
    BY <2>4
  <2>6. f \in [0 .. n -> NodlDicts]
    BY <1>11, <2>5
  <2>7. ASSUME NEW i \in 1 .. n
        PROVE  f[i] = G[i][f[i - 1]]
    <3>1. i - 1 \in 0 .. n /\ f[i - 1] \in NodlDicts
      BY <2>5
    <3> QED BY <1>6, <1>7, <2>2, <3>1
  <2> QED BY <2>1, <2>6, <2>7 DEF Chains
<1>13. f[n] \in NodlDicts
  BY <1>12 DEF Chains
<1>14. ASSUME NEW k \in DictKey
       PROVE  /\ Loading(k) = {} => HeldBy(f[n], k) \subseteq HeldBy(d, k)
              /\ HeldBy(d, k) = {} /\ (\A p, q \in Loading(k) : p = q) => HeldBy(f[n], k) \subseteq Whole
  <2>1. PICK U \in SUBSET (1 .. n) : U = Loading(k)
    BY <1>1 DEF Loading
  <2>2. ASSUME NEW i \in 1 .. n, NEW e \in NodlDicts
        PROVE  /\ i \notin U => HeldBy(G[i][e], k) \subseteq HeldBy(e, k)
               /\ i \in U /\ HeldBy(e, k) = {} => HeldBy(G[i][e], k) \subseteq Whole
    <3>1. CASE i \in N
      <4>1. PICK dir \in NodlDir, o \in Orders(DirOf(i)) : dir = DirOf(i) /\ o = orders[i] /\ o \in Orders(dir)
        BY <1>1, <1>3, <3>1
      <4>2. G[i][e] = LoadNodlDir(e, dir, o)
        BY <1>6, <1>7, <3>1, <4>1
      <4>3. i \in U <=> k \in DOMAIN Nodl[dir]
        BY <1>1, <2>1, <3>1, <4>1 DEF Loading
      <4> QED BY <4>1, <4>2, <4>3, LoadNodlDirVals
    <3>2. CASE i \notin N
      <4>1. G[i][e] = e /\ i \notin U
        BY <1>1, <1>6, <1>7, <2>1, <3>2 DEF Loading
      <4> QED BY <4>1
    <3> QED BY <3>1, <3>2
  <2>3. Loads(n, G, U, k)
    BY <2>2 DEF Loads
  <2> QED BY <1>12, <2>1, <2>3, ChainVals
<1> QED BY <1>2, <1>11, <1>13, <1>14

-----------------------------------------------------------------------------
(* Where the pairs of the structs are in the text                          *)

(* w is the text of a struct with the pairs ps.                            *)
PairsIn(w, ps) ==
  /\ w \in Seq(Tok) /\ Len(ps) \in Nat /\ Len(w) = 3 * Len(ps) + 3
  /\ \A q \in 1 .. Len(ps) : ps[q][1] = w[3 * q] /\ ps[q][3] = w[3 * q + 2]

LEMMA ThreeTokens ==
  ASSUME NEW t \in Seq(Tok), NEW a \in Nat, 1 <= a, a + 2 <= Len(t)
  PROVE  SubSeq(t, a, a + 2)[1] = t[a] /\ SubSeq(t, a, a + 2)[3] = t[a + 2]
<1>1. PICK n \in Nat : n = Len(t) /\ \A m \in 1 .. n : t[m] \in Tok
  BY LenProperties, ElementOfSeq
<1>2. PICK c \in Nat : c = a + 2 /\ c <= n
  BY <1>1
<1>3. \A m \in a .. c : t[m] \in Tok
  BY <1>1, <1>2
<1>4. \A q \in 1 .. c - a + 1 : SubSeq(t, a, c)[q] = t[a + q - 1]
  BY <1>2, <1>3, SubSeqProperties
<1>5. 1 \in 1 .. c - a + 1 /\ 3 \in 1 .. c - a + 1 /\ a + 1 - 1 = a /\ a + 3 - 1 = c
  BY <1>2
<1>6. SubSeq(t, a, c)[1] = t[a] /\ SubSeq(t, a, c)[3] = t[c]
  BY <1>4, <1>5
<1> QED BY <1>2, <1>6

LEMMA StructPairs ==
  ASSUME PlainText, NEW f, NEW i, NEW j, NEW s, StructAdded(f, i, j, s)
  PROVE  PairsIn(StructText(s), s.pairs)
<1>1. f \in File /\ i \in 1 .. Len(Text[f]) /\ Closes(Text[f], i, j)
      /\ s.pairs = PairsBetween(Text[f], i, j)
  BY DEF StructAdded
<1>2. PICK w, ps : w = StructText(s) /\ ps = s.pairs /\ w = SubSeq(Text[f], i, j)
  BY DEF StructAdded
<1>3. PICK t \in Seq(Tok), n \in Nat : t = Text[f] /\ n = Len(t) /\ \A q \in 1 .. n : t[q] \in Tok
  BY <1>1, TextFacts
<1>4. i \in Nat /\ 1 <= i /\ i <= n /\ j \in i + 2 .. n /\ j \in Nat
  <2>1. i \in Nat /\ j \in i + 2 .. Len(Text[f])
    BY <1>1, StructPlace
  <2> QED BY <1>1, <1>3, <2>1
<1>5. PICK d \in Nat : d = j - i - 2 /\ d % 3 = 0
  <2>1. j - i - 2 \in Nat
    BY <1>4
  <2>2. (j - i - 2) % 3 = 0
    BY <1>1, StructPlace
  <2> QED BY <2>1, <2>2
<1>6. PICK k \in Nat : k = d \div 3 /\ 3 * k = d
  <2>1. d \div 3 \in Nat /\ 3 * (d \div 3) = d
    BY <1>5
  <2> QED BY <2>1
<1>7. i + 2 + 3 * k = j /\ j <= n
  BY <1>4, <1>5, <1>6
<1>8. ps = [q \in 1 .. k |-> SubSeq(t, i + 3 * q - 1, i + 3 * q + 1)]
  BY <1>1, <1>2, <1>3, <1>5, <1>6, Zenon DEF PairsBetween
<1>9. Len(ps) = k
  <2>1. s \in StructSet
    BY DEF StructAdded
  <2>2. ps \in Seq(Seq(Tok))
    BY <1>2, <2>1 DEF StructSet
  <2>3. DOMAIN ps = 1 .. k
    BY <1>8
  <2> QED BY <2>2, <2>3, LenProperties
<1>10. /\ w \in Seq(Tok) /\ Len(w) = j - i + 1
       /\ \A q \in 1 .. j - i + 1 : w[q] = t[i + q - 1]
  <2>1. \A m \in i .. j : t[m] \in Tok
    BY <1>3, <1>4
  <2>2. i \in Int /\ j \in Int /\ i <= j
    BY <1>4
  <2>3. SubSeq(t, i, j) \in Seq(Tok)
    BY <2>1, <2>2, SubSeqProperties
  <2>4. Len(SubSeq(t, i, j)) = j - i + 1
    BY <2>1, <2>2, SubSeqProperties
  <2>5. \A q \in 1 .. j - i + 1 : SubSeq(t, i, j)[q] = t[i + q - 1]
    BY <2>1, <2>2, SubSeqProperties
  <2> QED BY <1>2, <1>3, <2>3, <2>4, <2>5
<1>11. ASSUME NEW q \in 1 .. k
       PROVE  ps[q][1] = w[3 * q] /\ ps[q][3] = w[3 * q + 2]
  <2>1. PICK a \in Nat : a = i + 3 * q - 1 /\ 1 <= a /\ a + 2 <= n /\ a + 2 = i + 3 * q + 1
    <3>1. /\ i + 3 * q - 1 \in Nat /\ 1 <= i + 3 * q - 1
          /\ (i + 3 * q - 1) + 2 <= n /\ (i + 3 * q - 1) + 2 = i + 3 * q + 1
      BY <1>4, <1>7
    <3> QED BY <3>1
  <2>2. ps[q] = SubSeq(t, a, a + 2)
    BY <1>8, <2>1
  <2>3. SubSeq(t, a, a + 2)[1] = t[a] /\ SubSeq(t, a, a + 2)[3] = t[a + 2]
    BY <1>3, <2>1, ThreeTokens
  <2>4. PICK b \in 1 .. j - i + 1, c \in 1 .. j - i + 1 : b = 3 * q /\ c = 3 * q + 2
    BY <1>4, <1>7
  <2>5. w[b] = t[a] /\ w[c] = t[a + 2]
    <3>1. w[b] = t[i + b - 1] /\ w[c] = t[i + c - 1]
      BY <1>10
    <3>2. i + b - 1 = a /\ i + c - 1 = a + 2
      BY <1>4, <2>1, <2>4
    <3> QED BY <3>1, <3>2
  <2> QED BY <2>2, <2>3, <2>4, <2>5
<1>12. Len(w) = 3 * k + 3
  BY <1>4, <1>7, <1>10
<1> QED BY <1>2, <1>9, <1>10, <1>11, <1>12 DEF PairsIn

(* Pair q of struct k of ss begins at place at[k, q] of the text t.        *)
PlacedAt(at, ss, t) ==
  \A k \in 1 .. Len(ss) : \A q \in 1 .. Len(ss[k].pairs) :
    /\ at[<<k, q>>] \in 1 .. Len(t) - 2
    /\ t[at[<<k, q>>]] = ss[k].pairs[q][1] /\ t[at[<<k, q>>] + 2] = ss[k].pairs[q][3]

Apart(at, ss) ==
  \A k, m \in 1 .. Len(ss) : \A q \in 1 .. Len(ss[k].pairs), r \in 1 .. Len(ss[m].pairs) :
    at[<<k, q>>] = at[<<m, r>>] => k = m /\ q = r

(* The pairs stand in the text, each in a place of its own.                *)
Placed(ss, t) == \E at \in [Nat \X Nat -> Nat] : PlacedAt(at, ss, t) /\ Apart(at, ss)

LEMMA PlacedAppend ==
  ASSUME NEW ss \in Seq(StructSet), NEW s \in StructSet, NEW t \in Seq(Tok), NEW w,
         PairsIn(w, s.pairs), Placed(ss, t)
  PROVE  Placed(Append(ss, s), t \o w)
<1>1. PICK n \in Nat, l \in Nat : n = Len(ss) /\ l = Len(t)
  BY LenProperties
<1>20. PICK ps : ps = s.pairs
  OBVIOUS
<1>2. PICK h \in Nat : h = Len(ps) /\ ps = s.pairs
  BY <1>20 DEF PairsIn
<1>3. /\ w \in Seq(Tok) /\ Len(w) = 3 * h + 3
      /\ \A q \in 1 .. h : ps[q][1] = w[3 * q] /\ ps[q][3] = w[3 * q + 2]
  BY <1>2 DEF PairsIn
<1>4. PICK r, u : r = Append(ss, s) /\ u = t \o w
  OBVIOUS
<1>5. Len(r) = n + 1 /\ r[n + 1] = s /\ \A k \in 1 .. n : r[k] = ss[k]
  BY <1>1, <1>4, AppendProperties
<1>6. Len(u) = l + 3 * h + 3 /\ (\A q \in 1 .. l : u[q] = t[q])
      /\ \A q \in 1 .. 3 * h + 3 : u[l + q] = w[q]
  <2>1. PICK c \in Nat : c = Len(w) /\ c = 3 * h + 3
    BY <1>3
  <2>6. PICK v \in Seq(Tok) : v = w /\ c = Len(v)
    BY <1>3, <2>1
  <2>7. Len(t \o v) = Len(t) + Len(v)
    BY ConcatProperties
  <2>8. \A q \in 1 .. Len(t) + Len(v) : (t \o v)[q] = IF q <= Len(t) THEN t[q] ELSE v[q - Len(t)]
    BY ConcatProperties
  <2>2. Len(u) = l + c
    BY <1>1, <1>4, <2>6, <2>7
  <2>3. \A q \in 1 .. l + c : u[q] = IF q <= l THEN t[q] ELSE w[q - l]
    BY <1>1, <1>4, <2>6, <2>8
  <2>4. \A q \in 1 .. c : l + q \in 1 .. l + c /\ ~ (l + q <= l) /\ (l + q) - l = q
    OBVIOUS
  <2>5. \A q \in 1 .. l : q \in 1 .. l + c /\ q <= l
    OBVIOUS
  <2> QED BY <2>1, <2>2, <2>3, <2>4, <2>5
<1>7. PICK old \in [Nat \X Nat -> Nat] : PlacedAt(old, ss, t) /\ Apart(old, ss)
  BY DEF Placed
<1>8. PICK at : at = [x \in Nat \X Nat |-> IF x[1] = n + 1 THEN l + 3 * x[2] ELSE old[x]]
  OBVIOUS
<1>9. at \in [Nat \X Nat -> Nat]
  BY <1>8
<1>10. \A q \in Nat : at[<<n + 1, q>>] = l + 3 * q
  BY <1>8
<1>11. \A k \in 1 .. n, q \in Nat : at[<<k, q>>] = old[<<k, q>>]
  <2> SUFFICES ASSUME NEW k \in 1 .. n, NEW q \in Nat
               PROVE  at[<<k, q>>] = old[<<k, q>>]
    OBVIOUS
  <2>1. k # n + 1 /\ <<k, q>> \in Nat \X Nat
    OBVIOUS
  <2> QED BY <1>8, <2>1
<1>12. \A k \in 1 .. n + 1 : k \in 1 .. n \/ k = n + 1
  OBVIOUS
<1>13. ASSUME NEW k \in 1 .. n
       PROVE  Len(ss[k].pairs) \in Nat /\ r[k].pairs = ss[k].pairs
  <2>1. ss[k] \in StructSet
    BY <1>1, ElementOfSeq
  <2>2. ss[k].pairs \in Seq(Seq(Tok))
    BY <2>1 DEF StructSet
  <2> QED BY <1>5, <2>2, LenProperties
<1>14. r[n + 1].pairs = ps
  BY <1>2, <1>5
<1>15. ASSUME NEW k \in 1 .. n, NEW q \in 1 .. Len(ss[k].pairs)
       PROVE  /\ at[<<k, q>>] = old[<<k, q>>] /\ at[<<k, q>>] \in 1 .. l - 2
              /\ t[at[<<k, q>>]] = ss[k].pairs[q][1] /\ t[at[<<k, q>>] + 2] = ss[k].pairs[q][3]
  <2>1. q \in Nat
    BY <1>13
  <2>2. at[<<k, q>>] = old[<<k, q>>]
    BY <1>11, <2>1
  <2>3. /\ old[<<k, q>>] \in 1 .. l - 2
        /\ t[old[<<k, q>>]] = ss[k].pairs[q][1] /\ t[old[<<k, q>>] + 2] = ss[k].pairs[q][3]
    BY <1>1, <1>7 DEF PlacedAt
  <2> QED BY <2>2, <2>3
<1>16. ASSUME NEW k \in 1 .. n + 1, NEW q \in 1 .. Len(r[k].pairs)
       PROVE  /\ at[<<k, q>>] \in 1 .. Len(u) - 2
              /\ u[at[<<k, q>>]] = r[k].pairs[q][1] /\ u[at[<<k, q>>] + 2] = r[k].pairs[q][3]
  <2>1. CASE k \in 1 .. n
    <3>3. r[k].pairs = ss[k].pairs /\ q \in 1 .. Len(ss[k].pairs)
      BY <1>13, <2>1
    <3>1. PICK e \in 1 .. l - 2 : e = at[<<k, q>>] /\ t[e] = r[k].pairs[q][1] /\ t[e + 2] = r[k].pairs[q][3]
      <4>1. /\ at[<<k, q>>] \in 1 .. l - 2
            /\ t[at[<<k, q>>]] = ss[k].pairs[q][1] /\ t[at[<<k, q>>] + 2] = ss[k].pairs[q][3]
        BY <1>15, <2>1, <3>3
      <4> QED BY <3>3, <4>1
    <3>2. e \in 1 .. l /\ e + 2 \in 1 .. l /\ e \in 1 .. Len(u) - 2
      <4>1. l \in Nat /\ l <= Len(u) /\ Len(u) \in Nat
        BY <1>6
      <4> QED BY ONLY <4>1, e \in 1 .. l - 2
    <3> QED BY <1>6, <3>1, <3>2
  <2>2. CASE k = n + 1
    <3>1. q \in 1 .. h /\ at[<<k, q>>] = l + 3 * q
      BY <1>2, <1>10, <1>14, <2>2
    <3>2. u[l + 3 * q] = w[3 * q] /\ u[l + (3 * q + 2)] = w[3 * q + 2]
      <4>1. 3 * q \in 1 .. 3 * h + 3 /\ 3 * q + 2 \in 1 .. 3 * h + 3
        BY <3>1
      <4> QED BY <1>6, <4>1
    <3>3. l + 3 * q \in 1 .. Len(u) - 2 /\ (l + 3 * q) + 2 = l + (3 * q + 2)
      BY <1>6, <3>1
    <3>4. r[k].pairs[q][1] = w[3 * q] /\ r[k].pairs[q][3] = w[3 * q + 2]
      BY <1>3, <1>14, <2>2, <3>1
    <3> QED BY <3>1, <3>2, <3>3, <3>4
  <2> QED BY <1>12, <2>1, <2>2
<1>18. PlacedAt(at, r, u)
  BY <1>5, <1>16 DEF PlacedAt
<1>17. Apart(at, r)
  <2> SUFFICES ASSUME NEW k \in 1 .. Len(r), NEW m \in 1 .. Len(r),
                      NEW q \in 1 .. Len(r[k].pairs), NEW p \in 1 .. Len(r[m].pairs),
                      at[<<k, q>>] = at[<<m, p>>]
               PROVE  k = m /\ q = p
    BY Zenon DEF Apart
  <2>9. k \in 1 .. n + 1 /\ m \in 1 .. n + 1
    BY <1>5
  <2>10. at[<<k, q>>] = at[<<m, p>>]
    OBVIOUS
  <2>11. Len(r[n + 1].pairs) = h
    BY <1>2, <1>14
  <2>1. k = n + 1 => q \in 1 .. h /\ at[<<k, q>>] = l + 3 * q
    <3>1. k = n + 1 => q \in 1 .. h
      BY <2>11
    <3> QED BY <1>10, <3>1
  <2>2. m = n + 1 => p \in 1 .. h /\ at[<<m, p>>] = l + 3 * p
    <3>1. m = n + 1 => p \in 1 .. h
      BY <2>11
    <3> QED BY <1>10, <3>1
  <2>3. k \in 1 .. n => at[<<k, q>>] = old[<<k, q>>] /\ at[<<k, q>>] \in 1 .. l - 2 /\ q \in 1 .. Len(ss[k].pairs)
    BY <1>13, <1>15
  <2>4. m \in 1 .. n => at[<<m, p>>] = old[<<m, p>>] /\ at[<<m, p>>] \in 1 .. l - 2 /\ p \in 1 .. Len(ss[m].pairs)
    BY <1>13, <1>15
  <2>5. CASE k = n + 1 /\ m = n + 1
    BY <2>10, <2>1, <2>2, <2>5
  <2>6. CASE k \in 1 .. n /\ m \in 1 .. n
    <3>1. old[<<k, q>>] = old[<<m, p>>]
      BY <2>10, <2>3, <2>4, <2>6
    <3> QED BY <1>1, <1>7, <2>3, <2>4, <2>6, <3>1 DEF Apart
  <2>7. CASE k = n + 1 /\ m \in 1 .. n
    BY <2>10, <2>1, <2>4, <2>7
  <2>8. CASE k \in 1 .. n /\ m = n + 1
    BY <2>10, <2>2, <2>3, <2>8
  <2> QED BY <1>12, <2>9, <2>5, <2>6, <2>7, <2>8
<1> QED BY <1>4, <1>9, <1>17, <1>18 DEF Placed

PlacesInv == phase \in {"parse", "apply"} => Placed(structs, Texts(structs))

LEMMA PlacesStep ==
  ASSUME PlainText, TextInv, PlacesInv, [Next]_vars
  PROVE  PlacesInv'
<1>1. CASE phase = "parse" /\ \E f, i, j, s : StructAdded(f, i, j, s)
  <2>1. PICK f, i, j, s : StructAdded(f, i, j, s)
    BY <1>1
  <2>2. PICK ss \in Seq(StructSet), t \in Seq(Tok) : ss = structs /\ t = Texts(structs)
    BY <2>1, TextGrows
  <2>3. PICK w : w = StructText(s) /\ s \in StructSet
    BY <2>1, TextGrows
  <2>4. PairsIn(w, s.pairs)
    BY <2>1, <2>3, StructPairs
  <2>5. Placed(ss, t)
    BY <1>1, <2>2 DEF PlacesInv
  <2>6. Placed(Append(ss, s), t \o w)
    BY <2>3, <2>4, <2>5, PlacedAppend
  <2>7. structs' = Append(ss, s) /\ Texts(structs)' = t \o w
    BY <2>1, <2>2, <2>3, TextGrows
  <2>8. Placed(structs, Texts(structs))'
    BY <2>6, <2>7, Zenon
  <2> QED BY <2>8 DEF PlacesInv
<1>2. CASE structs' = <<>>
  <2>1. Placed(<<>>, Texts(<<>>))
    <3>1. PICK at : at = [x \in Nat \X Nat |-> 0]
      OBVIOUS
    <3>2. at \in [Nat \X Nat -> Nat]
      BY <3>1
    <3>3. 1 .. Len(<<>>) = {}
      OBVIOUS
    <3> QED BY <3>2, <3>3 DEF Placed, PlacedAt, Apart
  <2>2. Placed(structs, Texts(structs))'
    BY <1>2, <2>1, Zenon
  <2> QED BY <2>2 DEF PlacesInv
<1>3. CASE UNCHANGED structs /\ (UNCHANGED phase \/ phase = "parse")
  BY <1>3 DEF PlacesInv
<1>4. CASE phase' \notin {"parse", "apply"}
  BY <1>4 DEF PlacesInv
<1> QED BY <1>1, <1>2, <1>3, <1>4, StructsMove

(* A pair that loads a directory where id is described, and the places of  *)
(* such pairs in the first a structs and in a text.                        *)
Describes(p, id) == p[1] = "nodl_dir" /\ p[3] \in NodlDir /\ id \in DOMAIN Nodl[p[3]]
Uses(ss, a, id) ==
  {x \in (1 .. a) \X Nat : x[2] \in 1 .. Len(ss[x[1]].pairs) /\ Describes(ss[x[1]].pairs[x[2]], id)}
UsesIn(t, id) ==
  {i \in 1 .. Len(t) - 2 : t[i] = "nodl_dir" /\ t[i + 2] \in NodlDir /\ id \in DOMAIN Nodl[t[i + 2]]}

LEMMA TwoUses ==
  ASSUME NEW ss \in Seq(StructSet), NEW t \in Seq(Tok), Placed(ss, t),
         NEW a \in 0 .. Len(ss), NEW id, NEW x \in Uses(ss, a, id), NEW y \in Uses(ss, a, id), x # y
  PROVE  Cardinality(UsesIn(t, id)) > 1
<1>1. PICK at \in [Nat \X Nat -> Nat] : PlacedAt(at, ss, t) /\ Apart(at, ss)
  BY DEF Placed
<1>2. PICK n \in Nat, l \in Nat : n = Len(ss) /\ l = Len(t)
  BY LenProperties
<1>3. ASSUME NEW z \in Uses(ss, a, id)
      PROVE  at[z] \in UsesIn(t, id)
  <2>1. PICK k \in 1 .. n, q \in Nat : z = <<k, q>> /\ q \in 1 .. Len(ss[k].pairs) /\ Describes(ss[k].pairs[q], id)
    BY <1>2 DEF Uses
  <2>2. PICK e : e = at[<<k, q>>]
    OBVIOUS
  <2>3. e \in 1 .. l - 2 /\ t[e] = ss[k].pairs[q][1] /\ t[e + 2] = ss[k].pairs[q][3]
    BY <1>1, <1>2, <2>1, <2>2 DEF PlacedAt
  <2> QED BY <1>2, <2>1, <2>2, <2>3 DEF Describes, UsesIn
<1>4. at[x] # at[y]
  <2>1. PICK k \in 1 .. n, q \in Nat : x = <<k, q>> /\ q \in 1 .. Len(ss[k].pairs)
    BY <1>2 DEF Uses
  <2>2. PICK m \in 1 .. n, r \in Nat : y = <<m, r>> /\ r \in 1 .. Len(ss[m].pairs)
    BY <1>2 DEF Uses
  <2>3. k = m /\ q = r => x = y
    BY <2>1, <2>2
  <2>4. at[<<k, q>>] = at[<<m, r>>] => k = m /\ q = r
    BY <1>1, <1>2, <2>1, <2>2 DEF Apart
  <2> QED BY <2>1, <2>2, <2>3, <2>4
<1>5. PICK U : U = UsesIn(t, id) /\ at[x] \in U /\ at[y] \in U
  BY <1>3
<1>6. IsFiniteSet(U)
  <2>1. IsFiniteSet(1 .. l - 2)
    <3>1. 1 \in Int /\ l - 2 \in Int
      OBVIOUS
    <3> QED BY <3>1, FS_Interval
  <2>2. U \in SUBSET (1 .. l - 2)
    BY <1>2, <1>5 DEF UsesIn
  <2> QED BY <2>1, <2>2, FS_Subset
<1>7. Cardinality(U) \in Nat
  BY <1>6, FS_CardinalityType
<1>8. Cardinality(U) # 0
  BY <1>5, <1>6, FS_EmptySet
<1>9. Cardinality(U) # 1
  BY <1>4, <1>5, <1>6, FS_Singleton
<1> QED BY <1>5, <1>7, <1>8, <1>9

LEMMA DescribedTwiceIs == \A id : DescribedTwice(id) <=> Cardinality(UsesIn(Expanded[conf], id)) > 1
BY DEF DescribedTwice, UsesIn

(* What the first a structs of ss have loaded into d.  Nothing is held     *)
(* under an id that they do not describe, and if they describe it once,    *)
(* nothing that was refused in part.                                       *)
HoldsLoaded(d, ss, a) ==
  /\ d \in NodlDicts
  /\ \A id \in DictKey :
       /\ Uses(ss, a, id) = {} => HeldBy(d, id) = {}
       /\ (\A x, y \in Uses(ss, a, id) : x = y) => HeldBy(d, id) \subseteq Whole

NodlsInv ==
  /\ phase \in {"load", "parse"} => applied = 0 /\ nodls = EmptyDict
  /\ phase = "apply" => applied \in 0 .. Len(structs) /\ HoldsLoaded(nodls, structs, applied)

BaseLoaded ==
  \E orders : /\ \A i \in NodlDirs : orders[i] \in Orders(DirOf(i))
              /\ nodls' = LoadNodlDirs(orders)

LEMMA NodlsMove ==
  ASSUME [Next]_vars
  PROVE  \/ ParserNext /\ UNCHANGED <<applied, nodls>>
         \/ /\ phase = "apply" /\ applied < Len(structs) /\ NextStruct
            /\ UNCHANGED nodls \/ BaseLoaded
         \/ phase' \notin {"load", "parse", "apply"}
         \/ UNCHANGED vars
<1> DEFINE Ends == phase' \notin {"load", "parse", "apply"}
           Goes == phase = "apply" /\ applied < Len(structs) /\ NextStruct /\ (UNCHANGED nodls \/ BaseLoaded)
<1>1. StructFails \/ StartRelease \/ Opened => Ends
  BY DEF StructFails, StartRelease, Opened
<1>13. AbortInNodl \/ HangInNodl \/ HangInFini \/ AbortInNodes => Ends
  BY DEF AbortInNodl, HangInNodl, HangInFini, AbortInNodes, EndsAs
<1>2. \A part : Releasing(part) => Ends
  BY DEF Releasing
<1>3. \A name : Applying(name) => phase = "apply" /\ applied < Len(structs)
  BY DEF Applying
<1> HIDE DEF Ends
<1>4. ApplyBase => Goes \/ Ends
  <2> SUFFICES ASSUME ApplyBase
               PROVE  Goes \/ Ends
    OBVIOUS
  <2>1. Applying("base") /\ (NextStruct \/ StructFails)
    BY DEF ApplyBase
  <2>2. BaseLoaded
    BY Zenon DEF ApplyBase, BaseLoaded
  <2> QED BY <1>1, <1>3, <2>1, <2>2
<1>5. ApplySocket \/ ApplyNode \/ ApplyHttpd => Goes \/ Ends
  BY <1>1, <1>3, Zenon DEF ApplySocket, ApplyNode, ApplyHttpd
<1>6. ApplyDevice("cam", "camera") \/ ApplyDevice("sms", "tls") => Goes \/ Ends
  <2> SUFFICES ASSUME NEW name \in {"cam", "sms"}, NEW part, ApplyDevice(name, part)
               PROVE  Goes \/ Ends
    OBVIOUS
  <2>1. Applying(name) /\ UNCHANGED nodls /\ (NextStruct \/ StructFails)
    BY DEF ApplyDevice
  <2> QED BY <1>1, <1>3, <2>1
<1>7. IgnoreStruct => Goes
  BY Zenon DEF IgnoreStruct, baseVars
<1>8. LoadFailed \/ Close => Ends
  BY <1>1, Zenon DEF LoadFailed, Close
<1>9. ReleaseNodls \/ ReleaseNodes \/ ReleaseSockets => Ends
  BY <1>2, Zenon DEF ReleaseNodls, ReleaseNodes, ReleaseSockets
<1>10. (\E part \in {"thread", "camera", "tls"} : ReleaseDevice(part)) => Ends
  BY <1>2, Zenon DEF ReleaseDevice
<1>11. ParserNext /\ UNCHANGED <<applied, err, baseVars, closing, history>>
         => ParserNext /\ UNCHANGED <<applied, nodls>>
  BY DEF baseVars
<1> HIDE DEF Goes
<1>12. Next => (ParserNext /\ UNCHANGED <<applied, nodls>>) \/ Goes \/ Ends
  BY <1>1, <1>4, <1>5, <1>6, <1>7, <1>8, <1>9, <1>10, <1>11, <1>13,
     Zenon DEF Next, Proceed
<1> QED BY <1>12 DEF Ends, Goes

LEMMA UsesGrow ==
  ASSUME NEW ss, NEW a \in Nat, NEW id
  PROVE  Uses(ss, a, id) \subseteq Uses(ss, a + 1, id)
BY DEF Uses

LEMMA HoldsOn ==
  ASSUME NEW ss, NEW a \in Nat, NEW d, HoldsLoaded(d, ss, a)
  PROVE  HoldsLoaded(d, ss, a + 1)
BY UsesGrow DEF HoldsLoaded

LEMMA BaseHolds ==
  ASSUME structs \in Seq(StructSet), applied \in Nat, applied < Len(structs),
         HoldsLoaded(nodls, structs, applied),
         NEW orders, \A i \in NodlDirs : orders[i] \in Orders(DirOf(i))
  PROVE  HoldsLoaded(LoadNodlDirs(orders), structs, applied + 1)
<1>1. PICK ss \in Seq(StructSet), a \in Nat : ss = structs /\ a = applied
  OBVIOUS
<1>2. PICK s \in StructSet : s = ss[a + 1] /\ s = Struct
  <2>1. a + 1 \in 1 .. Len(ss)
    BY <1>1, LenProperties
  <2>2. ss[a + 1] \in StructSet
    BY <2>1, ElementOfSeq
  <2> QED BY <1>1, <2>2 DEF Struct
<1>3. PICK n \in Nat : n = Len(s.pairs) /\ DOMAIN s.pairs = 1 .. n
  <2>1. s.pairs \in Seq(Seq(Tok))
    BY DEF StructSet
  <2> QED BY <2>1, LenProperties
<1>4. PICK d, e : d = nodls /\ e = LoadNodlDirs(orders)
  OBVIOUS
<1>5. /\ e \in NodlDicts
      /\ \A id \in DictKey :
           /\ Loading(id) = {} => HeldBy(e, id) \subseteq HeldBy(d, id)
           /\ HeldBy(d, id) = {} /\ (\A p, q \in Loading(id) : p = q) => HeldBy(e, id) \subseteq Whole
  <2>1. nodls \in NodlDicts /\ Len(Struct.pairs) = n /\ DOMAIN Struct.pairs = 1 .. n
    BY <1>2, <1>3 DEF HoldsLoaded
  <2> QED BY <1>4, <2>1, LoadNodlDirsVals
<1>6. \A id \in DictKey : /\ Uses(ss, a, id) = {} => HeldBy(d, id) = {}
                          /\ (\A x, y \in Uses(ss, a, id) : x = y) => HeldBy(d, id) \subseteq Whole
  BY <1>1, <1>4 DEF HoldsLoaded
<1>7. ASSUME NEW id, NEW q \in Loading(id)
      PROVE  <<a + 1, q>> \in Uses(ss, a + 1, id)
  <2>1. NodlDirs \in SUBSET (1 .. n) /\ \A i \in NodlDirs : DirOf(i) \in NodlDir
    BY <1>2, <1>3, NodlDirsAre
  <2>2. /\ q \in 1 .. n /\ s.pairs[q][1] = "nodl_dir" /\ DirOf(q) = s.pairs[q][3]
        /\ DirOf(q) \in NodlDir /\ id \in DOMAIN Nodl[DirOf(q)]
    BY <1>2, <2>1 DEF Loading, NodlDirs, DirOf
  <2>3. Describes(s.pairs[q], id)
    BY <2>2 DEF Describes
  <2>4. <<a + 1, q>> \in (1 .. a + 1) \X Nat
    BY <2>2
  <2> QED BY <1>2, <1>3, <2>2, <2>3, <2>4 DEF Uses
<1>8. ASSUME NEW id \in DictKey
      PROVE  /\ Uses(ss, a + 1, id) = {} => HeldBy(e, id) = {}
             /\ (\A x, y \in Uses(ss, a + 1, id) : x = y) => HeldBy(e, id) \subseteq Whole
  <2>1. Uses(ss, a, id) \subseteq Uses(ss, a + 1, id)
    BY UsesGrow
  <2>2. CASE Loading(id) = {}
    <3>1. HeldBy(e, id) \subseteq HeldBy(d, id)
      BY <1>5, <2>2
    <3> QED BY <1>6, <2>1, <3>1
  <2>3. CASE Loading(id) # {}
    <3>1. PICK p \in Loading(id) : <<a + 1, p>> \in Uses(ss, a + 1, id)
      BY <1>7, <2>3
    <3>2. ASSUME \A x, y \in Uses(ss, a + 1, id) : x = y
          PROVE  HeldBy(e, id) \subseteq Whole
      <4>1. ASSUME NEW x \in Uses(ss, a, id)
            PROVE  FALSE
        <5>1. x = <<a + 1, p>>
          BY <2>1, <3>1, <3>2
        <5>2. x[1] \in 1 .. a
          BY DEF Uses
        <5> QED BY <5>1, <5>2
      <4>2. HeldBy(d, id) = {}
        BY <1>6, <4>1
      <4>3. ASSUME NEW q \in Loading(id), NEW r \in Loading(id)
            PROVE  q = r
        <5>1. <<a + 1, q>> = <<a + 1, r>>
          BY <1>7, <3>2
        <5> QED BY <5>1
      <4> QED BY <1>5, <4>2, <4>3
    <3> QED BY <3>1, <3>2
  <2> QED BY <2>2, <2>3
<1>9. HoldsLoaded(e, ss, a + 1)
  BY <1>5, <1>8 DEF HoldsLoaded
<1> QED BY <1>1, <1>4, <1>9

LEMMA NodlsStep ==
  ASSUME TextInv, TextInv', NodlsInv, [Next]_vars
  PROVE  NodlsInv'
<1>1. CASE ParserNext /\ UNCHANGED <<applied, nodls>>
  <2>1. phase \in {"load", "parse"}
    BY <1>1 DEF ParserNext, LoadFile, ParseStruct, ParseInclude, ParseOtherDirective, EndBuf,
       Looking, TextInv
  <2>2. applied' = 0 /\ nodls' = EmptyDict
    BY <1>1, <2>1 DEF NodlsInv
  <2>3. ASSUME phase' = "apply"
        PROVE  0 \in 0 .. Len(structs')
    <3>1. structs' \in Seq(StructSet)
      BY <2>3 DEF TextInv
    <3>2. PICK n \in Nat : n = Len(structs')
      BY <3>1, LenProperties
    <3> QED BY <3>2
  <2>4. PICK ss : ss = structs'
    OBVIOUS
  <2>5. HoldsLoaded(EmptyDict, ss, 0)
    BY EmptyHolds DEF HoldsLoaded
  <2>6. HoldsLoaded(nodls, structs, applied)'
    BY <2>2, <2>4, <2>5, Zenon
  <2> QED BY <2>2, <2>3, <2>6 DEF NodlsInv
<1>2. CASE phase = "apply" /\ applied < Len(structs) /\ NextStruct /\ (UNCHANGED nodls \/ BaseLoaded)
  <2>1. /\ structs \in Seq(StructSet) /\ applied \in Nat /\ applied + 1 \in 0 .. Len(structs)
        /\ HoldsLoaded(nodls, structs, applied)
    <3>1. structs \in Seq(StructSet) /\ applied \in 0 .. Len(structs) /\ HoldsLoaded(nodls, structs, applied)
      BY <1>2 DEF TextInv, NodlsInv
    <3>2. PICK n \in Nat : n = Len(structs)
      BY <3>1, LenProperties
    <3> QED BY <1>2, <3>1, <3>2
  <2>2. structs' = structs /\ applied' = applied + 1 /\ phase' = "apply"
    BY <1>2 DEF NextStruct
  <2>3. PICK ss, a, e : ss = structs /\ a = applied + 1 /\ e = nodls'
    OBVIOUS
  <2>4. HoldsLoaded(e, ss, a)
    <3>1. CASE UNCHANGED nodls
      <4>1. PICK b \in Nat : b = applied
        BY <2>1
      <4>2. HoldsLoaded(e, ss, b)
        BY <2>1, <2>3, <3>1, <4>1
      <4>3. HoldsLoaded(e, ss, b + 1)
        BY <4>2, HoldsOn
      <4> QED BY <2>3, <4>1, <4>3
    <3>2. CASE BaseLoaded
      <4>1. PICK orders : /\ \A i \in NodlDirs : orders[i] \in Orders(DirOf(i))
                          /\ nodls' = LoadNodlDirs(orders)
        BY <3>2 DEF BaseLoaded
      <4>2. HoldsLoaded(LoadNodlDirs(orders), structs, applied + 1)
        BY <1>2, <2>1, <4>1, BaseHolds
      <4> QED BY <2>3, <4>1, <4>2
    <3> QED BY <1>2, <3>1, <3>2
  <2>5. HoldsLoaded(nodls, structs, applied)'
    BY <2>2, <2>3, <2>4, Zenon
  <2> QED BY <2>1, <2>2, <2>5 DEF NodlsInv
<1>3. CASE phase' \notin {"load", "parse", "apply"}
  BY <1>3 DEF NodlsInv
<1>4. CASE UNCHANGED vars
  <2>1. UNCHANGED <<phase, structs, applied, nodls>>
    BY <1>4 DEF vars, parserVars, baseVars
  <2> QED BY <2>1 DEF NodlsInv
<1> QED BY <1>1, <1>2, <1>3, <1>4, NodlsMove

(* A node takes what its id gives when it is added.                        *)
NodeAdded ==
  /\ phase = "apply"
  /\ \E id \in DictKey : \E e :
       HasKey(nodls, id) /\ e.id = id /\ e.nodl = DictGet(nodls, id) /\ nodes' = Append(nodes, e)

LEMMA NodesMoves ==
  ASSUME [Next]_vars
  PROVE  UNCHANGED conf /\ (UNCHANGED nodes \/ nodes' = <<>> \/ NodeAdded)
<1>1. ParserNext => UNCHANGED conf
  BY DEF ParserNext, LoadFile, ParseStruct, ParseInclude, ParseOtherDirective, EndBuf, parserVars
<1>2. NextStruct \/ StructFails \/ StartRelease \/ EndsAs("abort") \/ EndsAs("hung") \/ Opened
        => UNCHANGED conf
  BY DEF NextStruct, StructFails, StartRelease, EndsAs, Opened
<1>3. \A part : Releasing(part) => UNCHANGED conf
  BY DEF Releasing
<1>4. UNCHANGED conf
  BY <1>1, <1>2, <1>3, OtherSteps DEF vars, parserVars
<1>5. ApplyNode => UNCHANGED nodes \/ NodeAdded
  <2> SUFFICES ASSUME ApplyNode, NodeAccepted
               PROVE  NodeAdded
    BY DEF ApplyNode
  <2>1. PICK id, d : id = Value(Struct, "nodl_id") /\ d = DictGet(nodls, id)
    OBVIOUS
  <2>2. phase = "apply" /\ id \in DictKey /\ HasKey(nodls, id)
    BY <2>1 DEF ApplyNode, Applying, NodeAccepted
  <2>3. PICK e : e = [id |-> id, nodl |-> d, socket |-> FirstSocket]
    OBVIOUS
  <2>4. nodes' = Append(nodes, e)
    BY <2>1, <2>3 DEF ApplyNode
  <2>5. e.id = id /\ e.nodl = d
    BY <2>3
  <2> QED BY <2>1, <2>2, <2>4, <2>5, Zenon DEF NodeAdded
<1>6. ApplyBase \/ AbortInNodl \/ HangInNodl \/ HangInFini \/ AbortInNodes \/ ApplySocket
        \/ ApplyHttpd \/ IgnoreStruct \/ Opened \/ LoadFailed \/ Close => UNCHANGED nodes
  BY DEF ApplyBase, AbortInNodl, HangInNodl, HangInFini, AbortInNodes, EndsAs, ApplySocket, ApplyHttpd, IgnoreStruct, Opened, LoadFailed, Close, baseVars
<1>7. \A name, part : ApplyDevice(name, part) => UNCHANGED nodes
  BY DEF ApplyDevice
<1>8. ReleaseNodls \/ ReleaseNodes \/ ReleaseSockets => UNCHANGED nodes \/ nodes' = <<>>
  BY DEF ReleaseNodls, ReleaseNodes, ReleaseSockets
<1>9. \A part : ReleaseDevice(part) => UNCHANGED nodes
  BY DEF ReleaseDevice
<1>10. Next => UNCHANGED nodes \/ nodes' = <<>> \/ NodeAdded
  BY <1>5, <1>6, <1>7, <1>8, <1>9, Zenon DEF Next, Proceed, baseVars
<1> QED BY <1>4, <1>10 DEF vars, baseVars

LEMMA NodlWholeStep ==
  ASSUME IInv, TextInv, PlacesInv, NodlsInv, NodlWhole, [Next]_vars
  PROVE  NodlWhole'
<1>1. UNCHANGED conf /\ (UNCHANGED nodes \/ nodes' = <<>> \/ NodeAdded)
  BY NodesMoves
<1>2. \A id : DescribedTwice(id)' <=> DescribedTwice(id)
  BY <1>1 DEF DescribedTwice
<1>3. CASE UNCHANGED nodes
  BY <1>2, <1>3 DEF NodlWhole
<1>4. CASE nodes' = <<>>
  BY <1>4 DEF NodlWhole
<1>5. CASE NodeAdded
  <2>13. PICK id \in DictKey : \E e :
           HasKey(nodls, id) /\ e.id = id /\ e.nodl = DictGet(nodls, id) /\ nodes' = Append(nodes, e)
    BY <1>5 DEF NodeAdded
  <2>1. PICK e : HasKey(nodls, id) /\ e.id = id /\ e.nodl = DictGet(nodls, id) /\ nodes' = Append(nodes, e)
    BY <2>13
  <2>2. PICK ss \in Seq(StructSet), a \in Nat, d \in NodlDicts :
          ss = structs /\ a = applied /\ d = nodls /\ a \in 0 .. Len(ss) /\ HoldsLoaded(d, ss, a)
    <3>1. /\ structs \in Seq(StructSet) /\ applied \in 0 .. Len(structs)
          /\ HoldsLoaded(nodls, structs, applied)
      BY <1>5 DEF NodeAdded, TextInv, NodlsInv
    <3>2. nodls \in NodlDicts /\ applied \in Nat
      BY <3>1 DEF HoldsLoaded
    <3> QED BY <3>1, <3>2
  <2>3. e.nodl \in HeldBy(d, id)
    BY <2>1, <2>2, PairFound
  <2>4. e.nodl.whole \/ DescribedTwice(e.id)
    <3>1. CASE \A x, y \in Uses(ss, a, id) : x = y
      BY <2>2, <2>3, <3>1 DEF HoldsLoaded, Whole
    <3>2. CASE ~ \A x, y \in Uses(ss, a, id) : x = y
      <4>1. PICK x \in Uses(ss, a, id), y \in Uses(ss, a, id) : x # y
        BY <3>2
      <4>2. PICK t \in Seq(Tok) : t = Expanded[conf] /\ Placed(ss, t)
        <5>1. conf \in File /\ Texts(structs) = Expanded[conf] /\ Placed(structs, Texts(structs))
          BY <1>5 DEF NodeAdded, TextInv, PlacesInv
        <5>2. Expanded[conf] \in Seq(Tok)
          BY <5>1, ExpandedIs
        <5> QED BY <2>2, <5>1, <5>2
      <4>3. Cardinality(UsesIn(t, id)) > 1
        BY <2>2, <4>1, <4>2, TwoUses
      <4> QED BY <2>1, <4>2, <4>3, DescribedTwiceIs
    <3> QED BY <3>1, <3>2
  <2>5. PICK S : nodes \in Seq(S)
    BY <1>5 DEF NodeAdded, IInv, NodesKept
  <2>6. PICK k \in Seq(S), n \in Nat : k = nodes /\ n = Len(k) /\ DOMAIN k = 1 .. n
    BY <2>5, LenProperties
  <2>7. k \in Seq(S \cup {e}) /\ e \in S \cup {e}
    <3>1. k \in [1 .. n -> S \cup {e}]
      BY <2>6, LenProperties
    <3> QED BY <2>6, <3>1
  <2>8. PICK r : r = Append(k, e) /\ DOMAIN r = 1 .. n + 1 /\ r[n + 1] = e
                 /\ \A m \in 1 .. n : r[m] = k[m]
    <3>1. Append(k, e) \in Seq(S \cup {e}) /\ Len(Append(k, e)) = n + 1
      BY <2>6, <2>7, AppendProperties
    <3>2. Append(k, e)[n + 1] = e /\ \A m \in 1 .. n : Append(k, e)[m] = k[m]
      BY <2>6, <2>7, AppendProperties
    <3>3. DOMAIN Append(k, e) = 1 .. n + 1
      BY <3>1, LenProperties
    <3> QED BY <3>2, <3>3
  <2>9. \A m \in 1 .. n : k[m].nodl.whole \/ DescribedTwice(k[m].id)
    BY <2>6 DEF NodlWhole
  <2>10. \A m \in 1 .. n + 1 : m \in 1 .. n \/ m = n + 1
    OBVIOUS
  <2>11. \A m \in DOMAIN r : r[m].nodl.whole \/ DescribedTwice(r[m].id)
    BY <2>4, <2>8, <2>9, <2>10
  <2>12. nodes' = r
    BY <2>1, <2>6, <2>8
  <2> QED BY <1>2, <2>11, <2>12 DEF NodlWhole
<1> QED BY <1>1, <1>3, <1>4, <1>5

(* A node refers to a description of which bano_nodl_load_file refused a   *)
(* part only if the configuration loads two directories that describe its  *)
(* id: for any files, in any order of readdir, and wherever the directory  *)
(* is named in the configuration or in what it includes.                   *)
THEOREM NodlWholeAlways == ASSUME PlainText PROVE Spec => []NodlWhole
<1> DEFINE I == IInv /\ TextInv /\ PlacesInv /\ NodlsInv /\ NodlWhole
<1>1. Init => I
  <2>1. Init => phase = "load" /\ applied = 0 /\ nodls = EmptyDict /\ nodes = <<>> /\ structs = <<>>
    BY DEF Init, ParserInit
  <2> QED BY <2>1, InitIInv DEF TextInv, PlacesInv, NodlsInv, NodlWhole
<1>2. I /\ [Next]_vars => I'
  <2> SUFFICES ASSUME I, [Next]_vars PROVE I'
    OBVIOUS
  <2>1. TextInv'
    BY TextStep
  <2> QED BY <2>1, Step, PlacesStep, NodlsStep, NodlWholeStep
<1>3. I => NodlWhole
  OBVIOUS
<1> HIDE DEF I
<1> QED BY <1>1, <1>2, <1>3, PTL DEF Spec

(* The strengthened invariant of the opening and the closing of the base.  *)
THEOREM Invariance == Spec => []IInv
BY InitIInv, Step, PTL DEF Spec

(* bano_close and the error exits of bano_open release what was set up,    *)
(* each node once, whatever failed and however many sockets there are,     *)
(* although bano_socket_free frees the nodes of the list too; only after   *)
(* a socket that could not be listed is each node freed twice.             *)
THEOREM ReleasedAlways == Spec => []Released
<1>1. IInv => Released
  <2> SUFFICES ASSUME IInv PROVE Released
    OBVIOUS
  <2>1. NodesKept \/ NodesFreed
    BY DEF IInv, Unwound
  <2>2. unlisted \in {0, 1} /\ DOMAIN frees = 1 .. Len(frees)
    BY <2>1, LenProperties DEF NodesKept, NodesFreed
  <2>3. ASSUME NEW n \in DOMAIN frees
        PROVE  frees[n] <= 1 + unlisted /\ (NodesFreed => frees[n] = 1 + unlisted)
    <3>1. n \in 1 .. Len(frees)
      BY <2>2
    <3> QED BY <2>1, <2>2, <3>1 DEF NodesKept, NodesFreed
  <2>4. phase = "closed" => NodesFreed /\ held = {} /\ sockets = <<>>
    BY DEF IInv
  <2> QED BY <2>2, <2>3, <2>4 DEF Released, NodesFreed
<1> QED BY <1>1, Invariance, PTL
=============================================================================
