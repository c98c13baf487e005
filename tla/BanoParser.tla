----------------------------- MODULE BanoParser -----------------------------
(***************************************************************************)
(* The parser of configuration files (bano_parser.c): a file is a sequence *)
(* of structs "name { key = value ... }" and of directives ".include       *)
(* file".                                                                  *)
(*                                                                         *)
(* A file is the sequence of its tokens, as next_token cuts them: the      *)
(* whites and comments between them are left out, and so is the length of  *)
(* paths.  One step is one turn of the loop of parse_buf; the frames of    *)
(* parse_buf on the stack of the program are the variable stack.           *)
(***************************************************************************)
EXTENDS Naturals, Sequences, SequencesExt, FiniteSets

CONSTANTS
  File,           \* the files that can be mapped: readable, not empty
  Text,           \* Text[f]: the tokens of f
  OtherDirective, \* the tokens that begin with a dot, but for ".include"
  Conf            \* the paths a configuration may be loaded from

IncludeDirective == ".include"

Includes(f, g) ==
  \E i \in 1 .. Len(Text[f]) - 1 : Text[f][i] = IncludeDirective /\ Text[f][i + 1] = g

(* A file is finite, and none includes itself, through others or not: in a *)
(* cycle, each file includes another of it.  Nothing in the code refuses   *)
(* one, and parse_buf would call itself until its stack overflows.         *)
IncludedBy(S) == {g \in File : \E f \in S : Includes(f, g)}

ASSUME ParserAssumption ==
  LET nested == {f \in IncludedBy(File) : IncludedBy({f}) # {}}
  IN  /\ \A f \in File : Text[f] \in Seq(ToSet(Text[f]))
      /\ \A S \in SUBSET nested : S # {} => \E f \in S : IncludedBy({f}) \cap S = {}

VARIABLES
  conf,     \* the path given to bano_parser_load_file
  phase,    \* "load", "parse", "apply" (parsed), "refused" or "abort"
  stack,    \* the buffers being parsed, as [file, at], the included one last
  structs   \* parser->structs, as [name, pairs]; a pair is its three tokens

parserVars == <<conf, phase, stack, structs>>

Top == stack[Len(stack)]
Tokens == Text[Top.file]
Looking == phase = "parse" /\ Top.at < Len(Tokens)
Token == Tokens[Top.at + 1]

Skip(n) == [stack EXCEPT ![Len(stack)].at = @ + n]

ParserInit ==
  /\ conf \in Conf
  /\ phase = "load"
  /\ stack = <<>>
  /\ structs = <<>>

(* bano_parser_load_file, up to the first turn of parse_buf.               *)
LoadFile ==
  /\ phase = "load"
  /\ IF conf \in File
       THEN /\ phase' = "parse"
            /\ stack' = <<[file |-> conf, at |-> 0]>>
       ELSE /\ phase' = "refused"
            /\ UNCHANGED stack
  /\ UNCHANGED <<conf, structs>>

(* An error, in whatever frame, ends all of them.  bano_list_fini frees    *)
(* the buffer of the top file, and free_buf frees it again: either the C   *)
(* library notices, and aborts, or -1 is returned.                         *)
ParseFails ==
  /\ phase' \in {"refused", "abort"}
  /\ stack' = <<>>
  /\ structs' = <<>>

(* Where the struct that begins at token i of t may be closed: an accolade *)
(* where the key of a pair is looked for.  The pairs are three tokens each *)
(* whatever these are: "=" is not compared with anything.                  *)
Closings(t, i) ==
  IF i < Len(t) /\ t[i + 1] = "{"
    THEN {j \in i + 2 .. Len(t) : t[j] = "}" /\ (j - i - 2) % 3 = 0}
    ELSE {}

PairsBetween(t, i, j) ==
  [n \in 1 .. (j - i - 2) \div 3 |-> SubSeq(t, i + 3 * n - 1, i + 3 * n + 1)]

AddStructFirst(s) == structs' = <<s>> \o structs
AddStruct(s) == structs' = Append(structs, s)

ParseStruct ==
  /\ Looking
  /\ Token \notin OtherDirective \cup {IncludeDirective}
  /\ LET i == Top.at + 1
         closings == Closings(Tokens, i)
     IN  IF closings = {}
           THEN ParseFails
           ELSE LET j == CHOOSE c \in closings : \A d \in closings : c <= d IN
                /\ AddStruct([name |-> Token, pairs |-> PairsBetween(Tokens, i, j)])
                /\ stack' = Skip(j - i + 1)
                /\ UNCHANGED phase
  /\ UNCHANGED conf

ParseIncludeRetries ==
  /\ Looking
  /\ Token = IncludeDirective
  /\ Top.at + 1 < Len(Tokens) /\ Tokens[Top.at + 2] \in File
  /\ stack' = Append(stack, [file |-> Tokens[Top.at + 2], at |-> 0])
  /\ UNCHANGED <<conf, phase, structs>>

(* parse_directive on .include: the file is parsed in a frame of its own.  *)
ParseInclude ==
  /\ Looking
  /\ Token = IncludeDirective
  /\ IF Top.at + 1 < Len(Tokens) /\ Tokens[Top.at + 2] \in File
       THEN /\ stack' = Append(stack, [file |-> Tokens[Top.at + 2], at |-> 0])
            /\ UNCHANGED <<phase, structs>>
       ELSE ParseFails
  /\ UNCHANGED conf

(* parse_directive on another directive returns 0, the number of bytes it  *)
(* has consumed, and parse_buf looks at it again.                          *)
ParseOtherDirective ==
  /\ Looking
  /\ Token \in OtherDirective
  /\ UNCHANGED parserVars

(* Back in the frame of the file that includes, parse_directive skips the  *)
(* directive and the path.                                                 *)
EndInclude ==
  stack' = [SubSeq(stack, 1, Len(stack) - 1) EXCEPT ![Len(stack) - 1].at = @ + 2]

(* parse_buf has reached the end of a buffer.                              *)
EndBuf ==
  /\ phase = "parse"
  /\ Top.at = Len(Tokens)
  /\ IF Len(stack) = 1
       THEN /\ phase' = "apply"
            /\ stack' = <<>>
       ELSE /\ EndInclude
            /\ UNCHANGED phase
  /\ UNCHANGED <<conf, structs>>

ParserNext ==
  LoadFile \/ ParseStruct \/ ParseInclude \/ ParseOtherDirective \/ EndBuf
-----------------------------------------------------------------------------
(***************************************************************************)
(* What a configuration says: its text with each directive replaced by the *)
(* text of the file it names.                                              *)
(***************************************************************************)
Named(f, i) ==
  i \in 2 .. Len(Text[f]) /\ Text[f][i - 1] = IncludeDirective /\ Text[f][i] \in File

Expanded[f \in File] ==
  FlattenSeq([i \in DOMAIN Text[f] |->
    CASE Named(f, i)     -> Expanded[Text[f][i]]
      [] Named(f, i + 1) -> <<>>
      [] OTHER           -> <<Text[f][i]>>])

StructText(s) == <<s.name, "{">> \o FlattenSeq(s.pairs) \o <<"}">>

(***************************************************************************)
(* The structs the base is set up from are those of the configuration,     *)
(* each once and in the order of the text, those of included files in the  *)
(* place of the directive.  Sockets, descriptions and nodes refer to what  *)
(* stands before them, so that the order matters.                          *)
(***************************************************************************)
TextKept ==
  phase = "apply" =>
    FlattenSeq([i \in DOMAIN structs |-> StructText(structs[i])]) = Expanded[conf]
=============================================================================
