------------------------------ MODULE Segment ------------------------------
(***************************************************************************)
(* The generator's templates: Segment::replace, which expands wildcards    *)
(* and resolves conditional nodes in place, and Segment::generate, which   *)
(* lays the result out.  A node is a break, a wildcard $n, a view of a     *)
(* literal, or a reference to shared data: a string, or a guarded segment. *)
(* Segments that are copied share that data.                               *)
(***************************************************************************)
EXTENDS Integers, Sequences, SequencesExt, Specialization

CONSTANTS
  Data,       \* the shared data of the segments that exist before the calls
  Templates,  \* segments to replace in
  Calls,      \* sequences of calls of replace(), each [args, spec]
  None        \* std::nullopt, no replacement and no specialization

Break(n) == [type |-> "break", count |-> n]
Wildcard(n, d) == [type |-> "wildcard", index |-> n, indent |-> d]
View(t, d) == [type |-> "view", text |-> t, indent |-> d]
Shared(type, a) == [type |-> type, data |-> a]
StringData(t, d) == [type |-> "string", text |-> t, indent |-> d]
ConditionalData(seg, s) == [type |-> "conditional", nodes |-> seg, guard |-> s]

Texts == {"view", "string"}
Maximum(m, n) == IF m < n THEN n ELSE m

(* The segments whose references lead to shared data d of their type.      *)
NodeType(d) ==
  [type : {"break"}, count : Nat]
  \cup [type : {"wildcard"}, index : Nat, indent : Int]
  \cup [type : {"view"}, text : Nat, indent : Int]
  \cup [type : {"string"}, data : {a \in DOMAIN d : d[a].type = "string"}]
  \cup [type : {"conditional"}, data : {a \in DOMAIN d : d[a].type = "conditional"}]

Segments(d) == Seq(NodeType(d))

DataType(d) ==
  /\ d \in Seq(Range(d))
  /\ \A a \in DOMAIN d :
       \/ d[a] \in [type : {"string"}, text : Nat, indent : Int]
       \/ d[a] = ConditionalData(d[a].nodes, d[a].guard) /\ d[a].nodes \in Segments(d)

(* What a call may put in: its arguments and shared data, what is in them, *)
(* and which of them it refers to.                                         *)
Units(d, c) == {"data"} \X DOMAIN d \cup {"argument"} \X DOMAIN c.args

Inside(d, c, u) ==
  IF u[1] = "data" THEN IF d[u[2]].type = "string" THEN <<>> ELSE d[u[2]].nodes
  ELSE IF c.args[u[2]] = None THEN <<>> ELSE c.args[u[2]]

IsArgument(c, node) == node.type = "wildcard" /\ node.index < Len(c.args)

Refers(d, c, u) ==
  LET seg == Inside(d, c, u)
  IN {<<"data", seg[k].data>> : k \in {k \in DOMAIN seg : seg[k].type \in {"string", "conditional"}}}
     \cup {<<"argument", seg[k].index + 1>> : k \in {k \in DOMAIN seg : IsArgument(c, seg[k])}}

(* Without it, replace() puts in a wildcard's own replacement for ever.    *)
Founded(d, c) ==
  \A S \in SUBSET Units(d, c) : S # {} => \E u \in S : Refers(d, c, u) \cap S = {}

ASSUME SegmentAssumption ==
  /\ DataType(Data)
  /\ Templates \subseteq Segments(Data)
  /\ \A s \in Calls :
       /\ s \in Seq(Range(s))
       /\ \A c \in Range(s) :
            /\ c.args \in Seq(Range(c.args))
            /\ \A seg \in Range(c.args) : seg # None => seg \in Segments(Data)
            /\ Founded(Data, c)

VARIABLES
  data,           \* what the references refer to
  nodes, start,   \* the segment, and what it was when the call began
  calls,          \* the call that runs, if any, and those to come
  i, indent,      \* the place of the scan and its column
  pc              \* "idle", "scan"

vars == <<data, nodes, start, calls, i, indent, pc>>

(* info(), with views and strings alike; a text is its own length.         *)
Info(d, node) == IF node.type = "string" THEN d[node.data] ELSE node

-----------------------------------------------------------------------------
(* Faulty: a string is indented where it is.                               *)
IndentInPlace(d, seg, n) ==
  <<[a \in DOMAIN d |-> IF Shared("string", a) \in Range(seg) THEN [d[a] EXCEPT !.indent = @ + n]
                        ELSE d[a]],
    [k \in DOMAIN seg |-> IF seg[k].type \in {"wildcard", "view"}
                          THEN [seg[k] EXCEPT !.indent = @ + n] ELSE seg[k]]>>

(* indentNode, over the nodes of an argument: shared data is copied before *)
(* it changes, <<data, nodes>>.  An argument refers to Data only, and of   *)
(* its copy what nothing refers to does not matter.                        *)
Indented(node, n, copies) ==
  CASE node.type = "break" -> node
    [] node.type \in {"wildcard", "view"} -> [node EXCEPT !.indent = @ + n]
    [] node.type \in {"string", "conditional"} -> [node EXCEPT !.data = @ + copies]

IndentNodes(d, seg, n) ==
  LET Each(s) == [k \in DOMAIN s |-> Indented(s[k], n, Len(d))]
      Copy(a) == IF d[a].type = "string" THEN [d[a] EXCEPT !.indent = @ + n]
                 ELSE [d[a] EXCEPT !.nodes = Each(@)]
  IN IF n = 0 THEN <<d, seg>> ELSE <<d \o [a \in DOMAIN Data |-> Copy(a)], Each(seg)>>

-----------------------------------------------------------------------------
(* replaceImpl.                                                            *)

Init ==
  /\ data = Data
  /\ nodes \in Templates
  /\ start = nodes
  /\ calls \in Calls
  /\ i = 1 /\ indent = 0
  /\ pc = "idle"

call == Head(calls)
args == call.args
spec == call.spec

Replace ==
  /\ pc = "idle"
  /\ calls # <<>>
  /\ pc' = "scan"
  /\ i' = 1 /\ indent' = 0
  /\ start' = nodes
  /\ UNCHANGED <<data, nodes, calls>>

Scanning == pc = "scan" /\ i <= Len(nodes)

(* Faulty: nothing to put in, nothing to do.                               *)
SpliceIfAny(seg) ==
  IF seg = <<>> THEN nodes
  ELSE SubSeq(nodes, 1, i - 1) \o seg \o SubSeq(nodes, i + 1, Len(nodes))

Splice(seg) == SubSeq(nodes, 1, i - 1) \o seg \o SubSeq(nodes, i + 1, Len(nodes))

(* Faulty: a replacement is aligned with the margin of its wildcard.       *)
ReplaceAtMargin ==
  /\ Scanning
  /\ IsArgument(call, nodes[i])
  /\ args[nodes[i].index + 1] # None
  /\ LET r == IndentNodes(data, args[nodes[i].index + 1], nodes[i].indent)
     IN data' = r[1] /\ nodes' = Splice(r[2])
  /\ UNCHANGED <<start, calls, i, indent, pc>>

(* The nodes that are put in are scanned in turn.                          *)
ReplaceWildcard ==
  /\ Scanning
  /\ IsArgument(call, nodes[i])
  /\ args[nodes[i].index + 1] # None
  /\ LET r == IndentNodes(data, args[nodes[i].index + 1], Maximum(nodes[i].indent, indent))
     IN data' = r[1] /\ nodes' = Splice(r[2])
  /\ UNCHANGED <<start, calls, i, indent, pc>>

(* Faulty: the counter is not set back.                                    *)
KeepSkipsNext ==
  /\ Scanning
  /\ IsArgument(call, nodes[i])
  /\ args[nodes[i].index + 1] = None
  /\ i' = i + 2
  /\ UNCHANGED <<data, nodes, start, calls, indent, pc>>

KeepWildcard ==
  /\ Scanning
  /\ IsArgument(call, nodes[i])
  /\ args[nodes[i].index + 1] = None
  /\ i' = i + 1
  /\ UNCHANGED <<data, nodes, start, calls, indent, pc>>

(* Faulty: what is left of a condition is not scanned.                     *)
ResolveOnce ==
  /\ Scanning
  /\ nodes[i].type = "conditional"
  /\ spec # None
  /\ LET c == data[nodes[i].data]
         seg == IF Truth(And(spec, c.guard)) THEN c.nodes ELSE <<>>
     IN nodes' = Splice(seg) /\ i' = i + Len(seg)
  /\ UNCHANGED <<data, start, calls, indent, pc>>

ResolveCondition ==
  /\ Scanning
  /\ nodes[i].type = "conditional"
  /\ spec # None
  /\ LET c == data[nodes[i].data]
     IN nodes' = Splice(IF Truth(And(spec, c.guard)) THEN c.nodes ELSE <<>>)
  /\ UNCHANGED <<data, start, calls, i, indent, pc>>

PassBreak ==
  /\ Scanning
  /\ nodes[i].type = "break"
  /\ indent' = 0
  /\ i' = i + 1
  /\ UNCHANGED <<data, nodes, start, calls, pc>>

(* Faulty: the column forgets the indent of a text.                        *)
PassTextWidth ==
  /\ Scanning
  /\ nodes[i].type \in Texts
  /\ indent' = indent + Info(data, nodes[i]).text
  /\ i' = i + 1
  /\ UNCHANGED <<data, nodes, start, calls, pc>>

PassText ==
  /\ Scanning
  /\ nodes[i].type \in Texts
  /\ indent' = Maximum(indent, Info(data, nodes[i]).indent) + Info(data, nodes[i]).text
  /\ i' = i + 1
  /\ UNCHANGED <<data, nodes, start, calls, pc>>

(* A wildcard for a later call, or a condition without a specialization.   *)
PassUnexpanded ==
  /\ Scanning
  /\ nodes[i].type \in {"wildcard", "conditional"}
  /\ ~IsArgument(call, nodes[i])
  /\ nodes[i].type = "conditional" => spec = None
  /\ indent' = IF nodes[i].type = "wildcard" THEN Maximum(indent, nodes[i].indent) ELSE indent
  /\ i' = i + 1
  /\ UNCHANGED <<data, nodes, start, calls, pc>>

Return ==
  /\ pc = "scan"
  /\ i > Len(nodes)
  /\ pc' = "idle"
  /\ calls' = Tail(calls)
  /\ UNCHANGED <<data, nodes, start, i, indent>>

Next ==
  \/ Replace
  \/ ReplaceWildcard
  \/ KeepWildcard
  \/ ResolveCondition
  \/ PassBreak
  \/ PassText
  \/ PassUnexpanded
  \/ Return

Spec == Init /\ [][Next]_vars
FairSpec == Spec /\ WF_vars(Next)

-----------------------------------------------------------------------------
(* generate: each text with the line and the column it lands in.           *)
Pages == [line : Nat, breaks : Nat, column : Nat, texts : Seq(Nat \X Nat \X Nat)]
Page == [line |-> 0, breaks |-> 0, column |-> 0, texts |-> <<>>]
Feed(page, node) == [page EXCEPT !.breaks = Maximum(@, node.count), !.column = 0]
Write(page, text, d) ==
  LET line == page.line + page.breaks
      column == Maximum(page.column, d)
  IN [line |-> line, breaks |-> 0, column |-> column + text,
      texts |-> Append(page.texts, <<line, column, text>>)]

Put(d, page, node) ==
  IF node.type = "break" THEN Feed(page, node)
  ELSE Write(page, Info(d, node).text, Info(d, node).indent)

(* A page after some steps, each a function of the page before it.         *)
Through(steps, page) ==
  LET after[k \in 0 .. Len(steps)] == IF k = 0 THEN page ELSE steps[k][after[k - 1]]
  IN after[Len(steps)]

Generate(d, seg) == Through([k \in DOMAIN seg |-> [page \in Pages |-> Put(d, page, seg[k])]], Page)

-----------------------------------------------------------------------------
(* What a call should do, by recursion over the template and what its      *)
(* wildcards and references stand for.                                     *)

(* The texts, breaks and leftovers of a segment and of what it refers to,  *)
(* with their indents or wherever they stand.                              *)
See(d, x, node, kind) ==
  LET place == IF kind = "whole" THEN Info(d, node).indent ELSE 0
  IN CASE node.type = "break" -> <<"break", node.count>>
       [] node.type \in Texts -> <<"text", Info(d, node).text, place>>
       [] node.type = "wildcard" -> <<"wildcard", node.index, place>>
       [] node.type = "conditional" -> <<"conditional", d[node.data].guard, x[node.data]>>

Seen(d, kind) ==
  LET x[a \in DOMAIN d] ==
        IF d[a].type = "string" THEN <<>>
        ELSE [k \in DOMAIN d[a].nodes |-> See(d, x, d[a].nodes[k], kind)]
  IN x

Whole(d, seg) == [k \in DOMAIN seg |-> See(d, Seen(d, "whole"), seg[k], "whole")]
Content(d, seg) == [k \in DOMAIN seg |-> See(d, Seen(d, "content"), seg[k], "content")]

IsGiven(c, node) == IsArgument(c, node) /\ c.args[node.index + 1] # None
IsDecided(c, node) == node.type = "conditional" /\ c.spec # None
Holds(d, c, node) == Truth(And(c.spec, d[node.data].guard))

(* The content of a segment in which a call has replaced.                  *)
Stand(d, c, x, node) ==
  IF IsGiven(c, node) THEN x[<<"argument", node.index + 1>>]
  ELSE IF ~IsDecided(c, node) THEN Content(d, <<node>>)
  ELSE IF Holds(d, c, node) THEN x[<<"data", node.data>>] ELSE <<>>

StandAll(d, c, x, seg) == FlattenSeq([k \in DOMAIN seg |-> Stand(d, c, x, seg[k])])

Expansions(d, c) ==
  LET x[u \in Units(d, c)] == StandAll(d, c, x, Inside(d, c, u)) IN x

Expand(d, c, seg) == StandAll(d, c, Expansions(d, c), seg)

(* A page after a segment whose left margin is m.                          *)
Lay(d, c, x, page, node, m) ==
  IF node.type = "break" THEN Feed(page, node)
  ELSE IF node.type \in Texts THEN Write(page, Info(d, node).text, m + Info(d, node).indent)
  ELSE IF IsGiven(c, node)
       THEN x[<<"argument", node.index + 1>>][Maximum(page.column, m + node.indent)][page]
  ELSE IF IsDecided(c, node) /\ Holds(d, c, node) THEN x[<<"data", node.data>>][m][page]
  ELSE page

LayAll(d, c, x, page, seg, m) ==
  Through([k \in DOMAIN seg |-> [p \in Pages |-> Lay(d, c, x, p, seg[k], m)]], page)

Layouts(d, c) ==
  LET x[u \in Units(d, c)] ==
        [m \in Int |-> [page \in Pages |-> LayAll(d, c, x, page, Inside(d, c, u), m)]]
  IN x

LayOut(d, c, seg) == LayAll(d, c, Layouts(d, c), Page, seg, 0)

-----------------------------------------------------------------------------
Scanned == pc = "scan" /\ i > Len(nodes)
Written(seg) == \A k \in DOMAIN seg : seg[k].type \in Texts \cup {"break"}

(* The scan stays in the segment, whose references lead somewhere.         *)
TypeOK ==
  /\ pc \in {"idle", "scan"}
  /\ i \in 1 .. Len(nodes) + 1
  /\ indent \in Nat
  /\ DataType(data)
  /\ nodes \in Segments(data) /\ start \in Segments(data)

(* Replacing in place, with what was put in scanned again, amounts to the  *)
(* recursive expansion of wildcards and of the conditions that hold.       *)
Expanded == Scanned => Content(data, nodes) = Expand(data, call, start)

(* While it changes what lies ahead, the scan knows the column where       *)
(* generate() will be.                                                     *)
ColumnTracked ==
  LET before == SubSeq(nodes, 1, i - 1)
  IN pc = "scan" /\ Written(before) => indent = Generate(data, before).column

(* All lines of a replacement start at the column of its wildcard, however *)
(* deep replacements nest.                                                 *)
Aligned ==
  Scanned /\ Written(nodes) => Generate(data, nodes).texts = LayOut(data, call, start).texts

(* A call changes no other segment: neither its arguments, nor those of    *)
(* the calls to come, nor a copy of the template.                          *)
OthersIntact ==
  [][\A seg \in {start} \cup UNION {Range(calls[k].args) : k \in DOMAIN calls} :
       seg # None => Whole(data', seg) = Whole(data, seg)]_vars

(* Replacements that do not hold their own wildcards come to an end.       *)
ReplaceEnds == pc = "scan" ~> pc = "idle"
=============================================================================
