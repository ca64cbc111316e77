------------------------------ MODULE Emission ------------------------------
(***************************************************************************)
(* How generateStructs(), generateEnums() and generateHandles() of tools/  *)
(* VmaHppGenerator.cpp emit what has parts that may be under #if, and how  *)
(* resolve() puts the directives back.                                     *)
(*                                                                         *)
(* The generator visits the members of a struct, the entries of an enum or *)
(* the methods of a handle once and grows several lists of text side by    *)
(* side: parameters, initializers, setters, fields and so on.  Into each   *)
(* it puts the place of the member, a separator and the member's text.  A  *)
(* template strings the lists and its own text together, and resolve()     *)
(* goes through the nodes, replacing each place by the directives that     *)
(* ConditionalTree navigates through.  All lists of a kind of declaration  *)
(* are like one of the two that the model has for it:                      *)
(*   struct    all members; those of the enhanced constructor, without the *)
(*             sizes deduced from arrays                                   *)
(*   dispatch  the members of VulkanFunctions once more, for functions-    *)
(*             FromDispatcher(): types of the functions; initializers      *)
(*   enum      entries; flags, which are the entries that are bits         *)
(*   handle    declarations and definitions of methods                     *)
(***************************************************************************)
EXTENDS ConditionalTree

CONSTANTS
  MaxMembers,   \* bound: the members of a struct, the entries of an enum
  MaxFunctions  \* bound: the methods of a handle, the members of VulkanFunctions

ASSUME MembersAssumption == MaxMembers \in Nat /\ MaxFunctions \in Nat

VARIABLES
  type,      \* what is emitted, "none" at first
  start,     \* the position of its typedef
  members,   \* the positions of its members
  skip,      \* sizes deduced from the array after them; entries that are no bits;
             \* members that are no functions
  nodes,     \* what resolve() has yet to go through
  out        \* text that is out, with what was open around it

pieces == <<type, start, members, skip, nodes, out>>
allVars == <<vars, pieces>>

Place(p) == [node |-> "place", at |-> p]
Text(what, list, p) == [node |-> what, list |-> list, at |-> p]

Types == {"struct", "dispatch", "enum", "handle"}
ListsOf(t) == CASE t = "struct" -> {"all", "enhanced"}
                [] t = "dispatch" -> {"functions", "initializers"}
                [] t = "enum" -> {"entries", "flags"}
                [] t = "handle" -> {"declarations", "definitions"}

InList(m, list) == list \notin {"enhanced", "functions", "flags"} \/ m \notin skip
Separated(list) == list \notin {"functions", "declarations", "definitions"}

(* Faulty: the separator comes before the member's directives.             *)
PieceUnplaced(m, list, some) ==
  (IF InList(m, list) /\ some THEN <<Text("separator", list, members[m])>> ELSE <<>>)
  \o <<Place(members[m])>>
  \o (IF InList(m, list) THEN <<Text("member", list, members[m])>> ELSE <<>>)

(* What a member adds to a list that wants a separator or does not.        *)
Piece(m, list, some) ==
  <<Place(members[m])>>
  \o (IF InList(m, list) /\ some THEN <<Text("separator", list, members[m])>> ELSE <<>>)
  \o (IF InList(m, list) THEN <<Text("member", list, members[m])>> ELSE <<>>)

(* A separator is wanted when the list has text already.                   *)
Pieces(list) ==
  LET after[m \in 0 .. Len(members)] ==
        IF m = 0 THEN <<>>
        ELSE after[m - 1] \o Piece(m, list, /\ Separated(list)
                                            /\ \E n \in 1 .. m - 1 : InList(n, list))
  IN after[Len(members)]

(* Faulty: the place after the last member is left as it is.               *)
ListUnclosed(list, p) == Pieces(list)

(* memberPieces << navigate(match) after the last member.                  *)
List(list, p) == Pieces(list) \o <<Place(p)>>

(* The entries of an enum: a comma after each, the last one popped.        *)
Entries ==
  LET after[m \in 0 .. Len(members)] ==
        IF m = 0 THEN <<>>
        ELSE after[m - 1]
             \o Piece(m, "entries", FALSE)
             \o (IF m < Len(members) THEN <<Text("separator", "entries", members[m])>>
                 ELSE <<>>)
  IN after[Len(members)] \o <<Place(start)>>

Body == <<Text("body", "", start)>>

StructTemplate ==
  <<Place(start)>> \o Body \o List("all", start) \o Body \o List("enhanced", start) \o Body
  \o <<Place(Reset)>>

(* What functionsFromDispatcher() needs, after the struct VulkanFunctions. *)
DispatchTemplate ==
  <<Place(start)>> \o Body \o List("functions", Reset) \o Body
  \o List("initializers", Reset) \o Body

(* The enum itself, then its traits.  Nothing leads back to the root.      *)
EnumTemplate ==
  <<Place(start)>> \o Body \o Entries \o Body
  \o <<Place(start)>> \o Body \o List("flags", start) \o Body

(* The class with its declarations; after all classes, its definitions.    *)
HandleTemplate ==
  <<Place(start)>> \o Body \o List("declarations", start) \o Body
  \o List("definitions", start) \o <<Place(Reset)>>

Template == CASE type = "struct" -> StructTemplate
              [] type = "dispatch" -> DispatchTemplate
              [] type = "enum" -> EnumTemplate
              [] type = "handle" -> HandleTemplate

-----------------------------------------------------------------------------
(* The declarations of vk_mem_alloc.h: the first member of a list is there *)
(* whenever others are, and so is an array with its size.  All enums and   *)
(* VulkanFunctions are unconditional.                                      *)
Declared(t, s, ms, skipped) ==
  LET inside(p, q) == IsPrefix(Conditions(p), Conditions(q))
      leads(m, S) == \A n \in S : n < m => n \notin S
  IN /\ \A m \in DOMAIN ms : inside(s, ms[m])
     /\ t # "handle" =>
          \A S \in {DOMAIN ms, DOMAIN ms \ skipped} :
            \A m, n \in S : leads(m, S) => inside(ms[m], ms[n])
     /\ t = "struct" =>
          \A z \in skipped : z < Len(ms) /\ Conditions(ms[z]) = Conditions(ms[z + 1])
     /\ t \in {"enum", "dispatch"} => Conditions(s) = <<>>
     /\ t = "handle" => skipped = {}

Declare ==
  /\ phase = "idle"
  /\ type = "none"
  /\ \E t \in Types, s \in 0 .. Len(source) :
     \E n \in 1 .. IF t \in {"struct", "enum"} THEN MaxMembers ELSE MaxFunctions :
       \E ms \in [1 .. n -> s .. Len(source)], skipped \in SUBSET (1 .. n) :
         /\ \A m \in 1 .. n - 1 : ms[m] <= ms[m + 1]
         /\ Declared(t, s, ms, skipped)
         /\ type' = t /\ start' = s /\ members' = ms /\ skip' = skipped
         /\ nodes' = Template'
  /\ UNCHANGED <<vars, out>>

(* resolve(), node by node.                                                *)
ResolvePlace ==
  /\ nodes # <<>>
  /\ Head(nodes).node = "place"
  /\ Navigate(Head(nodes).at)
  /\ nodes' = Tail(nodes)
  /\ UNCHANGED <<type, start, members, skip, out>>

ResolveText ==
  /\ phase = "idle"
  /\ nodes # <<>>
  /\ Head(nodes).node # "place"
  /\ out' = Append(out, [what |-> Head(nodes), under |-> open])
  /\ nodes' = Tail(nodes)
  /\ UNCHANGED <<vars, type, start, members, skip>>

(* The source is read before anything is emitted.                          *)
ScanSource ==
  \/ ScanIf
  \/ ScanGuard
  \/ \E kind \in {"elif", "else", "endif"} : ScanInGuard(kind)
  \/ \E kind \in {"elif", "else"} : ScanBranch(kind)
  \/ ScanEndif
  \/ EndOfSource

EmissionInit ==
  /\ Init
  /\ type = "none" /\ start = Reset /\ members = <<>> /\ skip = {}
  /\ nodes = <<>> /\ out = <<>>

EmissionNext ==
  \/ ScanSource /\ UNCHANGED pieces
  \/ Declare
  \/ ResolvePlace
  \/ ResolveText
  \/ Step /\ UNCHANGED pieces

EmissionSpec == EmissionInit /\ [][EmissionNext]_allVars

-----------------------------------------------------------------------------
(* A configuration takes one branch of each block, or none: the position   *)
(* of the last directive of what it takes.                                 *)
Heads == {p \in DOMAIN source : source[p] = "if"}
Configurations == [Heads -> DOMAIN source \cup {0}]
Shown(c, under) == \A n \in DOMAIN under : c[under[n][1]] = Last(under[n])

Emitted == nodes = <<>> /\ type # "none"

(* The nodes at the places Left of t are members with a separator between  *)
(* each two.                                                               *)
Alternate(t, Left, list) ==
  \A n \in Left :
    /\ (\A m \in Left : m >= n) => t[n].node = "member"
    /\ (\A m \in Left : m <= n) /\ list # "entries" => t[n].node = "member"
    /\ \A m \in Left :
         m < n /\ (\A k \in Left : k <= m \/ k >= n) =>
           (t[m].node = "member") # (t[n].node = "member")

Written == [n \in DOMAIN out |-> out[n].what]

(* In every configuration, what is left of a list is members with one      *)
(* separator between each two: none leads, none is missing, and only an    *)
(* enum's entries, of which C++ allows it, may trail one.                  *)
ListsWellFormed ==
  Emitted =>
    \A c \in Configurations, list \in {l \in ListsOf(type) : Separated(l)} :
      Alternate(Written,
                {n \in DOMAIN out : out[n].what.list = list /\ Shown(c, out[n].under)},
                list)

(* Each text is there in exactly the configurations that have what it is   *)
(* about: a member's in those of the member, the template's in those of    *)
(* the declaration, whatever the lists around it went through.             *)
TextPlaced == \A n \in DOMAIN out : out[n].under = Conditions(out[n].what.at)

-----------------------------------------------------------------------------
(* The inductive invariant behind them, beside the one of the tree.        *)
Lists == {"", "all", "enhanced", "functions", "initializers", "entries", "flags",
          "declarations", "definitions"}
Places == [node : {"place"}, at : Reset .. Len(source)]
TextNodes == [node : {"body", "separator", "member"}, list : Lists,
              at : Reset .. Len(source)]
Nodes == Places \cup TextNodes

PiecesType ==
  /\ type \in Types \cup {"none"}
  /\ nodes \in Seq(Nodes)
  /\ out \in Seq([what : TextNodes, under : Seq(Seq(1 .. Highest))])
  /\ type = "none" => nodes = <<>> /\ out = <<>>
  /\ type # "none" => phase \notin {"scan", "close"}

(* A text is under the conditions of what comes before it.                 *)
Steady(t) ==
  \A n \in 2 .. Len(t) :
    t[n].node # "place" => Conditions(t[n].at) = Conditions(t[n - 1].at)

(* And the next text under those of the place navigated to.                *)
NextPlaced ==
  nodes # <<>> /\ Head(nodes).node # "place" =>
    Conditions(Head(nodes).at) = Conditions(position)

(* What is left, in a configuration, of a list in the nodes t.             *)
Left(t, c, list) ==
  {n \in DOMAIN t : t[n].node # "place" /\ t[n].list = list /\ Shown(c, Conditions(t[n].at))}

WellFormed(t) ==
  \A c \in Configurations, list \in {l \in ListsOf(type) : Separated(l)} :
    Alternate(t, Left(t, c, list), list)

EmissionInv ==
  /\ IInv
  /\ PiecesType
  /\ TextPlaced
  /\ Steady(nodes) /\ NextPlaced
  /\ type # "none" => WellFormed(Written \o nodes)

=============================================================================
