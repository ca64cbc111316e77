----------------------------- MODULE MCSegment -----------------------------
(***************************************************************************)
(* Small templates, with what the generator's own ones have: wildcards in  *)
(* replacements, conditions in conditions, strings that segments share,    *)
(* replacements of several lines, and calls that leave wildcards to later  *)
(* ones.                                                                   *)
(***************************************************************************)
EXTENDS Segment

CONSTANT MaxNodes   \* bound: the nodes of a template

Unique == Named("unique")
Declaration == Named("declaration")

MCData ==
  <<StringData(3, 1),
    ConditionalData(<<View(1, 0), Wildcard(1, 2)>>, Unique),
    ConditionalData(<<Shared("string", 1)>>, Not(Unique)),
    ConditionalData(<<Shared("conditional", 2), Break(1), Shared("conditional", 3)>>, And(Declaration, Unique))>>

(* "#" makes a text ignore its indent.                                     *)
Directive == View(2, -50)

Pieces ==
  {Break(2), Directive, View(4, 3), Wildcard(0, 1), Wildcard(1, 0),
   Shared("string", 1), Shared("conditional", 3), Shared("conditional", 4)}

MCTemplates == UNION {[1 .. n -> Pieces] : n \in 1 .. MaxNodes}

Lines == <<Shared("string", 1), Break(1), View(5, 1)>>
First == {<<>>, Lines, <<Wildcard(1, 1), Break(1), Shared("conditional", 4)>>, None}
Second == {<<>>, Lines, <<Shared("conditional", 3)>>}
Specs == {None, Unique, And(Declaration, Unique), And(Declaration, Not(Unique))}

Both == {[args |-> <<a, b>>, spec |-> s] : a \in First, b \in Second, s \in Specs}
One == {[args |-> <<a>>, spec |-> None] : a \in First}

MCCalls == {<<c>> : c \in Both} \cup {<<c, d>> : c \in One, d \in Both}
=============================================================================
