--------------------------- MODULE ConditionalTree ---------------------------
(***************************************************************************)
(* ConditionalTree of tools/VmaHppGenerator.cpp: the #if blocks of the     *)
(* header vk_mem_alloc.h, scanned once, and the traversal that opens and   *)
(* closes the same blocks in a generated header, so that what is generated *)
(* from a place of the source is under the conditions of that place.       *)
(*                                                                         *)
(* The n-th directive stands at source position n; position p of a symbol  *)
(* is after the first p directives.  A directive is known by its number in *)
(* statements, counted from 0 as the code does, and its text is left out.  *)
(***************************************************************************)
EXTENDS Integers, Sequences, SequencesExt

CONSTANT MaxDirectives   \* bound: the directives of a source

ASSUME BoundAssumption == MaxDirectives \in Nat

(* The ends of int: what no position of a directive or of a symbol reaches.*)
Lowest == -2
Highest == MaxDirectives + 1
Reset == -1

(* "guard" is an #ifndef of the ignoredDirectives, such as a header guard. *)
Kinds == {"if", "guard", "elif", "else", "endif"}

VARIABLES
  phase,        \* what the program is doing
  source,       \* the directives scanned so far
  blocks,       \* C's open blocks: the first and latest directive of each
  conditions,   \* per directive, the conditions that C puts what follows under
  statements,   \* the tree
  stack,        \* the open blocks' latest statements, -1 for a guard
  statement,    \* the traversal's place in the tree
  position,     \* the source position navigated to
  low, high,    \* the range of the binary search
  target,       \* the statement the position belongs to
  i,            \* the descent's place
  ascent,       \* directives going up, in order; at the end those going down too
  descent,      \* directives going down, in order
  open          \* what the generated text has open: per block, its directives

tree == <<source, blocks, conditions, statements, stack>>
search == <<low, high, target, i>>
text == <<ascent, descent>>
vars == <<phase, source, blocks, conditions, statements, stack, statement, position,
          low, high, target, i, ascent, descent, open>>

Statement(type, p, down, up) ==
  [type |-> type, sourcePosition |-> p, descent |-> down, ascent |-> up]

at(n) == statements[n + 1]
current == at(statement)

(* The latest statement of the innermost block that is no guard.           *)
findTop(s, skip) ==
  s[CHOOSE m \in 1 .. Len(s) - skip :
      /\ s[m] # -1
      /\ \A l \in m + 1 .. Len(s) - skip : s[l] = -1]

-----------------------------------------------------------------------------
(* What C says.  The conditions of a place are the branches that it is in: *)
(* per block, the positions of its directives up to there.                 *)

(* The conditions after one more directive; one without a block leaves     *)
(* something that no source has.                                           *)
Misplaced == <<<<0>>>>
After(c, kind, p) ==
  IF kind = "if" THEN Append(c, <<p>>)
  ELSE IF c = <<>> THEN Misplaced
  ELSE IF kind = "endif" THEN Front(c)
  ELSE [c EXCEPT ![Len(c)] = Append(@, p)]

Conditions(p) == IF p < 1 THEN <<>> ELSE conditions[p]

(* A guard is no condition.                                                *)
Ignored(kind) == kind = "guard" \/ (kind # "if" /\ Last(blocks).first = "guard")

Blocks(kind) ==
  IF kind \in {"if", "guard"} THEN Append(blocks, [first |-> kind, latest |-> kind])
  ELSE IF kind = "endif" THEN Front(blocks)
  ELSE [blocks EXCEPT ![Len(blocks)].latest = kind]

-----------------------------------------------------------------------------
(* The constructor scans the source.                                       *)

Init ==
  /\ phase = "scan"
  /\ source = <<>>
  /\ blocks = <<>>
  /\ conditions = <<>>
  /\ statements = <<Statement("if", Lowest, -1, -1)>>
  /\ stack = <<0>>
  /\ statement = 0
  /\ position = Reset
  /\ low = 0 /\ high = 0 /\ target = 0 /\ i = 0
  /\ ascent = <<>> /\ descent = <<>>
  /\ open = <<>>

(* The next directive; the source is one that a compiler takes.            *)
Scan(kind) ==
  /\ phase = "scan"
  /\ Len(source) < MaxDirectives
  /\ kind \notin {"if", "guard"} => blocks # <<>>
  /\ kind \in {"elif", "else"} => Last(blocks).latest # "else"
  /\ source' = Append(source, kind)
  /\ blocks' = Blocks(kind)
  /\ conditions' = LET c == Conditions(Len(source))
                   IN Append(conditions,
                             IF Ignored(kind) THEN c ELSE After(c, kind, Len(source')))
  /\ UNCHANGED <<phase, statement, position, search, text, open>>

ScanIf ==
  /\ Scan("if")
  /\ stack' = Append(stack, Len(statements))
  /\ statements' =
       Append(statements, Statement("if", Len(source'), findTop(stack, 0), -1))

ScanGuard ==
  /\ Scan("guard")
  /\ stack' = Append(stack, -1)
  /\ UNCHANGED statements

(* The directives of a guard's block leave no statement.                   *)
ScanInGuard(kind) ==
  /\ Scan(kind)
  /\ Last(stack) = -1
  /\ stack' = IF kind = "endif" THEN Front(stack) ELSE stack
  /\ UNCHANGED statements

(* statements with one more, that follows top in its block.                *)
Follow(top, type, p, up) ==
  Append([statements EXCEPT ![top + 1].ascent = Len(statements)],
         Statement(type, p, top, up))

ScanBranch(kind) ==
  /\ Scan(kind)
  /\ Last(stack) # -1
  /\ stack' = Append(Front(stack), Len(statements))
  /\ statements' = Follow(Last(stack), kind, Len(source'), -1)

(* Faulty: an #endif leads back into its own block.                        *)
ScanEndifInside ==
  /\ Scan("endif")
  /\ Last(stack) # -1
  /\ stack' = Front(stack)
  /\ statements' = Follow(Last(stack), "endif", Len(source'), Last(stack))

(* The ascent of an #endif leads to the branch around its block.           *)
ScanEndif ==
  /\ Scan("endif")
  /\ Last(stack) # -1
  /\ stack' = Front(stack)
  /\ statements' = Follow(Last(stack), "endif", Len(source'), findTop(stack, 1))

EndOfSource ==
  /\ phase = "scan"
  /\ phase' = "close"
  /\ UNCHANGED <<tree, statement, position, search, text, open>>

(* Blocks without an #endif are closed, the whole source among them.       *)
CloseHanging ==
  /\ phase = "close"
  /\ stack # <<>>
  /\ stack' = Front(stack)
  /\ IF Last(stack) = -1
     THEN UNCHANGED statements
     ELSE LET up == IF Len(stack) = 1 THEN -1 ELSE findTop(stack, 1)
          IN statements' = Follow(Last(stack), "endif", Highest, up)
  /\ UNCHANGED <<phase, source, blocks, conditions, statement, position, search, text, open>>

(* traverse() starts at the root.                                          *)
Traverse ==
  /\ phase = "close"
  /\ stack = <<>>
  /\ phase' = "idle"
  /\ statement' = 0
  /\ UNCHANGED <<tree, position, search, text, open>>

-----------------------------------------------------------------------------
(* Traversal::navigate.                                                    *)

Navigate(p) ==
  /\ phase = "idle"
  /\ phase' = "ascend"
  /\ position' = p
  /\ ascent' = <<>>
  /\ descent' = <<>>
  /\ UNCHANGED <<tree, statement, search, open>>

(* Faulty: a position right at the current statement counts as before it.  *)
OutsideAtStart ==
  position >= at(current.ascent).sourcePosition \/ position <= current.sourcePosition

(* Faulty: a position right at the next statement counts as before that.   *)
OutsideAfterEnd ==
  position > at(current.ascent).sourcePosition \/ position < current.sourcePosition

(* The position is not between the current statement and the next of its   *)
(* block.                                                                  *)
Outside == position >= at(current.ascent).sourcePosition \/ position < current.sourcePosition

(* Going up from an #endif to the branch around it puts out nothing.       *)
Ascend ==
  /\ phase = "ascend"
  /\ Outside
  /\ ascent' = IF at(current.ascent).sourcePosition > current.sourcePosition
               THEN Append(ascent, current.ascent)
               ELSE ascent
  /\ statement' = current.ascent
  /\ UNCHANGED <<phase, tree, position, search, descent, open>>

StartSearch ==
  /\ phase = "ascend"
  /\ ~Outside
  /\ phase' = "search"
  /\ low' = statement
  /\ high' = current.ascent
  /\ UNCHANGED <<tree, statement, position, target, i, text, open>>

(* Faulty: the middle is rounded up.                                       *)
MiddleUp == (low + high + 1) \div 2

Middle == (low + high) \div 2

Halve ==
  /\ phase = "search"
  /\ Middle > low
  /\ IF position < at(Middle).sourcePosition
     THEN high' = Middle /\ low' = low
     ELSE low' = Middle /\ high' = high
  /\ UNCHANGED <<phase, tree, statement, position, target, i, text, open>>

Found ==
  /\ phase = "search"
  /\ Middle = low
  /\ target' = Middle
  /\ phase' = "leave"
  /\ UNCHANGED <<tree, statement, position, low, high, i, text, open>>

(* After an #endif the position belongs to the branch around its block.    *)
LeaveEnded ==
  /\ phase = "leave"
  /\ at(target).type = "endif"
  /\ target' = at(target).ascent
  /\ UNCHANGED <<phase, tree, statement, position, low, high, i, text, open>>

(* Faulty: an #endif may be the target.                                    *)
StartDescentAnywhere ==
  /\ phase = "leave"
  /\ i' = target
  /\ phase' = "descend"
  /\ UNCHANGED <<tree, statement, position, low, high, target, text, open>>

StartDescent ==
  /\ phase = "leave"
  /\ at(target).type # "endif"
  /\ i' = target
  /\ phase' = "descend"
  /\ UNCHANGED <<tree, statement, position, low, high, target, text, open>>

Descend ==
  /\ phase = "descend"
  /\ i # statement
  /\ descent' = <<i>> \o descent
  /\ i' = at(i).descent
  /\ UNCHANGED <<phase, tree, statement, position, low, high, target, ascent, open>>

(* The text returned goes into the generated header.                       *)
Return ==
  /\ phase = "descend"
  /\ i = statement
  /\ statement' = target
  /\ ascent' = ascent \o descent
  /\ low' = 0 /\ high' = 0 /\ target' = 0 /\ i' = 0
  /\ phase' = "put"
  /\ UNCHANGED <<tree, position, descent, open>>

(* There C reads it, directive by directive.                               *)
Put ==
  /\ phase = "put"
  /\ ascent # <<>>
  /\ open' = After(open, at(Head(ascent)).type, at(Head(ascent)).sourcePosition)
  /\ ascent' = Tail(ascent)
  /\ UNCHANGED <<phase, tree, statement, position, search, descent>>

GoOn ==
  /\ phase = "put"
  /\ ascent = <<>>
  /\ phase' = "idle"
  /\ UNCHANGED <<tree, statement, position, search, text, open>>

Step ==
  \/ CloseHanging
  \/ Traverse
  \/ Ascend
  \/ StartSearch
  \/ Halve
  \/ Found
  \/ LeaveEnded
  \/ StartDescent
  \/ Descend
  \/ Return
  \/ Put
  \/ GoOn

Next ==
  \/ ScanIf
  \/ ScanGuard
  \/ \E kind \in {"elif", "else", "endif"} : ScanInGuard(kind)
  \/ \E kind \in {"elif", "else"} : ScanBranch(kind)
  \/ ScanEndif
  \/ EndOfSource
  \/ \E p \in Reset .. Len(source) : Navigate(p)
  \/ Step

Spec == Init /\ [][Next]_vars

(* A sequential program goes on once it has begun.                         *)
FairSpec == Spec /\ WF_vars(Step)

-----------------------------------------------------------------------------
Numbers == 0 .. Len(statements) - 1

(* The statements that at() is asked for exist: neither a traversal nor a  *)
(* search ever leaves the tree, and none rests on an #endif.               *)
TypeOK ==
  /\ phase \in {"scan", "close", "idle", "ascend", "search", "leave", "descend",
               "put"}
  /\ source \in Seq(Kinds) /\ Len(source) <= MaxDirectives
  /\ blocks \in Seq([first : {"if", "guard"}, latest : Kinds])
  /\ conditions \in Seq(Seq(Seq(1 .. Len(source)))) /\ Len(conditions) = Len(source)
  /\ statements \in Seq([type : Kinds \ {"guard"}, sourcePosition : Lowest .. Highest,
                         descent : Numbers \cup {-1}, ascent : Numbers \cup {-1}])
  /\ stack \in Seq(Numbers \cup {-1})
  /\ {statement, low, high, target, i} \subseteq Numbers
  /\ position \in Reset .. Len(source)
  /\ ascent \in Seq(Numbers) /\ descent \in Seq(Numbers)
  /\ open \in Seq(Seq(1 .. Highest))
  /\ phase = "ascend" => current.ascent # -1
  /\ phase = "idle" => current.type # "endif"

(* What is generated from a place of the source is under the conditions    *)
(* of that place: the same blocks, in the same branches, nothing else.     *)
ContextMatches == phase = "idle" => open = Conditions(position)

(* The search runs between two statements around the position.             *)
SearchAround ==
  phase = "search" =>
    /\ low < high
    /\ at(low).sourcePosition <= position
    /\ position < at(high).sourcePosition

(* The text closes a block, or leaves its branch for the next, only if the *)
(* place navigated to is not in that branch: no text of it is cut in two.  *)
KeepsCommon ==
  phase = "put" /\ ascent # <<>> /\ at(Head(ascent)).type # "if" =>
    ~IsPrefix(open, Conditions(position))

(* navigate() returns, and so does the constructor.                        *)
NavigationEnds == phase \notin {"scan", "idle"} ~> phase = "idle"

-----------------------------------------------------------------------------
(* The inductive invariant behind them.  The tree is in the order of the   *)
(* source, with what closes a hanging block at the end.                    *)
Ordered ==
  /\ \A n \in Numbers \ {0} :
       at(n).sourcePosition \in 1 .. Len(source) \/ at(n).sourcePosition = Highest
  /\ \A n \in Numbers :
       at(n).sourcePosition = Highest => at(n).type = "endif" /\ phase # "scan"
  /\ \A m, n \in Numbers :
       m < n => \/ at(m).sourcePosition < at(n).sourcePosition
                \/ at(m).sourcePosition = Highest /\ at(n).sourcePosition = Highest

(* What closes the whole source, -1 before.                                *)
SourceEnd == at(0).ascent

(* The chains of descent and ascent.                                       *)
Linked ==
  /\ Len(statements) > 0
  /\ at(0).type = "if" /\ at(0).sourcePosition = Lowest /\ at(0).descent = -1
  /\ SourceEnd # -1 =>
       /\ at(SourceEnd).type = "endif" /\ at(SourceEnd).sourcePosition = Highest
       /\ at(SourceEnd).descent = 0 /\ at(SourceEnd).ascent = -1
  /\ \A n \in Numbers \ {0} :
       /\ at(n).descent \in 0 .. n - 1
       /\ at(at(n).descent).type # "endif"
       /\ at(n).type # "if" => at(at(n).descent).ascent = n
       /\ at(n).type = "endif" /\ n # SourceEnd =>
            at(n).ascent \in 0 .. n - 1 /\ at(at(n).ascent).type # "endif"
  /\ \A n \in Numbers :
       at(n).type # "endif" /\ at(n).ascent # -1 =>
         /\ at(n).ascent > n
         /\ at(at(n).ascent).type # "if" /\ at(at(n).ascent).descent = n

(* Nothing in a branch leads out of it but its own ascent.                 *)
Nested ==
  \A m, n \in Numbers :
    m < n /\ at(m).type # "endif" /\ (at(m).ascent = -1 \/ n < at(m).ascent) =>
      at(n).descent >= m /\ (at(n).type = "endif" => at(n).ascent >= m)

(* Place l is the latest of the first m of stack s that is no guard.       *)
IsTop(s, l, m) == /\ l \in 1 .. m /\ s[l] # -1
                  /\ \A n \in l + 1 .. m : s[n] = -1

(* The stack has the branches that are open, innermost last.               *)
StackedOpen ==
  \A n \in Numbers :
    at(n).type # "endif" /\ at(n).ascent = -1 <=> \E m \in 1 .. Len(stack) : stack[m] = n

InOrder(s) ==
  /\ \A l, m \in 1 .. Len(s) : l < m /\ s[l] # -1 /\ s[m] # -1 => s[l] < s[m]
  /\ s # <<>> => s[1] = 0
  /\ \A m \in 1 .. Len(s) : \E l \in 1 .. m : IsTop(s, l, m)

StackedInOrder == InOrder(stack)

StackedBlocks ==
  /\ phase \notin {"scan", "close"} => stack = <<>>
  /\ phase = "scan" =>
       /\ Len(stack) = Len(blocks) + 1
       /\ \A m \in 1 .. Len(blocks) : stack[m + 1] = -1 <=> blocks[m].first = "guard"

(* The conditions after statement n.                                       *)
Path(n) == Conditions(at(IF at(n).type = "endif" THEN at(n).ascent ELSE n).sourcePosition)

(* The text of a statement, after that of the one before in its block or   *)
(* around it, makes the conditions after it.                               *)
PathsFollow ==
  \A n \in Numbers \ {0} :
    n # SourceEnd => Path(n) = After(Path(at(n).descent), at(n).type, at(n).sourcePosition)

(* Up to the next statement the conditions stay the same.                  *)
PathsLast ==
  \A n \in Numbers, p \in Reset .. Len(source) :
    /\ at(n).sourcePosition <= p
    /\ n + 1 \in Numbers => p < at(n + 1).sourcePosition
    => Conditions(p) = Path(n)

(* A block on the stack is one more than the one around it.                *)
PathsNest ==
  \A m \in 2 .. Len(stack), l \in 1 .. Len(stack) :
    stack[m] # -1 /\ IsTop(stack, l, m - 1) =>
      Path(stack[m]) # <<>> /\ Front(Path(stack[m])) = Path(stack[l])

(* The branch that the scan is in has the conditions of its place.         *)
PathsOpen ==
  phase = "scan" =>
    \A l \in 1 .. Len(stack) :
      IsTop(stack, l, Len(stack)) => Path(stack[l]) = Conditions(Len(source))

(* The last block after a branch's directive is the branch's own.          *)
PathsOwn ==
  \A n \in Numbers \ {0} :
    at(n).type # "endif" =>
      Path(n) # <<>> /\ Last(Last(Path(n))) = at(n).sourcePosition

(* Each block of the conditions of a place is one that the place is in.    *)
Around(p) ==
  \A b \in 1 .. Len(Conditions(p)) :
    /\ \A a \in 1 .. b - 1 : Last(Conditions(p)[a]) < Last(Conditions(p)[b])
    /\ \E n \in Numbers \ {0} :
         /\ at(n).type # "endif"
         /\ at(n).sourcePosition = Last(Conditions(p)[b]) /\ at(n).sourcePosition <= p
         /\ at(n).ascent = -1 \/ p < at(at(n).ascent).sourcePosition

BlocksAround == \A p \in 1 .. Len(source) : Around(p)

TreeInv ==
  /\ Ordered /\ Linked /\ Nested
  /\ StackedOpen /\ StackedInOrder /\ StackedBlocks
  /\ PathsFollow /\ PathsLast /\ PathsNest /\ PathsOpen
  /\ PathsOwn /\ BlocksAround

(* Each directive of text t follows what is open before it, and none       *)
(* leaves a branch that the place navigated to is in.                      *)
Walk(t) ==
  \A m \in 1 .. Len(t) :
    /\ t[m] \in Numbers \ {0, SourceEnd}
    /\ Path(at(t[m]).descent) = IF m = 1 THEN open ELSE Path(t[m - 1])
    /\ at(t[m]).type # "if" => \/ position < at(at(t[m]).descent).sourcePosition
                               \/ position >= at(t[m]).sourcePosition

Reached(t) == IF t = <<>> THEN open ELSE Path(Last(t))

(* The descent leads from i to target.                                     *)
Chain ==
  /\ \A m \in 1 .. Len(descent) :
       /\ descent[m] \in statement + 1 .. target
       /\ at(descent[m]).descent = IF m = 1 THEN i ELSE descent[m - 1]
  /\ target = IF descent = <<>> THEN i ELSE Last(descent)

AtTarget == target >= statement /\ target < current.ascent
            /\ at(target).sourcePosition <= position /\ Path(target) = Conditions(position)

NavigationInv ==
  /\ statement # SourceEnd
  /\ phase \in {"scan", "close"} => statement = 0 /\ position = Reset /\ open = <<>>
  /\ phase \in {"idle", "put", "search", "leave", "descend"} => current.type # "endif"
  /\ phase \in {"idle", "put"} => Path(statement) = Conditions(position)
  /\ phase = "idle" => open = Conditions(position)
  /\ phase = "put" => Walk(ascent) /\ Reached(ascent) = Conditions(position)
  /\ phase \in {"ascend", "search", "leave", "descend"} =>
       Walk(ascent) /\ Reached(ascent) = Path(statement)
  /\ phase \in {"ascend", "search", "leave"} => descent = <<>>
  /\ phase = "search" => statement <= low /\ high <= current.ascent
  /\ phase \in {"leave", "descend"} => AtTarget
  /\ phase = "descend" => at(target).type # "endif" /\ i \in statement .. target /\ Chain

IInv == TypeOK /\ SearchAround /\ TreeInv /\ NavigationInv

=============================================================================
