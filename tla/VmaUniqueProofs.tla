--------------------------- MODULE VmaUniqueProofs ---------------------------
(***************************************************************************)
(* Proofs about VmaUnique and DefragmentationPass for every value of their *)
(* constants: smart and plain handles own each native object once, no      *)
(* deleter makes a bad call, and memory outlives the resource bound to it. *)
(***************************************************************************)
EXTENDS DefragmentationPass, TLAPS

-----------------------------------------------------------------------------
(* The inductive invariant.                                                *)

(* Everything needs its owner, nothing a resource.                         *)
NeedsFit ==
  \A h \in live : /\ parent[h] # Null => parent[h] \in needs[h]
                  /\ \A g \in needs[h] : ClassOf[g] \notin PairClasses

Doomed == {todo[i].to : i \in {j \in 1 .. Len(todo) : todo[j].op = "destroy"}}

(* A pair is memory and a resource, and a cell is in one pair at most.     *)
PairsFit ==
  /\ \A z \in Cells : mate[z] # Null /\ z \notin Doomed =>
                        cls[z] = "Allocation" /\ cls[mate[z]] \in PairClasses
  /\ \A z, w \in Cells : mate[z] = mate[w] /\ mate[z] # Null => z = w

(* What a running call is made of: one or two like tasks on cells of their *)
(* own.                                                                    *)
TodoFits ==
  /\ Len(todo) <= 2
  /\ \A i \in 1 .. Len(todo) :
       /\ todo[i].op = "assign" => /\ todo[i].from \in Cells
                                   /\ cls[todo[i].to] = cls[todo[i].from]
       /\ todo[i].op = "destroy" => /\ todo[i].from = Null
                                    /\ \A z \in Cells : mate[z] = todo[i].to =>
                                         i = 1 /\ Len(todo) = 2 /\ todo[2].to = z
  /\ Len(todo) = 2 => /\ todo[1].op = todo[2].op
                      /\ todo[2].to \notin {todo[1].to, todo[1].from}
                      /\ todo[1].to = todo[1].from <=> todo[2].to = todo[2].from

(* No task destroys what is in use.  The second of two assignments loses   *)
(* its memory to the first; the first of two destructions goes before it.  *)
TodoSafe ==
  \A i \in 1 .. Len(todo) : val[todo[i].to] # Null =>
    \A h \in live :
      /\ parent[h] # val[todo[i].to]
      /\ h # val[todo[i].to] /\ val[todo[i].to] \in needs[h] =>
           /\ Len(todo) = 2
           /\ IF todo[1].op = "assign" THEN i = 1 /\ h = val[todo[2].to]
                                       ELSE i = 2 /\ h = val[todo[1].to]

(* The resource of a pair that is being overwritten has lost its memory.   *)
Lost(h) == /\ Len(todo) = 1
           /\ todo[1].op = "assign" /\ todo[1].to # todo[1].from
           /\ h = val[todo[1].to]

MemoryKept == \A h \in live : needs[h] \subseteq live \/ Lost(h)

IInv == UInv /\ NeedsFit /\ PairsFit /\ TodoFits /\ TodoSafe /\ MemoryKept

-----------------------------------------------------------------------------
(* What holds between calls.                                               *)

CellTypes ==
  /\ cls \in [Cells -> UniqueClasses \cup {"none"}]
  /\ own \in [Cells -> Handles \cup {Null}]
  /\ val \in [Cells -> Handles \cup {Null}]
  /\ mate \in [Cells -> Cells \cup {Null}]

NativeTypes ==
  /\ live \in SUBSET Handles
  /\ parent \in [Handles -> Handles \cup {Null}]
  /\ needs \in [Handles -> SUBSET Handles]
  /\ raw \in SUBSET live

NeedsLive == \A h \in live : needs[h] \subseteq live

(* The invariant is owed only to what a call can reach.                    *)
LEMMA BetweenCalls ==
  ASSUME IInv, Begin
  PROVE  /\ CellTypes /\ NativeTypes /\ OneOwner /\ DeleterFits /\ OwnersLive
         /\ NeedsFit /\ NeedsLive
         /\ \A z \in Cells : mate[z] # Null =>
              cls[z] = "Allocation" /\ cls[mate[z]] \in PairClasses
         /\ \A z, w \in Cells : mate[z] = mate[w] /\ mate[z] # Null => z = w
BY DEF IInv, UInv, TypeOK, CellTypes, NativeTypes, NeedsLive, PairsFit, Doomed,
       MemoryKept, Lost, Begin

LEMMA CallDone ==
  ASSUME IInv, exchange' = exchange, fault' = fault, todo' = <<>>,
         CellTypes', NativeTypes', OneOwner', DeleterFits', OwnersLive',
         NeedsFit', NeedsLive',
         \A z \in Cells : mate'[z] # Null =>
              cls'[z] = "Allocation" /\ cls'[mate'[z]] \in PairClasses,
         \A z, w \in Cells : mate'[z] = mate'[w] /\ mate'[z] # Null => z = w
  PROVE  IInv'
<1>1. exchange \in BOOLEAN /\ fault = FALSE
  BY DEF IInv, UInv, TypeOK
<1>2. TypeOK'
  BY <1>1 DEF TypeOK, CellTypes, NativeTypes
<1>3. PairsFit' /\ TodoFits' /\ TodoSafe' /\ MemoryKept'
  BY DEF PairsFit, TodoFits, TodoSafe, MemoryKept, NeedsLive
<1> QED BY <1>2, <1>3 DEF IInv, UInv

(* A free cell holds nothing and is in no pair.                            *)
LEMMA FreeFacts ==
  ASSUME IInv, Begin, NEW x \in Free
  PROVE  /\ x \in Cells /\ x # Null
         /\ cls[x] = "none" /\ val[x] = Null /\ mate[x] = Null
         /\ \A z \in Cells : mate[z] # x
<1>1. x \in Cells /\ cls[x] = "none"
  BY DEF Free
<1>2. CellTypes /\ NativeTypes /\ OneOwner /\ DeleterFits
      /\ \A z \in Cells : mate[z] # Null =>
           cls[z] = "Allocation" /\ cls[mate[z]] \in PairClasses
  BY BetweenCalls
<1>3. val[x] = Null
  BY <1>1, <1>2, UniqueAssumption
     DEF CellTypes, DeleterFits, PlainClasses, UniqueClasses, OwnedClasses, RootClasses, PairClasses
<1>4. x # Null
  BY <1>1, UniqueAssumption
<1> QED BY <1>1, <1>2, <1>3, <1>4 DEF CellTypes, PairClasses

LEMMA HeldIff ==
  ASSUME NEW h
  PROVE  h \in Held <=> h # Null /\ \E x \in Cells : val[x] = h
BY DEF Held, Vals

(* What a cell holds is live, its own, and owned by nobody else.           *)
LEMMA CellFacts ==
  ASSUME IInv, NEW x \in Cells, val[x] # Null
  PROVE  /\ val[x] \in live /\ val[x] \in Handles /\ val[x] \notin raw
         /\ cls[x] = ClassOf[val[x]] /\ own[x] = parent[val[x]]
         /\ own[x] \in live \cup {Null}
         /\ ~BadDestroy(x)
<1>1. UInv
  BY DEF IInv
<1>2. val[x] \in Held
  BY HeldIff
<1>3. /\ val[x] \in live /\ val[x] \in Handles /\ val[x] \notin raw
      /\ cls[x] = ClassOf[val[x]] /\ own[x] = parent[val[x]]
  BY <1>1, <1>2 DEF UInv, TypeOK, OneOwner, DeleterFits
<1>4. own[x] \in live \cup {Null}
  BY <1>1, <1>3 DEF UInv, OwnersLive
<1> QED BY <1>3, <1>4 DEF BadDestroy

-----------------------------------------------------------------------------
(* New native objects.                                                     *)

(* What S, new handles, has to be for the world to stay as it has to.      *)
LEMMA Newborn ==
  ASSUME IInv, Begin, NEW S \in SUBSET Handles, S \cap live = {},
         live' = live \cup S,
         parent' \in [Handles -> Handles \cup {Null}],
         needs' \in [Handles -> SUBSET Handles],
         \A h \in Handles \ S : parent'[h] = parent[h] /\ needs'[h] = needs[h],
         \A h \in S :
           /\ ClassOf[h] \in RootClasses => parent'[h] = Null
           /\ ClassOf[h] \notin RootClasses =>
                /\ parent'[h] \in live \cap needs'[h]
                /\ ClassOf[parent'[h]] \in RootClasses
           /\ needs'[h] \subseteq live \cup S
           /\ \A g \in needs'[h] : ClassOf[g] \notin PairClasses
  PROVE  OwnersLive' /\ NeedsFit' /\ NeedsLive'
<1>1. NativeTypes /\ OwnersLive /\ NeedsFit /\ NeedsLive
  BY BetweenCalls
<1>2. ASSUME NEW h \in live, h \in Handles
      PROVE  h \notin S /\ parent'[h] = parent[h] /\ needs'[h] = needs[h]
  BY <1>2
<1>3. \A h \in live : h \in Handles
  BY <1>1 DEF NativeTypes
<1>4. OwnersLive'
  BY <1>1, <1>2, <1>3 DEF OwnersLive
<1>5. NeedsFit'
  <2>1. ASSUME NEW h \in S, parent'[h] # Null
        PROVE  parent'[h] \in needs'[h]
    BY <2>1
  <2> QED BY <1>1, <1>2, <1>3, <2>1 DEF NeedsFit
<1>6. NeedsLive'
  BY <1>1, <1>2, <1>3 DEF NeedsLive
<1> QED BY <1>4, <1>5, <1>6

LEMMA OwnersFacts ==
  ASSUME IInv, NEW c \in PlainClasses, NEW p \in Owners(c)
  PROVE  /\ p \in Handles \cup {Null}
         /\ c \in RootClasses => p = Null
         /\ c \notin RootClasses => p \in live /\ ClassOf[p] \in RootClasses
<1>1. live \subseteq Handles
  BY DEF IInv, UInv, TypeOK
<1> QED BY <1>1 DEF Owners, OwnerClass, RootClasses

LEMMA PoolFacts ==
  ASSUME NEW a, NEW S \in PoolsOf(a)
  PROVE  S \subseteq live /\ \A g \in S : ClassOf[g] \notin PairClasses
BY DEF PoolsOf, PairClasses

LEMMA LiveOwner ==
  ASSUME IInv, NEW h \in live, ClassOf[h] \notin RootClasses
  PROVE  parent[h] \in live /\ ClassOf[parent[h]] \in RootClasses
BY DEF IInv, UInv, OwnersLive

LEMMA ClassFacts ==
  ASSUME NEW h \in Handles
  PROVE  ClassOf[h] \in PlainClasses
BY UniqueAssumption

(* A unique handle is made in a free cell.                                 *)
LEMMA FillFacts ==
  ASSUME IInv, Begin, NEW x \in Free, NEW c \in UniqueClasses,
         NEW p \in Handles \cup {Null}, NEW h \in Handles \cup {Null},
         Fill(x, c, p, h), mate' = mate
  PROVE  /\ CellTypes'
         /\ \A z \in Cells : mate'[z] # Null =>
              cls'[z] = "Allocation" /\ cls'[mate'[z]] \in PairClasses
         /\ \A z, w \in Cells : mate'[z] = mate'[w] /\ mate'[z] # Null => z = w
         /\ cls'[x] = c /\ own'[x] = p /\ val'[x] = h /\ val[x] = Null
         /\ \A z \in Cells \ {x} : cls'[z] = cls[z] /\ own'[z] = own[z] /\ val'[z] = val[z]
         /\ Held' = Held \cup ({h} \ {Null})
<1>1. CellTypes
      /\ (\A z \in Cells : mate[z] # Null =>
            cls[z] = "Allocation" /\ cls[mate[z]] \in PairClasses)
      /\ (\A z, w \in Cells : mate[z] = mate[w] /\ mate[z] # Null => z = w)
  BY BetweenCalls
<1>2. x \in Cells /\ val[x] = Null /\ mate[x] = Null /\ \A z \in Cells : mate[z] # x
  BY FreeFacts
<1>3. CellTypes'
  BY <1>1 DEF CellTypes, Fill
<1>4. /\ cls'[x] = c /\ own'[x] = p /\ val'[x] = h
      /\ \A z \in Cells \ {x} : cls'[z] = cls[z] /\ own'[z] = own[z] /\ val'[z] = val[z]
  BY <1>1, <1>2 DEF CellTypes, Fill
<1>5. \A z \in Cells : mate'[z] # Null =>
        cls'[z] = "Allocation" /\ cls'[mate'[z]] \in PairClasses
  BY <1>1, <1>2, <1>4 DEF CellTypes
<1>6. \A g : g \in Held' <=> g # Null /\ \E z \in Cells : val'[z] = g
  BY DEF Held, Vals
<1>7. Held' = Held \cup ({h} \ {Null})
  BY <1>2, <1>4, <1>6, HeldIff
<1> QED BY <1>1, <1>2, <1>3, <1>4, <1>5, <1>7

(* A native object is made for a new unique handle.                        *)
LEMMA UniqueStep ==
  ASSUME IInv, NEW x \in Free, NEW h \in Handles \ live, ClassOf[h] \in UniqueClasses,
         NEW p, NEW S \in SUBSET live,
         ClassOf[h] \in RootClasses => p = Null,
         ClassOf[h] \notin RootClasses => p \in live /\ ClassOf[p] \in RootClasses,
         \A g \in S : ClassOf[g] \notin PairClasses,
         NewUnique(x, h, p, S)
  PROVE  IInv'
<1>1. /\ Begin /\ Fill(x, ClassOf[h], p, h) /\ Bear(h, p, S)
      /\ mate' = mate /\ raw' = raw /\ todo' = todo /\ exchange' = exchange /\ fault' = fault
  BY DEF NewUnique
<1>2. CellTypes /\ NativeTypes /\ OneOwner /\ DeleterFits
  BY <1>1, BetweenCalls
<1>3. p \in Handles \cup {Null} /\ h \in Handles /\ h \notin live /\ Null \notin Handles
  BY <1>2, UniqueAssumption DEF NativeTypes
<1>4. /\ live' = live \cup {h}
      /\ parent' \in [Handles -> Handles \cup {Null}]
      /\ needs' \in [Handles -> SUBSET Handles]
      /\ parent'[h] = p /\ needs'[h] = S \cup ({p} \ {Null})
      /\ \A g \in Handles \ {h} : parent'[g] = parent[g] /\ needs'[g] = needs[g]
  BY <1>1, <1>2, <1>3 DEF Bear, NativeTypes
<1>5. /\ needs'[h] \subseteq live \cup {h}
      /\ \A g \in needs'[h] : ClassOf[g] \notin PairClasses
      /\ ClassOf[h] \in RootClasses => parent'[h] = Null
      /\ ClassOf[h] \notin RootClasses =>
           parent'[h] \in live \cap needs'[h] /\ ClassOf[parent'[h]] \in RootClasses
  <2>1. p # Null => p \in live /\ ClassOf[p] \notin PairClasses
    BY DEF RootClasses, PairClasses
  <2>2. p \in live => p # Null
    BY <1>2, <1>3 DEF NativeTypes
  <2> QED BY <1>4, <2>1, <2>2
<1>6. OwnersLive' /\ NeedsFit' /\ NeedsLive'
  <2>1. {h} \in SUBSET Handles /\ {h} \cap live = {}
    BY <1>3
  <2> QED BY <1>1, <1>4, <1>5, <2>1, Newborn
<1>7. NativeTypes'
  BY <1>1, <1>2, <1>3, <1>4 DEF NativeTypes
<1>8. /\ CellTypes'
      /\ (\A z \in Cells : mate'[z] # Null =>
           cls'[z] = "Allocation" /\ cls'[mate'[z]] \in PairClasses)
      /\ (\A z, w \in Cells : mate'[z] = mate'[w] /\ mate'[z] # Null => z = w)
      /\ cls'[x] = ClassOf[h] /\ own'[x] = p /\ val'[x] = h
      /\ (\A z \in Cells \ {x} : cls'[z] = cls[z] /\ own'[z] = own[z] /\ val'[z] = val[z])
      /\ Held' = Held \cup {h}
  BY <1>1, <1>3, FillFacts
<1>9. OneOwner'
  <2>1. \A z \in Cells \ {x} : val[z] # h
    BY <1>2, <1>3, HeldIff DEF OneOwner
  <2>2. live' = raw' \cup Held' /\ raw' \cap Held' = {}
    BY <1>1, <1>2, <1>3, <1>4, <1>8 DEF OneOwner, NativeTypes
  <2>3. \A z, w \in Cells : val'[z] = val'[w] /\ z # w => val'[z] = Null
    BY <1>2, <1>8, <2>1 DEF OneOwner
  <2> QED BY <2>2, <2>3 DEF OneOwner
<1>10. DeleterFits'
  <2>1. \A z \in Cells \ {x} : val[z] # Null => val[z] \in Handles \ {h}
    BY <1>2, <1>3, HeldIff DEF OneOwner, NativeTypes
  <2> QED BY <1>2, <1>4, <1>8, <2>1 DEF DeleterFits
<1> QED BY <1>1, <1>6, <1>7, <1>8, <1>9, <1>10, CallDone DEF Begin

(* Cells that no creation touches go on fitting.                           *)
LEMMA CellsKept ==
  ASSUME IInv, Begin, UNCHANGED cells
  PROVE  /\ CellTypes' /\ Held' = Held
         /\ \A z \in Cells : mate'[z] # Null =>
              cls'[z] = "Allocation" /\ cls'[mate'[z]] \in PairClasses
         /\ \A z, w \in Cells : mate'[z] = mate'[w] /\ mate'[z] # Null => z = w
         /\ \A z, w \in Cells : val'[z] = val'[w] /\ z # w => val'[z] = Null
<1>1. cls' = cls /\ own' = own /\ val' = val /\ mate' = mate
  BY DEF cells
<1>2. /\ CellTypes /\ OneOwner
      /\ (\A z \in Cells : mate[z] # Null =>
            cls[z] = "Allocation" /\ cls[mate[z]] \in PairClasses)
      /\ (\A z, w \in Cells : mate[z] = mate[w] /\ mate[z] # Null => z = w)
  BY BetweenCalls
<1>3. CellTypes'
  BY <1>1, <1>2 DEF CellTypes
<1>4. Held' = Held
  BY <1>1 DEF Held, Vals
<1> QED BY <1>1, <1>2, <1>3, <1>4 DEF OneOwner

(* Plain handles of S, new native objects, come into the client's hands.   *)
LEMMA PlainStep ==
  ASSUME IInv, Begin, NEW S \in SUBSET Handles, S \cap live = {},
         live' = live \cup S,
         parent' \in [Handles -> Handles \cup {Null}],
         needs' \in [Handles -> SUBSET Handles],
         \A h \in Handles \ S : parent'[h] = parent[h] /\ needs'[h] = needs[h],
         \A h \in S :
           /\ ClassOf[h] \in RootClasses => parent'[h] = Null
           /\ ClassOf[h] \notin RootClasses =>
                /\ parent'[h] \in live \cap needs'[h]
                /\ ClassOf[parent'[h]] \in RootClasses
           /\ needs'[h] \subseteq live \cup S
           /\ \A g \in needs'[h] : ClassOf[g] \notin PairClasses,
         raw' = raw \cup S,
         UNCHANGED <<cells, todo, exchange, fault>>
  PROVE  IInv'
<1>1. OwnersLive' /\ NeedsFit' /\ NeedsLive'
  BY Newborn
<1>2. CellTypes /\ NativeTypes /\ OneOwner /\ DeleterFits
  BY BetweenCalls
<1>3. NativeTypes'
  BY <1>2 DEF NativeTypes
<1>4. cls' = cls /\ own' = own /\ val' = val /\ mate' = mate
  BY DEF cells
<1>5. /\ CellTypes' /\ Held' = Held
      /\ (\A z \in Cells : mate'[z] # Null =>
            cls'[z] = "Allocation" /\ cls'[mate'[z]] \in PairClasses)
      /\ (\A z, w \in Cells : mate'[z] = mate'[w] /\ mate'[z] # Null => z = w)
      /\ (\A z, w \in Cells : val'[z] = val'[w] /\ z # w => val'[z] = Null)
  BY CellsKept
<1>6. OneOwner'
  BY <1>2, <1>5 DEF OneOwner
<1>7. DeleterFits'
  <2>1. \A z \in Cells : val[z] # Null => val[z] \in Handles \ S
    BY <1>2, HeldIff DEF OneOwner, NativeTypes
  <2> QED BY <1>2, <1>4, <2>1 DEF DeleterFits
<1> QED BY <1>1, <1>3, <1>5, <1>6, <1>7, CallDone DEF Begin

LEMMA CreatePlainStep ==
  ASSUME IInv, NEW c \in PlainClasses, CreatePlain(c)
  PROVE  IInv'
<1>1. PICK h \in Fresh(c), p \in Owners(c) : Bear(h, p, {})
  BY DEF CreatePlain
<1>2. Begin /\ raw' = raw \cup (live' \ live) /\ UNCHANGED <<cells, todo, exchange, fault>>
  BY DEF CreatePlain
<1>3. NativeTypes /\ h \in Handles /\ h \notin live /\ ClassOf[h] = c
      /\ Null \notin Handles
  BY <1>2, BetweenCalls, UniqueAssumption DEF Fresh
<1>4. /\ p \in Handles \cup {Null}
      /\ c \in RootClasses => p = Null
      /\ c \notin RootClasses => p \in live /\ ClassOf[p] \in RootClasses
  BY OwnersFacts
<1>5. /\ live' = live \cup {h}
      /\ parent' \in [Handles -> Handles \cup {Null}]
      /\ needs' \in [Handles -> SUBSET Handles]
      /\ parent'[h] = p /\ needs'[h] = {p} \ {Null}
      /\ \A g \in Handles \ {h} : parent'[g] = parent[g] /\ needs'[g] = needs[g]
  BY <1>1, <1>3, <1>4 DEF Bear, NativeTypes
<1>6. p \in live => p # Null
  BY <1>3 DEF NativeTypes
<1>7. /\ ClassOf[h] \in RootClasses => parent'[h] = Null
      /\ ClassOf[h] \notin RootClasses =>
           parent'[h] \in live \cap needs'[h] /\ ClassOf[parent'[h]] \in RootClasses
      /\ needs'[h] \subseteq live \cup {h}
      /\ \A g \in needs'[h] : ClassOf[g] \notin PairClasses
  BY <1>3, <1>4, <1>5, <1>6 DEF RootClasses, PairClasses
<1>8. raw' = raw \cup {h}
  BY <1>2, <1>3, <1>5
<1>9. {h} \in SUBSET Handles /\ {h} \cap live = {}
  BY <1>3
<1> QED BY <1>2, <1>5, <1>7, <1>8, <1>9, PlainStep

(* What vmaCreateBuffer() and vmaCreateImage() make.                       *)
LEMMA PairFacts ==
  ASSUME IInv, Begin, NEW c \in PairClasses, NEW m \in Fresh("Allocation"),
         NEW r \in Fresh(c), NEW a \in Owners(c), NEW S \in PoolsOf(a),
         BearPair(m, r, a, S)
  PROVE  /\ m \in Handles \ live /\ r \in Handles \ live /\ m # r
         /\ ClassOf[m] = "Allocation" /\ ClassOf[r] = c
         /\ a \in live
         /\ live' = live \cup {m, r}
         /\ parent' \in [Handles -> Handles \cup {Null}]
         /\ needs' \in [Handles -> SUBSET Handles]
         /\ parent'[m] = a /\ parent'[r] = a
         /\ \A h \in Handles \ {m, r} : parent'[h] = parent[h] /\ needs'[h] = needs[h]
         /\ \A h \in {m, r} :
              /\ ClassOf[h] \in RootClasses => parent'[h] = Null
              /\ ClassOf[h] \notin RootClasses =>
                   /\ parent'[h] \in live \cap needs'[h]
                   /\ ClassOf[parent'[h]] \in RootClasses
              /\ needs'[h] \subseteq live \cup {m, r}
              /\ \A g \in needs'[h] : ClassOf[g] \notin PairClasses
<1>1. NativeTypes
  BY BetweenCalls
<1>2. /\ m \in Handles \ live /\ r \in Handles \ live
      /\ ClassOf[m] = "Allocation" /\ ClassOf[r] = c
  BY DEF Fresh
<1>3. m # r
  BY <1>2 DEF PairClasses
<1>4. c \in PlainClasses /\ c \notin RootClasses
  BY DEF PairClasses, RootClasses, PlainClasses, UniqueClasses, OwnedClasses
<1>5. a \in live /\ ClassOf[a] \in RootClasses /\ a \in Handles
  BY <1>1, <1>4, OwnersFacts DEF NativeTypes
<1>6. S \subseteq live /\ (\A g \in S : ClassOf[g] \notin PairClasses)
  BY PoolFacts
<1>7. /\ live' = live \cup {m, r}
      /\ parent' \in [Handles -> Handles \cup {Null}]
      /\ needs' \in [Handles -> SUBSET Handles]
      /\ parent'[m] = a /\ parent'[r] = a
      /\ needs'[m] = S \cup {a} /\ needs'[r] = {a, m}
      /\ \A h \in Handles \ {m, r} : parent'[h] = parent[h] /\ needs'[h] = needs[h]
  BY <1>1, <1>2, <1>3, <1>5, <1>6 DEF BearPair, NativeTypes
<1>8. ASSUME NEW h \in {m, r}
      PROVE  /\ ClassOf[h] \notin RootClasses
             /\ parent'[h] \in live \cap needs'[h]
             /\ ClassOf[parent'[h]] \in RootClasses
             /\ needs'[h] \subseteq live \cup {m, r}
             /\ \A g \in needs'[h] : ClassOf[g] \notin PairClasses
  BY <1>2, <1>4, <1>5, <1>6, <1>7 DEF RootClasses, PairClasses
<1> QED BY <1>2, <1>3, <1>5, <1>7, <1>8

LEMMA CreatePlainPairStep ==
  ASSUME IInv, NEW c \in PairClasses, CreatePlainPair(c)
  PROVE  IInv'
<1>1. PICK m \in Fresh("Allocation"), r \in Fresh(c), a \in Owners(c) :
        \E S \in PoolsOf(a) : BearPair(m, r, a, S) /\ raw' = raw \cup {m, r}
  BY DEF CreatePlainPair
<1>2. PICK S \in PoolsOf(a) : BearPair(m, r, a, S) /\ raw' = raw \cup {m, r}
  BY <1>1
<1>3. Begin /\ UNCHANGED <<cells, todo, exchange, fault>>
  BY DEF CreatePlainPair
<1>4. {m, r} \in SUBSET Handles /\ {m, r} \cap live = {}
  BY <1>2, <1>3, PairFacts
<1> DEFINE N == {m, r}
<1>5. /\ live' = live \cup N
      /\ parent' \in [Handles -> Handles \cup {Null}]
      /\ needs' \in [Handles -> SUBSET Handles]
      /\ \A h \in Handles \ N : parent'[h] = parent[h] /\ needs'[h] = needs[h]
      /\ \A h \in N :
           /\ ClassOf[h] \in RootClasses => parent'[h] = Null
           /\ ClassOf[h] \notin RootClasses =>
                /\ parent'[h] \in live \cap needs'[h]
                /\ ClassOf[parent'[h]] \in RootClasses
           /\ needs'[h] \subseteq live \cup N
           /\ \A g \in needs'[h] : ClassOf[g] \notin PairClasses
      /\ raw' = raw \cup N
      /\ N \in SUBSET Handles /\ N \cap live = {}
  BY <1>2, <1>3, <1>4, PairFacts
<1> HIDE DEF N
<1> QED BY <1>3, <1>5, PlainStep

(* Two free cells get new handles, g and h.                                *)
LEMMA TwoCells ==
  ASSUME IInv, Begin, NEW x \in Free, NEW y \in Free, x # y,
         NEW g \in Handles \ live, NEW h \in Handles \ live, g # h,
         NEW a \in Handles, ClassOf[g] \in UniqueClasses, ClassOf[h] \in UniqueClasses,
         cls' = [cls EXCEPT ![x] = ClassOf[g], ![y] = ClassOf[h]],
         own' = [own EXCEPT ![x] = a, ![y] = a],
         val' = [val EXCEPT ![x] = g, ![y] = h],
         live' = live \cup {g, h}, raw' = raw,
         parent'[g] = a, parent'[h] = a,
         parent' \in [Handles -> Handles \cup {Null}],
         needs' \in [Handles -> SUBSET Handles],
         \A k \in Handles \ {g, h} : parent'[k] = parent[k]
  PROVE  /\ x \in Cells /\ y \in Cells
         /\ cls' \in [Cells -> UniqueClasses \cup {"none"}]
         /\ own' \in [Cells -> Handles \cup {Null}]
         /\ val' \in [Cells -> Handles \cup {Null}]
         /\ cls'[x] = ClassOf[g] /\ cls'[y] = ClassOf[h]
         /\ \A z \in Cells \ {x, y} : cls'[z] = cls[z]
         /\ NativeTypes' /\ OneOwner' /\ DeleterFits'
<1>1. CellTypes /\ NativeTypes /\ OneOwner /\ DeleterFits
  BY BetweenCalls
<1>2. x \in Cells /\ y \in Cells /\ val[x] = Null /\ val[y] = Null /\ Null \notin Handles
  BY FreeFacts, UniqueAssumption
<1>3. /\ cls' \in [Cells -> UniqueClasses \cup {"none"}]
      /\ own' \in [Cells -> Handles \cup {Null}]
      /\ val' \in [Cells -> Handles \cup {Null}]
  BY <1>1 DEF CellTypes
<1>4. /\ cls'[x] = ClassOf[g] /\ own'[x] = a /\ val'[x] = g
      /\ cls'[y] = ClassOf[h] /\ own'[y] = a /\ val'[y] = h
      /\ \A z \in Cells \ {x, y} : cls'[z] = cls[z] /\ own'[z] = own[z] /\ val'[z] = val[z]
  BY <1>1, <1>2 DEF CellTypes
<1>5. NativeTypes'
  BY <1>1 DEF NativeTypes
<1>6. \A z \in Cells : val[z] # Null => val[z] \in Handles \ {g, h}
  BY <1>1, HeldIff DEF OneOwner, NativeTypes
<1>7. \A k : k \in Held' <=> k # Null /\ \E z \in Cells : val'[z] = k
  BY DEF Held, Vals
<1>8. ASSUME NEW z \in Cells
      PROVE  \/ z = x /\ val'[z] = g /\ own'[z] = a /\ cls'[z] = ClassOf[g]
             \/ z = y /\ val'[z] = h /\ own'[z] = a /\ cls'[z] = ClassOf[h]
             \/ /\ z \notin {x, y}
                /\ val'[z] = val[z] /\ own'[z] = own[z] /\ cls'[z] = cls[z]
                /\ val[z] # g /\ val[z] # h
  <2>1. g # Null /\ h # Null
    BY <1>2
  <2>2. val[z] # g /\ val[z] # h
    BY <1>6, <2>1
  <2> QED BY <1>4, <2>2
<1>9. OneOwner'
  <2>1. ASSUME NEW k
        PROVE  k \in Held' <=> k \in Held \/ k = g \/ k = h
    <3>1. k \in Held' <=> k # Null /\ \E z \in Cells : val'[z] = k
      BY <1>7
    <3>2. val'[x] = g /\ val'[y] = h /\ g # Null /\ h # Null
      BY <1>2, <1>4
    <3>3. CASE k \in {g, h}
      BY <1>2, <3>1, <3>2, <3>3
    <3>4. CASE k \notin {g, h}
      <4>1. k \in Held <=> k # Null /\ \E z \in Cells : val[z] = k
        BY HeldIff
      <4>2. ASSUME NEW z \in Cells, k # Null
            PROVE  val'[z] = k <=> val[z] = k
        BY <1>2, <1>8, <3>4, <4>2
      <4> QED BY <3>1, <3>4, <4>1, <4>2
    <3> QED BY <3>3, <3>4
  <2>2. live' = raw' \cup Held' /\ raw' \cap Held' = {}
    BY <1>1, <2>1 DEF OneOwner, NativeTypes
  <2>3. ASSUME NEW z \in Cells, NEW w \in Cells, val'[z] = val'[w], z # w
        PROVE  val'[z] = Null
    <3>1. val[z] = val[w] => val[z] = Null
      BY <1>1, <2>3 DEF OneOwner
    <3> QED BY <1>8, <2>3, <3>1
  <2> QED BY <2>2, <2>3 DEF OneOwner
<1>10. DeleterFits'
  <2> SUFFICES ASSUME NEW z \in Cells, val'[z] # Null
               PROVE  cls'[z] = ClassOf[val'[z]] /\ own'[z] = parent'[val'[z]]
    BY DEF DeleterFits
  <2>1. CASE z \in {x, y}
    BY <1>8, <2>1
  <2>2. CASE z \notin {x, y}
    <3>1. val'[z] = val[z] /\ own'[z] = own[z] /\ cls'[z] = cls[z] /\ val[z] # Null
      BY <1>8, <2>2
    <3>2. cls[z] = ClassOf[val[z]] /\ own[z] = parent[val[z]]
      BY <1>1, <3>1 DEF DeleterFits
    <3>3. parent'[val[z]] = parent[val[z]]
      BY <1>6, <3>1
    <3> QED BY <3>1, <3>2, <3>3
  <2> QED BY <2>1, <2>2
<1> QED BY <1>2, <1>3, <1>4, <1>5, <1>9, <1>10

LEMMA CreatePairStep ==
  ASSUME IInv, NEW c \in PairClasses, NEW x \in Free, NEW y \in Free, x # y,
         CreatePair(c, x, y)
  PROVE  IInv'
<1>1. PICK m \in Fresh("Allocation"), r \in Fresh(c), a \in Owners(c) :
        \E S \in PoolsOf(a) : MakePair(x, y, c, a, m, r) /\ BearPair(m, r, a, S)
  BY DEF CreatePair
<1>2. PICK S \in PoolsOf(a) : MakePair(x, y, c, a, m, r) /\ BearPair(m, r, a, S)
  BY <1>1
<1>3. Begin /\ raw' = raw /\ todo' = todo /\ exchange' = exchange /\ fault' = fault
  BY DEF CreatePair
<1>4. /\ m \in Handles \ live /\ r \in Handles \ live /\ m # r
      /\ ClassOf[m] = "Allocation" /\ ClassOf[r] = c /\ a \in live
      /\ live' = live \cup {m, r}
      /\ parent' \in [Handles -> Handles \cup {Null}]
      /\ needs' \in [Handles -> SUBSET Handles]
      /\ parent'[m] = a /\ parent'[r] = a
      /\ \A h \in Handles \ {m, r} : parent'[h] = parent[h] /\ needs'[h] = needs[h]
  BY <1>2, <1>3, PairFacts
<1>5. OwnersLive' /\ NeedsFit' /\ NeedsLive'
  <2> DEFINE N == {m, r}
  <2>1. /\ N \in SUBSET Handles /\ N \cap live = {}
        /\ live' = live \cup N
        /\ \A h \in Handles \ N : parent'[h] = parent[h] /\ needs'[h] = needs[h]
        /\ \A h \in N :
             /\ ClassOf[h] \in RootClasses => parent'[h] = Null
             /\ ClassOf[h] \notin RootClasses =>
                  /\ parent'[h] \in live \cap needs'[h]
                  /\ ClassOf[parent'[h]] \in RootClasses
             /\ needs'[h] \subseteq live \cup N
             /\ \A g \in needs'[h] : ClassOf[g] \notin PairClasses
    BY <1>2, <1>3, <1>4, PairFacts
  <2> HIDE DEF N
  <2> QED BY <1>3, <1>4, <2>1, Newborn
<1>6. /\ cls' = [cls EXCEPT ![x] = ClassOf[m], ![y] = ClassOf[r]]
      /\ own' = [own EXCEPT ![x] = a, ![y] = a]
      /\ val' = [val EXCEPT ![x] = m, ![y] = r]
      /\ mate' = [mate EXCEPT ![x] = y]
  BY <1>2, <1>4 DEF MakePair
<1>7. a \in Handles /\ CellTypes
      /\ (\A z \in Cells : mate[z] # Null =>
            cls[z] = "Allocation" /\ cls[mate[z]] \in PairClasses)
      /\ (\A z, w \in Cells : mate[z] = mate[w] /\ mate[z] # Null => z = w)
  BY <1>3, <1>4, BetweenCalls DEF NativeTypes
<1>8. ClassOf[m] \in UniqueClasses /\ ClassOf[r] \in UniqueClasses
  BY <1>4 DEF UniqueClasses, OwnedClasses, PairClasses
<1>9. /\ x \in Cells /\ y \in Cells
      /\ cls' \in [Cells -> UniqueClasses \cup {"none"}]
      /\ own' \in [Cells -> Handles \cup {Null}]
      /\ val' \in [Cells -> Handles \cup {Null}]
      /\ cls'[x] = ClassOf[m] /\ cls'[y] = ClassOf[r]
      /\ \A z \in Cells \ {x, y} : cls'[z] = cls[z]
      /\ NativeTypes' /\ OneOwner' /\ DeleterFits'
  BY <1>3, <1>4, <1>6, <1>7, <1>8, TwoCells
<1>10. /\ mate[x] = Null /\ mate[y] = Null
       /\ \A z \in Cells : mate[z] # x /\ mate[z] # y
  BY <1>3, FreeFacts
<1>11. CellTypes'
  BY <1>6, <1>7, <1>9 DEF CellTypes
<1>12. mate'[x] = y /\ \A z \in Cells \ {x} : mate'[z] = mate[z]
  BY <1>6, <1>7, <1>9 DEF CellTypes
<1>13. \A z \in Cells : mate'[z] # Null =>
         cls'[z] = "Allocation" /\ cls'[mate'[z]] \in PairClasses
  BY <1>4, <1>7, <1>9, <1>10, <1>12 DEF CellTypes
<1>14. \A z, w \in Cells : mate'[z] = mate'[w] /\ mate'[z] # Null => z = w
  BY <1>7, <1>10, <1>12
<1> QED BY <1>3, <1>5, <1>9, <1>11, <1>13, <1>14, CallDone DEF Begin

LEMMA AllocateMemoryPagesStep ==
  ASSUME IInv, NEW x \in Free, NEW y \in Free, x # y, AllocateMemoryPagesUnique(x, y)
  PROVE  IInv'
<1>1. PICK g \in Fresh("Allocation"), h \in Fresh("Allocation"), a \in Owners("Allocation") :
        /\ g # h
        /\ cls' = [cls EXCEPT ![x] = "Allocation", ![y] = "Allocation"]
        /\ own' = [own EXCEPT ![x] = a, ![y] = a]
        /\ val' = [val EXCEPT ![x] = g, ![y] = h]
        /\ live' = live \cup {g, h}
        /\ parent' = [parent EXCEPT ![g] = a, ![h] = a]
        /\ needs' = [needs EXCEPT ![g] = {a}, ![h] = {a}]
  BY DEF AllocateMemoryPagesUnique
<1>2. /\ Begin /\ mate' = mate /\ raw' = raw /\ todo' = todo
      /\ exchange' = exchange /\ fault' = fault
  BY DEF AllocateMemoryPagesUnique
<1>3. /\ CellTypes /\ NativeTypes
      /\ (\A z \in Cells : mate[z] # Null =>
            cls[z] = "Allocation" /\ cls[mate[z]] \in PairClasses)
      /\ (\A z, w \in Cells : mate[z] = mate[w] /\ mate[z] # Null => z = w)
  BY <1>2, BetweenCalls
<1>4. /\ g \in Handles \ live /\ h \in Handles \ live
      /\ ClassOf[g] = "Allocation" /\ ClassOf[h] = "Allocation"
  BY DEF Fresh
<1>5. "Allocation" \in UniqueClasses /\ "Allocation" \in PlainClasses
      /\ "Allocation" \notin RootClasses
  BY DEF UniqueClasses, OwnedClasses, PlainClasses, RootClasses
<1>6. a \in live /\ ClassOf[a] \in RootClasses /\ a \in Handles
  BY <1>3, <1>5, OwnersFacts DEF NativeTypes
<1>7. /\ parent' \in [Handles -> Handles \cup {Null}]
      /\ needs' \in [Handles -> SUBSET Handles]
      /\ parent'[g] = a /\ parent'[h] = a /\ needs'[g] = {a} /\ needs'[h] = {a}
      /\ \A k \in Handles \ {g, h} : parent'[k] = parent[k] /\ needs'[k] = needs[k]
  BY <1>1, <1>3, <1>4, <1>6 DEF NativeTypes
<1>8. OwnersLive' /\ NeedsFit' /\ NeedsLive'
  <2> DEFINE N == {g, h}
  <2>1. ASSUME NEW k \in N
        PROVE  /\ ClassOf[k] \notin RootClasses
               /\ parent'[k] \in live \cap needs'[k]
               /\ ClassOf[parent'[k]] \in RootClasses
               /\ needs'[k] \subseteq live \cup N
               /\ \A q \in needs'[k] : ClassOf[q] \notin PairClasses
    BY <1>4, <1>5, <1>6, <1>7 DEF RootClasses, PairClasses
  <2>2. /\ N \in SUBSET Handles /\ N \cap live = {} /\ live' = live \cup N
        /\ \A k \in Handles \ N : parent'[k] = parent[k] /\ needs'[k] = needs[k]
    BY <1>1, <1>4, <1>7
  <2> HIDE DEF N
  <2> QED BY <1>2, <1>7, <2>1, <2>2, Newborn
<1>9. /\ x \in Cells /\ y \in Cells
      /\ cls' \in [Cells -> UniqueClasses \cup {"none"}]
      /\ own' \in [Cells -> Handles \cup {Null}]
      /\ val' \in [Cells -> Handles \cup {Null}]
      /\ \A z \in Cells \ {x, y} : cls'[z] = cls[z]
      /\ NativeTypes' /\ OneOwner' /\ DeleterFits'
  <2>1. cls' = [cls EXCEPT ![x] = ClassOf[g], ![y] = ClassOf[h]]
    BY <1>1, <1>4
  <2>2. ClassOf[g] \in UniqueClasses /\ ClassOf[h] \in UniqueClasses
    BY <1>4, <1>5
  <2> QED BY <1>1, <1>2, <1>4, <1>6, <1>7, <2>1, <2>2, TwoCells
<1>10. /\ mate[x] = Null /\ mate[y] = Null
       /\ \A z \in Cells : mate[z] # x /\ mate[z] # y
  BY <1>2, FreeFacts
<1>11. CellTypes'
  BY <1>2, <1>3, <1>9 DEF CellTypes
<1>12. \A z \in Cells : mate'[z] # Null =>
         cls'[z] = "Allocation" /\ cls'[mate'[z]] \in PairClasses
  BY <1>2, <1>3, <1>9, <1>10 DEF CellTypes
<1> QED BY <1>2, <1>3, <1>8, <1>9, <1>11, <1>12, CallDone DEF Begin

(* What moves handles between cells and the client only has to leave each  *)
(* with one owner.                                                         *)
LEMMA NativeKept ==
  ASSUME IInv, Begin, UNCHANGED <<native, todo, exchange, fault>>,
         CellTypes', raw' \subseteq live, OneOwner', DeleterFits',
         \A z \in Cells : mate'[z] # Null =>
              cls'[z] = "Allocation" /\ cls'[mate'[z]] \in PairClasses,
         \A z, w \in Cells : mate'[z] = mate'[w] /\ mate'[z] # Null => z = w
  PROVE  IInv'
<1>1. live' = live /\ parent' = parent /\ needs' = needs
  BY DEF native
<1>2. NativeTypes /\ OwnersLive /\ NeedsFit /\ NeedsLive
  BY BetweenCalls
<1>3. NativeTypes' /\ OwnersLive' /\ NeedsFit' /\ NeedsLive'
  BY <1>1, <1>2 DEF NativeTypes, OwnersLive, NeedsFit, NeedsLive
<1> QED BY <1>3, CallDone DEF Begin

LEMMA BindMemoryStep ==
  ASSUME IInv, NEW c \in PairClasses, NEW r, NEW m, BindMemory(c, r, m)
  PROVE  IInv'
<1>1. /\ Begin /\ r \in live /\ m \in live /\ ClassOf[m] = "Allocation"
      /\ needs' = [needs EXCEPT ![r] = @ \cup {m}]
      /\ live' = live /\ parent' = parent /\ raw' = raw
      /\ todo' = todo /\ exchange' = exchange /\ fault' = fault /\ UNCHANGED cells
  BY DEF BindMemory
<1>2. /\ CellTypes /\ NativeTypes /\ OneOwner /\ DeleterFits /\ OwnersLive /\ NeedsFit
      /\ NeedsLive
  BY <1>1, BetweenCalls
<1>3. /\ \A h \in live : needs'[h] = needs[h] \/ needs'[h] = needs[h] \cup {m}
      /\ needs' \in [Handles -> SUBSET Handles]
  BY <1>1, <1>2 DEF NativeTypes
<1>4. NativeTypes' /\ OwnersLive' /\ NeedsLive'
  BY <1>1, <1>2, <1>3 DEF NativeTypes, OwnersLive, NeedsLive
<1>5. NeedsFit'
  <2>1. ClassOf[m] \notin PairClasses
    BY <1>1 DEF PairClasses
  <2> QED BY <1>1, <1>2, <1>3, <2>1 DEF NeedsFit
<1>6. /\ CellTypes' /\ Held' = Held
      /\ (\A z \in Cells : mate'[z] # Null =>
            cls'[z] = "Allocation" /\ cls'[mate'[z]] \in PairClasses)
      /\ (\A z, w \in Cells : mate'[z] = mate'[w] /\ mate'[z] # Null => z = w)
      /\ (\A z, w \in Cells : val'[z] = val'[w] /\ z # w => val'[z] = Null)
  BY <1>1, CellsKept
<1>7. OneOwner' /\ DeleterFits'
  BY <1>1, <1>2, <1>6 DEF OneOwner, DeleterFits, cells
<1> QED BY <1>1, <1>4, <1>5, <1>6, <1>7, CallDone DEF Begin

-----------------------------------------------------------------------------
(* The operations of unique handles that leave native objects alone.       *)

(* Each handle comes out in one cell, src telling from which.              *)
LEMMA Shuffled ==
  ASSUME IInv, Begin, UNCHANGED <<native, raw, todo, exchange, fault>>, CellTypes',
         NEW src \in [Cells -> Cells],
         \A z \in Cells : val'[z] # Null => /\ val'[z] = val[src[z]]
                                            /\ own'[z] = own[src[z]]
                                            /\ cls'[z] = cls[src[z]],
         \A z, w \in Cells : val'[z] # Null /\ val'[w] # Null /\ src[z] = src[w] => z = w,
         \A z \in Cells : val[z] # Null => \E w \in Cells : val'[w] = val[z],
         \A z \in Cells : mate'[z] # Null =>
              cls'[z] = "Allocation" /\ cls'[mate'[z]] \in PairClasses,
         \A z, w \in Cells : mate'[z] = mate'[w] /\ mate'[z] # Null => z = w
  PROVE  IInv'
<1>1. OneOwner /\ DeleterFits /\ NativeTypes
  BY BetweenCalls
<1>2. live' = live /\ parent' = parent /\ raw' = raw /\ UNCHANGED <<native, todo, exchange, fault>>
  BY DEF native
<1>3. ASSUME NEW k
      PROVE  k \in Held' <=> k \in Held
  <2>1. k \in Held <=> k # Null /\ \E z \in Cells : val[z] = k
    BY HeldIff
  <2>2. k \in Held' <=> k # Null /\ \E z \in Cells : val'[z] = k
    BY DEF Held, Vals
  <2>3. ASSUME NEW z \in Cells, val'[z] = k, k # Null
        PROVE  \E w \in Cells : val[w] = k
    BY <2>3
  <2> QED BY <2>1, <2>2, <2>3
<1>4. OneOwner'
  <2>1. \A z, w \in Cells : val'[z] = val'[w] /\ z # w => val'[z] = Null
    <3> SUFFICES ASSUME NEW z \in Cells, NEW w \in Cells,
                        val'[z] = val'[w], z # w, val'[z] # Null
                 PROVE  FALSE
      OBVIOUS
    <3>1. src[z] # src[w] /\ val[src[z]] = val[src[w]] /\ val[src[z]] # Null
      OBVIOUS
    <3>2. src[z] \in Cells /\ src[w] \in Cells
      OBVIOUS
    <3> QED BY <1>1, <3>1, <3>2 DEF OneOwner
  <2> QED BY <1>1, <1>2, <1>3, <2>1 DEF OneOwner
<1>5. DeleterFits'
  <2> SUFFICES ASSUME NEW z \in Cells, val'[z] # Null
               PROVE  cls'[z] = ClassOf[val'[z]] /\ own'[z] = parent'[val'[z]]
    BY DEF DeleterFits
  <2>1. src[z] \in Cells /\ val[src[z]] # Null
    OBVIOUS
  <2> QED BY <1>1, <1>2, <2>1 DEF DeleterFits
<1>6. raw' \subseteq live
  BY <1>1, <1>2 DEF NativeTypes
<1> QED BY <1>2, <1>4, <1>5, <1>6, NativeKept

(* A null handle in a free cell changes nothing for the others.            *)
LEMMA NullFilled ==
  ASSUME IInv, Begin, NEW x \in Free, NEW c \in UniqueClasses, NEW p \in Handles \cup {Null},
         Fill(x, c, p, Null), UNCHANGED <<mate, native, raw, todo, exchange, fault>>
  PROVE  IInv'
<1>1. /\ CellTypes'
      /\ (\A z \in Cells : mate'[z] # Null =>
            cls'[z] = "Allocation" /\ cls'[mate'[z]] \in PairClasses)
      /\ (\A z, w \in Cells : mate'[z] = mate'[w] /\ mate'[z] # Null => z = w)
      /\ val'[x] = Null /\ val[x] = Null
      /\ (\A z \in Cells \ {x} : cls'[z] = cls[z] /\ own'[z] = own[z] /\ val'[z] = val[z])
  BY FillFacts
<1> DEFINE src == [z \in Cells |-> z]
<1>2. src \in [Cells -> Cells] /\ \A z \in Cells : src[z] = z
  OBVIOUS
<1> HIDE DEF src
<1>3. \A z \in Cells : val'[z] # Null => /\ val'[z] = val[src[z]]
                                         /\ own'[z] = own[src[z]]
                                         /\ cls'[z] = cls[src[z]]
  BY <1>1, <1>2
<1>4. \A z \in Cells : val[z] # Null => \E w \in Cells : val'[w] = val[z]
  BY <1>1
<1> QED BY <1>1, <1>2, <1>3, <1>4, Shuffled

LEMMA CreateFailsStep ==
  ASSUME IInv, NEW c \in UniqueClasses, NEW x \in Free, CreateFails(c, x)
  PROVE  IInv'
<1>1. PICK p \in Owners(c) : Fill(x, c, p, Null)
  BY DEF CreateFails
<1>2. p \in Handles \cup {Null}
  BY OwnersFacts DEF PlainClasses
<1> QED BY <1>1, <1>2, NullFilled DEF CreateFails

LEMMA ConstructNullStep ==
  ASSUME IInv, NEW c \in UniqueClasses, NEW x \in Free, ConstructNull(c, x)
  PROVE  IInv'
BY NullFilled DEF ConstructNull

LEMMA AdoptStep ==
  ASSUME IInv, NEW x \in Free, NEW h \in raw, ClassOf[h] \in UniqueClasses, Adopt(x, h)
  PROVE  IInv'
<1>1. /\ Begin /\ Fill(x, ClassOf[h], parent[h], h) /\ mate' = mate /\ raw' = raw \ {h}
      /\ UNCHANGED <<native, todo, exchange, fault>>
  BY DEF Adopt
<1>2. CellTypes /\ NativeTypes /\ OneOwner /\ DeleterFits
  BY <1>1, BetweenCalls
<1>3. h \in live /\ h \in Handles /\ h # Null /\ parent[h] \in Handles \cup {Null}
  BY <1>2, UniqueAssumption DEF NativeTypes
<1>4. /\ CellTypes'
      /\ (\A z \in Cells : mate'[z] # Null =>
            cls'[z] = "Allocation" /\ cls'[mate'[z]] \in PairClasses)
      /\ (\A z, w \in Cells : mate'[z] = mate'[w] /\ mate'[z] # Null => z = w)
      /\ cls'[x] = ClassOf[h] /\ own'[x] = parent[h] /\ val'[x] = h
      /\ (\A z \in Cells \ {x} : cls'[z] = cls[z] /\ own'[z] = own[z] /\ val'[z] = val[z])
      /\ Held' = Held \cup ({h} \ {Null})
  BY <1>1, <1>3, FillFacts
<1>5. live' = live /\ parent' = parent
  BY <1>1 DEF native
<1>6. \A z \in Cells : val[z] # h
  BY <1>2, <1>3, HeldIff DEF OneOwner
<1>7. OneOwner'
  <2>1. live' = raw' \cup Held' /\ raw' \cap Held' = {}
    BY <1>1, <1>2, <1>3, <1>4, <1>5 DEF OneOwner
  <2>2. \A z, w \in Cells : val'[z] = val'[w] /\ z # w => val'[z] = Null
    BY <1>2, <1>4, <1>6 DEF OneOwner
  <2> QED BY <2>1, <2>2 DEF OneOwner
<1>8. DeleterFits'
  BY <1>2, <1>4, <1>5 DEF DeleterFits
<1>9. raw' \subseteq live
  BY <1>1, <1>2 DEF NativeTypes
<1> QED BY <1>1, <1>4, <1>7, <1>8, <1>9, NativeKept

LEMMA MoveConstructStep ==
  ASSUME IInv, NEW x \in Free, NEW y \in Using, MoveConstruct(x, y)
  PROVE  IInv'
<1>1. /\ Begin
      /\ cls' = [cls EXCEPT ![x] = cls[y]]
      /\ own' = [own EXCEPT ![x] = own[y], ![y] = LeftOwner(y)]
      /\ val' = [val EXCEPT ![x] = val[y], ![y] = Null]
      /\ mate' = mate /\ UNCHANGED <<native, raw, todo, exchange, fault>>
  BY DEF MoveConstruct
<1>2. /\ CellTypes
      /\ (\A z \in Cells : mate[z] # Null =>
            cls[z] = "Allocation" /\ cls[mate[z]] \in PairClasses)
      /\ (\A z, w \in Cells : mate[z] = mate[w] /\ mate[z] # Null => z = w)
  BY <1>1, BetweenCalls
<1>3. x \in Cells /\ val[x] = Null /\ mate[x] = Null /\ \A z \in Cells : mate[z] # x
  BY <1>1, FreeFacts
<1>4. y \in Cells /\ x # y
  BY DEF Using
<1>5. LeftOwner(y) \in Handles \cup {Null}
  BY <1>2, <1>4 DEF LeftOwner, CellTypes
<1>6. CellTypes'
  BY <1>1, <1>2, <1>3, <1>4, <1>5 DEF CellTypes
<1>7. /\ cls'[x] = cls[y] /\ own'[x] = own[y] /\ val'[x] = val[y] /\ val'[y] = Null
      /\ cls'[y] = cls[y]
      /\ \A z \in Cells \ {x, y} : cls'[z] = cls[z] /\ own'[z] = own[z] /\ val'[z] = val[z]
  BY <1>1, <1>2, <1>3, <1>4 DEF CellTypes
<1>8. \A z \in Cells : mate'[z] # Null =>
        cls'[z] = "Allocation" /\ cls'[mate'[z]] \in PairClasses
  <2>1. \A z \in Cells \ {x} : cls'[z] = cls[z]
    BY <1>7
  <2>2. \A z \in Cells : mate[z] \in Cells \cup {Null}
    BY <1>2 DEF CellTypes
  <2> QED BY <1>1, <1>2, <1>3, <2>1, <2>2
<1> DEFINE src == [z \in Cells |-> IF z = x THEN y ELSE z]
<1>9. src \in [Cells -> Cells] /\ \A z \in Cells : src[z] = IF z = x THEN y ELSE z
  BY <1>4
<1> HIDE DEF src
<1>10. \A z \in Cells : val'[z] # Null => /\ val'[z] = val[src[z]]
                                          /\ own'[z] = own[src[z]]
                                          /\ cls'[z] = cls[src[z]]
  BY <1>7, <1>9
<1>11. \A z, w \in Cells : val'[z] # Null /\ val'[w] # Null /\ src[z] = src[w] => z = w
  BY <1>7, <1>9
<1>12. \A z \in Cells : val[z] # Null => \E w \in Cells : val'[w] = val[z]
  BY <1>3, <1>4, <1>7
<1> QED BY <1>1, <1>2, <1>6, <1>8, <1>9, <1>10, <1>11, <1>12, Shuffled

LEMMA MoveConstructPairStep ==
  ASSUME IInv, NEW x \in Free, NEW z \in Free, x # z,
         NEW y \in Objects, mate[y] # Null, MoveConstructPair(x, z, y)
  PROVE  IInv'
<1> DEFINE w == mate[y]
<1>1. /\ Begin
      /\ cls' = [cls EXCEPT ![x] = cls[y], ![z] = cls[w]]
      /\ own' = [own EXCEPT ![x] = own[y], ![z] = own[w],
                            ![y] = LeftOwner(y), ![w] = LeftOwner(w)]
      /\ val' = [val EXCEPT ![x] = val[y], ![z] = val[w], ![y] = Null, ![w] = Null]
      /\ mate' = [mate EXCEPT ![x] = z]
      /\ UNCHANGED <<native, raw, todo, exchange, fault>>
  BY DEF MoveConstructPair
<1>2. /\ CellTypes
      /\ (\A q \in Cells : mate[q] # Null =>
            cls[q] = "Allocation" /\ cls[mate[q]] \in PairClasses)
      /\ (\A q, r \in Cells : mate[q] = mate[r] /\ mate[q] # Null => q = r)
  BY <1>1, BetweenCalls
<1>3. /\ x \in Cells /\ cls[x] = "none" /\ val[x] = Null /\ mate[x] = Null
      /\ z \in Cells /\ cls[z] = "none" /\ val[z] = Null /\ mate[z] = Null
      /\ \A q \in Cells : mate[q] # x /\ mate[q] # z
      /\ x # Null /\ z # Null
  BY <1>1, FreeFacts
<1>4. y \in Cells /\ w \in Cells
  BY <1>2 DEF Objects, CellTypes
<1>5. cls[y] = "Allocation" /\ cls[w] \in PairClasses
  BY <1>2, <1>4
<1>6. y # w /\ x # y /\ x # w /\ z # y /\ z # w
  BY <1>3, <1>5 DEF PairClasses
<1> HIDE DEF w
<1>7. LeftOwner(y) \in Handles \cup {Null} /\ LeftOwner(w) \in Handles \cup {Null}
  BY <1>2, <1>4 DEF LeftOwner, CellTypes
<1>8. CellTypes'
  BY <1>1, <1>2, <1>3, <1>4, <1>7 DEF CellTypes
<1>9. /\ cls'[x] = cls[y] /\ own'[x] = own[y] /\ val'[x] = val[y]
      /\ cls'[z] = cls[w] /\ own'[z] = own[w] /\ val'[z] = val[w]
      /\ val'[y] = Null /\ val'[w] = Null
      /\ \A q \in Cells \ {x, z} : cls'[q] = cls[q]
      /\ \A q \in Cells \ {x, z, y, w} : own'[q] = own[q] /\ val'[q] = val[q]
      /\ mate'[x] = z /\ \A q \in Cells \ {x} : mate'[q] = mate[q]
  BY <1>1, <1>2, <1>3, <1>4, <1>6 DEF CellTypes
<1>10. ASSUME NEW q \in Cells, mate'[q] # Null
       PROVE  cls'[q] = "Allocation" /\ cls'[mate'[q]] \in PairClasses
  <2>1. CASE q = x
    BY <1>5, <1>9, <2>1
  <2>2. CASE q # x
    <3>1. mate'[q] = mate[q] /\ mate[q] \in Cells /\ mate[q] \notin {x, z}
      BY <1>2, <1>3, <1>9, <1>10, <2>2 DEF CellTypes
    <3>2. q # z
      BY <1>3, <1>10, <3>1
    <3> QED BY <1>2, <1>9, <1>10, <2>2, <3>1, <3>2
  <2> QED BY <2>1, <2>2
<1>11. \A q, r \in Cells : mate'[q] = mate'[r] /\ mate'[q] # Null => q = r
  BY <1>2, <1>3, <1>9
<1> DEFINE src == [q \in Cells |-> IF q = x THEN y ELSE IF q = z THEN w ELSE q]
<1>12. /\ src \in [Cells -> Cells]
       /\ \A q \in Cells : src[q] = IF q = x THEN y ELSE IF q = z THEN w ELSE q
  BY <1>4
<1> HIDE DEF src
<1>13. ASSUME NEW q \in Cells, val'[q] # Null
       PROVE  val'[q] = val[src[q]] /\ own'[q] = own[src[q]] /\ cls'[q] = cls[src[q]]
  BY <1>9, <1>12, <1>13
<1>14. \A q, r \in Cells : val'[q] # Null /\ val'[r] # Null /\ src[q] = src[r] => q = r
  BY <1>6, <1>9, <1>12
<1>15. ASSUME NEW q \in Cells, val[q] # Null
       PROVE  \E r \in Cells : val'[r] = val[q]
  <2>1. q \notin {x, z}
    BY <1>3, <1>15
  <2> QED BY <1>3, <1>9, <2>1
<1> QED BY <1>1, <1>8, <1>10, <1>11, <1>12, <1>13, <1>14, <1>15, Shuffled

LEMMA SwapStep ==
  ASSUME IInv, NEW x \in Using, NEW y \in Using, x # y, cls[x] = cls[y], Swap(x, y)
  PROVE  IInv'
<1>1. /\ Begin /\ cls' = cls /\ mate' = mate
      /\ own' = [own EXCEPT ![x] = own[y], ![y] = own[x]]
      /\ val' = [val EXCEPT ![x] = val[y], ![y] = val[x]]
      /\ UNCHANGED <<native, raw, todo, exchange, fault>>
  BY DEF Swap
<1>2. /\ CellTypes
      /\ (\A q \in Cells : mate[q] # Null =>
            cls[q] = "Allocation" /\ cls[mate[q]] \in PairClasses)
      /\ (\A q, r \in Cells : mate[q] = mate[r] /\ mate[q] # Null => q = r)
  BY <1>1, BetweenCalls
<1>3. x \in Cells /\ y \in Cells
  BY DEF Using
<1>4. CellTypes'
  BY <1>1, <1>2, <1>3 DEF CellTypes
<1> DEFINE src == [q \in Cells |-> IF q = x THEN y ELSE IF q = y THEN x ELSE q]
<1>5. /\ src \in [Cells -> Cells]
      /\ \A q \in Cells : src[q] = IF q = x THEN y ELSE IF q = y THEN x ELSE q
  BY <1>3
<1> HIDE DEF src
<1>6. \A q \in Cells : val'[q] = val[src[q]] /\ own'[q] = own[src[q]] /\ cls'[q] = cls[src[q]]
  BY <1>1, <1>2, <1>3, <1>5 DEF CellTypes
<1>7. \A q, r \in Cells : src[q] = src[r] => q = r
  BY <1>5
<1>8. ASSUME NEW q \in Cells
      PROVE  \E r \in Cells : val'[r] = val[q]
  <2>1. src[src[q]] = q /\ src[q] \in Cells
    BY <1>3, <1>5
  <2>2. val'[src[q]] = val[q]
    BY <1>6, <2>1
  <2> QED BY <2>1, <2>2
<1>9. /\ (\A q \in Cells : mate'[q] # Null =>
            cls'[q] = "Allocation" /\ cls'[mate'[q]] \in PairClasses)
      /\ (\A q, r \in Cells : mate'[q] = mate'[r] /\ mate'[q] # Null => q = r)
  BY <1>1, <1>2
<1>10. /\ src \in [Cells -> Cells]
       /\ (\A q \in Cells : val'[q] # Null => /\ val'[q] = val[src[q]]
                                              /\ own'[q] = own[src[q]]
                                              /\ cls'[q] = cls[src[q]])
       /\ (\A q, r \in Cells : val'[q] # Null /\ val'[r] # Null /\ src[q] = src[r] => q = r)
       /\ (\A q \in Cells : val[q] # Null => \E r \in Cells : val'[r] = val[q])
  BY <1>5, <1>6, <1>7, <1>8
<1>11. Begin /\ UNCHANGED <<native, raw, todo, exchange, fault>>
  BY <1>1
<1> QED BY <1>4, <1>9, <1>10, <1>11, Shuffled

LEMMA ReleaseStep ==
  ASSUME IInv, NEW x \in Using, val[x] # Null, Release(x)
  PROVE  IInv'
<1>1. /\ Begin /\ cls' = cls /\ own' = own /\ mate' = mate
      /\ raw' = raw \cup {val[x]} /\ val' = [val EXCEPT ![x] = Null]
      /\ UNCHANGED <<native, todo, exchange, fault>>
  BY DEF Release, Vals
<1>2. /\ CellTypes /\ NativeTypes /\ OneOwner /\ DeleterFits
      /\ (\A q \in Cells : mate[q] # Null =>
            cls[q] = "Allocation" /\ cls[mate[q]] \in PairClasses)
      /\ (\A q, r \in Cells : mate[q] = mate[r] /\ mate[q] # Null => q = r)
  BY <1>1, BetweenCalls
<1>3. x \in Cells /\ val[x] \in live
  BY CellFacts DEF Using
<1>4. CellTypes'
  BY <1>1, <1>2, <1>3 DEF CellTypes
<1>5. val'[x] = Null /\ \A q \in Cells \ {x} : val'[q] = val[q]
  BY <1>1, <1>2, <1>3 DEF CellTypes
<1>6. live' = live /\ parent' = parent
  BY <1>1 DEF native
<1>7. ASSUME NEW k
      PROVE  k \in Held' <=> k \in Held /\ k # val[x]
  <2>1. k \in Held <=> k # Null /\ \E q \in Cells : val[q] = k
    BY HeldIff
  <2>2. k \in Held' <=> k # Null /\ \E q \in Cells : val'[q] = k
    BY DEF Held, Vals
  <2>3. ASSUME NEW q \in Cells, k # Null
        PROVE  val'[q] = k <=> val[q] = k /\ k # val[x]
    <3>1. q # x /\ val[q] = val[x] => val[q] = Null
      BY <1>2, <1>3 DEF OneOwner
    <3> QED BY <1>5, <2>3, <3>1
  <2> QED BY <2>1, <2>2, <2>3
<1>8. OneOwner'
  <2>1. live' = raw' \cup Held' /\ raw' \cap Held' = {}
    <3>1. val[x] \in Held
      BY <1>3, HeldIff
    <3> QED BY <1>1, <1>2, <1>6, <1>7, <3>1 DEF OneOwner
  <2>2. \A q, r \in Cells : val'[q] = val'[r] /\ q # r => val'[q] = Null
    BY <1>2, <1>5 DEF OneOwner
  <2> QED BY <2>1, <2>2 DEF OneOwner
<1>9. DeleterFits'
  BY <1>1, <1>2, <1>5, <1>6 DEF DeleterFits
<1>10. raw' \subseteq live
  BY <1>1, <1>2, <1>3 DEF NativeTypes
<1> QED BY <1>1, <1>2, <1>4, <1>8, <1>9, <1>10, NativeKept

-----------------------------------------------------------------------------
(* Native objects that end.                                                *)

LEMMA Killed ==
  ASSUME IInv, NEW S, Kill(S), \A h \in live \ S : parent[h] \notin S
  PROVE  /\ live' = live \ S
         /\ parent' \in [Handles -> Handles \cup {Null}]
         /\ needs' \in [Handles -> SUBSET Handles]
         /\ live' \subseteq Handles
         /\ \A h \in live' : parent'[h] = parent[h] /\ needs'[h] = needs[h]
         /\ OwnersLive' /\ NeedsFit'
<1>1. live \subseteq Handles /\ OwnersLive /\ NeedsFit
      /\ parent \in [Handles -> Handles \cup {Null}] /\ needs \in [Handles -> SUBSET Handles]
  BY DEF IInv, UInv, TypeOK
<1>2. /\ live' = live \ S
      /\ parent' = [h \in Handles |-> IF h \in S THEN Null ELSE parent[h]]
      /\ needs' = [h \in Handles |-> IF h \in S THEN {} ELSE needs[h]]
  BY DEF Kill
<1>3. /\ parent' \in [Handles -> Handles \cup {Null}]
      /\ needs' \in [Handles -> SUBSET Handles]
  BY <1>1, <1>2
<1>4. \A h \in live' : parent'[h] = parent[h] /\ needs'[h] = needs[h]
  BY <1>1, <1>2
<1>5. OwnersLive'
  BY <1>1, <1>2, <1>4 DEF OwnersLive
<1>6. NeedsFit'
  BY <1>1, <1>2, <1>4 DEF NeedsFit
<1> QED BY <1>1, <1>2, <1>3, <1>4, <1>5, <1>6

(* What nothing in use needs owns nothing in use.                          *)
LEMMA UnneededParents ==
  ASSUME IInv, NEW S, Unneeded(S), Null \notin S
  PROVE  \A h \in live \ S : parent[h] \notin S
BY DEF IInv, NeedsFit, Unneeded

LEMMA FreeRawStep ==
  ASSUME IInv, NEW S, FreeRaw(S)
  PROVE  IInv'
<1>1. /\ Begin /\ S \subseteq raw /\ Unneeded(S) /\ Kill(S) /\ raw' = raw \ S
      /\ UNCHANGED <<cells, todo, exchange, fault>>
  BY DEF FreeRaw
<1>2. CellTypes /\ NativeTypes /\ OneOwner /\ DeleterFits /\ NeedsLive
  BY <1>1, BetweenCalls
<1>3. Null \notin S
  BY <1>1, <1>2, UniqueAssumption DEF NativeTypes
<1>4. /\ live' = live \ S
      /\ parent' \in [Handles -> Handles \cup {Null}]
      /\ needs' \in [Handles -> SUBSET Handles]
      /\ live' \subseteq Handles
      /\ (\A h \in live' : parent'[h] = parent[h] /\ needs'[h] = needs[h])
      /\ OwnersLive' /\ NeedsFit'
  BY <1>1, <1>3, UnneededParents, Killed
<1>5. NativeTypes'
  BY <1>1, <1>2, <1>4 DEF NativeTypes
<1>6. NeedsLive'
  BY <1>1, <1>2, <1>4 DEF NeedsLive, Unneeded
<1>7. /\ CellTypes' /\ Held' = Held
      /\ (\A z \in Cells : mate'[z] # Null =>
            cls'[z] = "Allocation" /\ cls'[mate'[z]] \in PairClasses)
      /\ (\A z, w \in Cells : mate'[z] = mate'[w] /\ mate'[z] # Null => z = w)
      /\ (\A z, w \in Cells : val'[z] = val'[w] /\ z # w => val'[z] = Null)
  BY <1>1, CellsKept
<1>8. OneOwner'
  BY <1>1, <1>2, <1>4, <1>7 DEF OneOwner
<1>9. DeleterFits'
  <2>1. cls' = cls /\ own' = own /\ val' = val
    BY <1>1 DEF cells
  <2>2. \A z \in Cells : val[z] # Null => val[z] \in live'
    BY <1>1, <1>2, <1>4, HeldIff DEF OneOwner
  <2> QED BY <1>2, <1>4, <2>1, <2>2 DEF DeleterFits
<1> QED BY <1>1, <1>4, <1>5, <1>6, <1>7, <1>8, <1>9, CallDone DEF Begin

LEMMA DestructionStep ==
  ASSUME IInv, PlainDestruction
  PROVE  IInv'
<1>1. \E S : FreeRaw(S)
  BY DEF PlainDestruction, DestroyRoot, DestroyPool, FreeMemory, FreeMemoryPages,
         EndDefragmentation, VirtualFree, DestroyBuffer, DestroyImage, DestroyResource,
         ClearVirtualBlock, Free1
<1> QED BY <1>1, FreeRawStep

(* A destroy call of a deleter ends what the cell holds.                   *)
LEMMA HeldDestroyed ==
  ASSUME IInv, NEW x \in Cells, DestroyHeld(x),
         val[x] # Null => \A h \in live : parent[h] # val[x]
  PROVE  /\ fault' = FALSE
         /\ live' = live \ {val[x]}
         /\ parent' \in [Handles -> Handles \cup {Null}]
         /\ needs' \in [Handles -> SUBSET Handles]
         /\ live' \subseteq Handles
         /\ (\A h \in live' : parent'[h] = parent[h] /\ needs'[h] = needs[h])
         /\ OwnersLive' /\ NeedsFit'
<1>1. ~BadDestroy(x)
  BY CellFacts DEF BadDestroy
<1>2. fault' = FALSE
  BY <1>1 DEF DestroyHeld, IInv, UInv, TypeOK
<1>3. Kill({val[x]})
  BY DEF DestroyHeld
<1>4. CASE val[x] # Null
  <2>1. \A h \in live \ {val[x]} : parent[h] \notin {val[x]}
    BY <1>4
  <2> QED BY <1>2, <1>3, <2>1, Killed
<1>5. CASE val[x] = Null
  <2>1. live \subseteq Handles /\ OwnersLive /\ NeedsFit /\ Null \notin live
        /\ parent \in [Handles -> Handles \cup {Null}] /\ needs \in [Handles -> SUBSET Handles]
    BY UniqueAssumption DEF IInv, UInv, TypeOK
  <2>2. live' = live /\ parent' = parent /\ needs' = needs
    BY <1>3, <1>5, <2>1, UniqueAssumption DEF Kill
  <2>3. OwnersLive' /\ NeedsFit'
    BY <2>1, <2>2 DEF OwnersLive, NeedsFit
  <2> QED BY <1>2, <1>5, <2>1, <2>2, <2>3
<1> QED BY <1>4, <1>5

(* After it the others still have what they had.                           *)
LEMMA OthersKeep ==
  ASSUME IInv, NEW x \in Cells
  PROVE  \A z \in Cells \ {x} : val[z] # Null =>
           val[z] \in live \ {val[x]}
<1>1. OneOwner
  BY DEF IInv, UInv
<1> SUFFICES ASSUME NEW z \in Cells \ {x}, val[z] # Null
             PROVE  val[z] \in live /\ val[z] # val[x]
  OBVIOUS
<1> QED BY <1>1, CellFacts DEF OneOwner

LEMMA ResetStep ==
  ASSUME IInv, NEW x \in Using, NEW h \in raw \cup {Null},
         h # Null => ClassOf[h] = cls[x] /\ parent[h] = own[x],
         Reset(x, h)
  PROVE  IInv'
<1>1. /\ Begin /\ Unneeded(Vals({x})) /\ DestroyHeld(x)
      /\ val' = [val EXCEPT ![x] = h] /\ raw' = raw \ {h}
      /\ cls' = cls /\ own' = own /\ mate' = mate /\ todo' = todo /\ exchange' = exchange
  BY DEF Reset
<1>2. /\ CellTypes /\ NativeTypes /\ OneOwner /\ DeleterFits /\ OwnersLive /\ NeedsFit /\ NeedsLive
      /\ (\A q \in Cells : mate[q] # Null =>
            cls[q] = "Allocation" /\ cls[mate[q]] \in PairClasses)
      /\ (\A q, r \in Cells : mate[q] = mate[r] /\ mate[q] # Null => q = r)
  BY <1>1, BetweenCalls
<1>3. x \in Cells /\ Null \notin Handles
  BY UniqueAssumption DEF Using
<1>4. \A g \in live \ {val[x]} : val[x] # Null => val[x] \notin needs[g]
  BY <1>1 DEF Unneeded, Vals
<1>5. val[x] # Null => \A g \in live : parent[g] # val[x]
  <2> SUFFICES ASSUME val[x] # Null, NEW g \in live, parent[g] = val[x]
               PROVE  FALSE
    OBVIOUS
  <2>1. g = val[x]
    BY <1>2, <1>4 DEF NeedsFit
  <2>2. g \in Handles /\ g # Null
    BY <1>2, <1>3 DEF NativeTypes
  <2>3. ClassOf[g] \in RootClasses => parent[g] = Null
    BY <1>2 DEF OwnersLive
  <2>4. ClassOf[g] \notin RootClasses => ClassOf[parent[g]] \in RootClasses
    BY <1>2 DEF OwnersLive
  <2> QED BY <2>1, <2>2, <2>3, <2>4
<1>6. /\ fault' = FALSE
      /\ live' = live \ {val[x]}
      /\ parent' \in [Handles -> Handles \cup {Null}]
      /\ needs' \in [Handles -> SUBSET Handles]
      /\ live' \subseteq Handles
      /\ (\A g \in live' : parent'[g] = parent[g] /\ needs'[g] = needs[g])
      /\ OwnersLive' /\ NeedsFit'
  BY <1>1, <1>3, <1>5, HeldDestroyed
<1>7. h # Null => h \in live' /\ h \in Handles /\ h \notin Held
  <2>1. val[x] # Null => val[x] \notin raw
    BY <1>3, CellFacts
  <2> QED BY <1>2, <1>6, <2>1 DEF OneOwner, NativeTypes
<1>8. val'[x] = h /\ \A z \in Cells \ {x} : val'[z] = val[z]
  BY <1>1, <1>2, <1>3 DEF CellTypes
<1>9. CellTypes'
  BY <1>1, <1>2, <1>3, <1>7 DEF CellTypes
<1>10. \A z \in Cells \ {x} : val[z] # Null => val[z] \in live' /\ val[z] \notin raw
  BY <1>2, <1>3, <1>6, OthersKeep, HeldIff DEF OneOwner
<1>11. NativeTypes'
  <2>1. val[x] \notin raw
    BY <1>2, <1>3, CellFacts DEF NativeTypes
  <2> QED BY <1>1, <1>2, <1>6, <2>1 DEF NativeTypes
<1>12. NeedsLive'
  BY <1>2, <1>3, <1>4, <1>6 DEF NeedsLive, NativeTypes
<1>13. OneOwner'
  <2>1. ASSUME NEW k, k # Null
        PROVE  k \in Held' <=> k = h \/ k \in Held \ {val[x]}
    <3>1. k \in Held <=> \E z \in Cells : val[z] = k
      BY <2>1, HeldIff
    <3>2. k \in Held' <=> \E z \in Cells : val'[z] = k
      BY <2>1 DEF Held, Vals
    <3>3. ASSUME NEW z \in Cells
          PROVE  val'[z] = k => k = h \/ (k \in Held /\ k # val[x])
      BY <1>3, <1>8, <1>10, <1>6, <2>1, <3>1
    <3>4. ASSUME NEW z \in Cells, val[z] = k, k # val[x]
          PROVE  val'[z] = k
      BY <1>8, <3>4
    <3> QED BY <1>3, <1>8, <3>1, <3>2, <3>3, <3>4
  <2>2. Null \notin Held' /\ Null \notin live
    BY <1>2, <1>3 DEF Held, Vals, NativeTypes
  <2>3. Held' = (Held \ {val[x]}) \cup ({h} \ {Null})
    <3>1. Null \notin Held
      BY DEF Held, Vals
    <3> QED BY <2>1, <2>2, <3>1
  <2>4. val[x] \notin raw
    BY <1>2, <1>3, CellFacts DEF NativeTypes
  <2>5. live' = raw' \cup Held' /\ raw' \cap Held' = {}
    BY <1>1, <1>2, <1>6, <1>7, <2>2, <2>3, <2>4 DEF OneOwner
  <2>6. \A z, w \in Cells : val'[z] = val'[w] /\ z # w => val'[z] = Null
    <3>1. \A z \in Cells \ {x} : h # Null => val[z] # h
      BY <1>7, HeldIff
    <3> QED BY <1>2, <1>8, <3>1 DEF OneOwner
  <2> QED BY <2>5, <2>6 DEF OneOwner
<1>14. DeleterFits'
  <2> SUFFICES ASSUME NEW z \in Cells, val'[z] # Null
               PROVE  cls'[z] = ClassOf[val'[z]] /\ own'[z] = parent'[val'[z]]
    BY DEF DeleterFits
  <2>1. CASE z = x
    BY <1>1, <1>6, <1>7, <1>8, <2>1
  <2>2. CASE z # x
    BY <1>1, <1>2, <1>6, <1>8, <1>10, <2>2 DEF DeleterFits
  <2> QED BY <2>1, <2>2
<1>15. fault' = fault
  BY <1>6 DEF IInv, UInv, TypeOK
<1> QED BY <1>1, <1>2, <1>6, <1>9, <1>11, <1>12, <1>13, <1>14, <1>15, CallDone DEF Begin

-----------------------------------------------------------------------------
(* Calls that work on several cells.                                       *)

Tasks == [op : {"assign", "destroy"}, to : Cells, from : Cells \cup {Null}]

LEMMA Started ==
  ASSUME IInv, Begin, UNCHANGED <<cells, native, raw, exchange, fault>>,
         todo' \in Seq(Tasks), TodoFits', TodoSafe'
  PROVE  IInv'
<1>1. /\ cls' = cls /\ own' = own /\ val' = val /\ mate' = mate
      /\ live' = live /\ parent' = parent /\ needs' = needs
      /\ raw' = raw /\ exchange' = exchange /\ fault' = fault
  BY DEF cells, native
<1>2. /\ CellTypes /\ NativeTypes /\ OneOwner /\ DeleterFits /\ OwnersLive
      /\ NeedsFit /\ NeedsLive
      /\ (\A z \in Cells : mate[z] # Null =>
           cls[z] = "Allocation" /\ cls[mate[z]] \in PairClasses)
      /\ (\A z, w \in Cells : mate[z] = mate[w] /\ mate[z] # Null => z = w)
  BY BetweenCalls
<1>3. exchange \in BOOLEAN /\ fault = FALSE
  BY DEF IInv, UInv, TypeOK
<1>4. TypeOK'
  BY <1>1, <1>2, <1>3 DEF TypeOK, CellTypes, NativeTypes, Tasks
<1>5. OneOwner' /\ DeleterFits' /\ OwnersLive' /\ NeedsFit'
  BY <1>1, <1>2 DEF OneOwner, DeleterFits, OwnersLive, NeedsFit, Held, Vals
<1>6. PairsFit'
  BY <1>1, <1>2 DEF PairsFit
<1>7. MemoryKept'
  BY <1>1, <1>2 DEF MemoryKept, NeedsLive
<1> QED BY <1>4, <1>5, <1>6, <1>7 DEF IInv, UInv

(* What nothing in use needs, but perhaps another of them, owns nothing.   *)
LEMMA Childless ==
  ASSUME IInv, NEW S, Unneeded(S), Null \notin S,
         \A v \in S : ClassOf[v] \in RootClasses => S = {v}
  PROVE  \A v \in S : \A h \in live : parent[h] # v
<1> SUFFICES ASSUME NEW v \in S, NEW h \in live, parent[h] = v
             PROVE  FALSE
  OBVIOUS
<1>1. h \in S
  BY UnneededParents
<1>2. IF ClassOf[h] \in RootClasses THEN parent[h] = Null
      ELSE parent[h] \in live /\ ClassOf[parent[h]] \in RootClasses
  BY DEF IInv, UInv, OwnersLive
<1> QED BY <1>1, <1>2

LEMMA MoveAssignStep ==
  ASSUME IInv, NEW x \in Using, NEW y \in Using, cls[x] = cls[y], MoveAssign(x, y)
  PROVE  IInv'
<1>1. /\ Begin /\ Unneeded(Vals({x})) /\ todo' = <<Task("assign", x, y)>>
      /\ UNCHANGED <<cells, native, raw, exchange, fault>>
  BY DEF MoveAssign
<1>2. x \in Cells /\ y \in Cells
  BY DEF Using
<1> DEFINE t == Task("assign", x, y)
<1>3. t \in Tasks /\ t.op = "assign" /\ t.to = x /\ t.from = y
  BY <1>2 DEF Task, Tasks
<1> HIDE DEF t
<1>4. todo' = <<t>>
  BY <1>1 DEF t
<1>5. todo' \in Seq(Tasks) /\ Len(todo') = 1 /\ todo'[1] = t
  BY <1>3, <1>4
<1>6. TodoFits'
  BY <1>1, <1>2, <1>3, <1>5 DEF TodoFits, cells
<1>7. TodoSafe'
  <2>1. Vals({x}) = {val[x]} \ {Null}
    BY DEF Vals
  <2>2. val[x] # Null => \A h \in live : parent[h] # val[x]
    BY <1>1, <2>1, Childless
  <2>3. val[x] # Null => \A h \in live : h # val[x] => val[x] \notin needs[h]
    BY <1>1, <2>1 DEF Unneeded
  <2>4. val' = val /\ live' = live /\ parent' = parent /\ needs' = needs
    BY <1>1 DEF cells, native
  <2> QED BY <1>3, <1>5, <2>2, <2>3, <2>4 DEF TodoSafe
<1> QED BY <1>1, <1>5, <1>6, <1>7, Started

(* The values of a pair that is about to go.                               *)
LEMMA PairValues ==
  ASSUME IInv, Begin, NEW x \in Objects, mate[x] # Null, Unneeded(Vals(Object(x)))
  PROVE  /\ x \in Cells /\ mate[x] \in Cells /\ x # mate[x]
         /\ \A z \in Cells : mate[z] # x
         /\ cls[x] = "Allocation" /\ cls[mate[x]] \in PairClasses
         /\ val[x] # Null => \A h \in live :
              /\ parent[h] # val[x]
              /\ h # val[x] /\ val[x] \in needs[h] => h = val[mate[x]]
         /\ val[mate[x]] # Null => \A h \in live :
              parent[h] # val[mate[x]] /\ val[mate[x]] \notin needs[h]
<1>1. /\ CellTypes /\ NativeTypes /\ NeedsFit
      /\ (\A z \in Cells : mate[z] # Null =>
           cls[z] = "Allocation" /\ cls[mate[z]] \in PairClasses)
  BY BetweenCalls
<1>2. x \in Cells /\ mate[x] \in Cells /\ x # Null /\ \A z \in Cells : mate[z] # x
  BY <1>1, UniqueAssumption DEF Objects, Seconds, CellTypes
<1>3. cls[x] = "Allocation" /\ cls[mate[x]] \in PairClasses
  BY <1>1, <1>2
<1> DEFINE S == Vals(Object(x))
<1>4. S = {val[x], val[mate[x]]} \ {Null}
  BY <1>2, UniqueAssumption DEF Vals, Object
<1> HIDE DEF S
<1>5. Unneeded(S)
  BY DEF S
<1>6. \A v \in S : ClassOf[v] \notin RootClasses
  <2>1. val[x] # Null => ClassOf[val[x]] = "Allocation"
    BY <1>2, <1>3, CellFacts
  <2>2. val[mate[x]] # Null => ClassOf[val[mate[x]]] \in PairClasses
    BY <1>2, <1>3, CellFacts
  <2> QED BY <1>4, <2>1, <2>2 DEF RootClasses, PairClasses
<1>7. \A v \in S : \A h \in live : parent[h] # v
  BY <1>4, <1>5, <1>6, Childless
<1>8. ASSUME val[x] # Null, NEW h \in live, h # val[x], val[x] \in needs[h]
      PROVE  h = val[mate[x]]
  BY <1>4, <1>5, <1>8 DEF Unneeded
<1>9. ASSUME val[mate[x]] # Null, NEW h \in live
      PROVE  val[mate[x]] \notin needs[h]
  <2>1. ClassOf[val[mate[x]]] \in PairClasses
    BY <1>2, <1>3, <1>9, CellFacts
  <2> QED BY <1>1, <2>1 DEF NeedsFit
<1>10. x # mate[x]
  BY <1>3 DEF PairClasses
<1> QED BY <1>2, <1>3, <1>4, <1>7, <1>8, <1>9, <1>10

LEMMA MoveAssignPairStep ==
  ASSUME IInv, NEW x \in Objects, NEW y \in Objects, mate[x] # Null, mate[y] # Null,
         cls[mate[x]] = cls[mate[y]], MoveAssignPair(x, y)
  PROVE  IInv'
<1>1. /\ Begin /\ Unneeded(Vals(Object(x)))
      /\ todo' = <<Task("assign", x, y), Task("assign", mate[x], mate[y])>>
      /\ UNCHANGED <<cells, native, raw, exchange, fault>>
  BY DEF MoveAssignPair
<1>2. /\ CellTypes
      /\ (\A z \in Cells : mate[z] # Null =>
           cls[z] = "Allocation" /\ cls[mate[z]] \in PairClasses)
      /\ (\A z, w \in Cells : mate[z] = mate[w] /\ mate[z] # Null => z = w)
  BY <1>1, BetweenCalls
<1>3. /\ x \in Cells /\ mate[x] \in Cells /\ x # mate[x]
      /\ cls[x] = "Allocation" /\ cls[mate[x]] \in PairClasses
      /\ (val[x] # Null => \A h \in live :
            /\ parent[h] # val[x]
            /\ h # val[x] /\ val[x] \in needs[h] => h = val[mate[x]])
      /\ (val[mate[x]] # Null => \A h \in live :
            parent[h] # val[mate[x]] /\ val[mate[x]] \notin needs[h])
  BY <1>1, PairValues
<1>4. y \in Cells /\ mate[y] \in Cells /\ cls[y] = "Allocation" /\ mate[x] # y
  BY <1>2, <1>3 DEF Objects, Seconds, CellTypes
<1> DEFINE t == Task("assign", x, y)
           u == Task("assign", mate[x], mate[y])
<1>5. /\ t \in Tasks /\ t.op = "assign" /\ t.to = x /\ t.from = y
      /\ u \in Tasks /\ u.op = "assign" /\ u.to = mate[x] /\ u.from = mate[y]
  BY <1>3, <1>4 DEF Task, Tasks
<1>6. todo' = <<t, u>>
  BY <1>1
<1> HIDE DEF t, u
<1>7. todo' \in Seq(Tasks) /\ Len(todo') = 2 /\ todo'[1] = t /\ todo'[2] = u
  BY <1>5, <1>6
<1>8. /\ cls' = cls /\ mate' = mate /\ val' = val
      /\ live' = live /\ parent' = parent /\ needs' = needs
  BY <1>1 DEF cells, native
<1>9. TodoFits'
  <2>1. x = y <=> mate[x] = mate[y]
    BY <1>2, <1>3, <1>4
  <2> QED BY <1>3, <1>4, <1>5, <1>7, <1>8, <2>1 DEF TodoFits
<1>10. TodoSafe'
  <2> SUFFICES ASSUME NEW i \in 1 .. 2, val[todo'[i].to] # Null, NEW h \in live
               PROVE  /\ parent[h] # val[todo'[i].to]
                      /\ h # val[todo'[i].to] /\ val[todo'[i].to] \in needs[h] =>
                           i = 1 /\ h = val[u.to]
    BY <1>5, <1>7, <1>8 DEF TodoSafe
  <2>1. CASE i = 1
    BY <1>3, <1>5, <1>7, <2>1
  <2>2. CASE i = 2
    BY <1>3, <1>5, <1>7, <2>2
  <2> QED BY <2>1, <2>2
<1> QED BY <1>1, <1>7, <1>9, <1>10, Started

LEMMA DestructStep ==
  ASSUME IInv, NEW x \in Objects, Destruct(x)
  PROVE  IInv'
<1>1. /\ Begin /\ Unneeded(Vals(Object(x)))
      /\ todo' = IF mate[x] = Null THEN <<Task("destroy", x, Null)>>
                 ELSE <<Task("destroy", mate[x], Null), Task("destroy", x, Null)>>
      /\ UNCHANGED <<cells, native, raw, exchange, fault>>
  BY DEF Destruct
<1>2. /\ CellTypes
      /\ (\A z, w \in Cells : mate[z] = mate[w] /\ mate[z] # Null => z = w)
  BY <1>1, BetweenCalls
<1>3. x \in Cells /\ x # Null /\ \A z \in Cells : mate[z] # x
  BY UniqueAssumption DEF Objects, Seconds
<1>4. /\ cls' = cls /\ mate' = mate /\ val' = val
      /\ live' = live /\ parent' = parent /\ needs' = needs
  BY <1>1 DEF cells, native
<1> DEFINE t == Task("destroy", x, Null)
           u == Task("destroy", mate[x], Null)
<1>5. t \in Tasks /\ t.op = "destroy" /\ t.to = x /\ t.from = Null
  BY <1>3 DEF Task, Tasks
<1>6. CASE mate[x] = Null
  <2>1. todo' = <<t>>
    BY <1>1, <1>6
  <2> HIDE DEF t
  <2>2. todo' \in Seq(Tasks) /\ Len(todo') = 1 /\ todo'[1] = t
    BY <1>5, <2>1
  <2>3. TodoFits'
    BY <1>3, <1>4, <1>5, <2>2 DEF TodoFits
  <2>4. Vals(Object(x)) = {val[x]} \ {Null}
    BY <1>3, <1>6 DEF Vals, Object
  <2>5. val[x] # Null => \A h \in live : parent[h] # val[x]
    BY <1>1, <2>4, Childless
  <2>6. val[x] # Null => \A h \in live : h # val[x] => val[x] \notin needs[h]
    BY <1>1, <2>4 DEF Unneeded
  <2>7. TodoSafe'
    BY <1>4, <1>5, <2>2, <2>5, <2>6 DEF TodoSafe
  <2> QED BY <1>1, <2>2, <2>3, <2>7, Started
<1>7. CASE mate[x] # Null
  <2>1. /\ mate[x] \in Cells /\ x # mate[x]
        /\ (val[x] # Null => \A h \in live :
              /\ parent[h] # val[x]
              /\ h # val[x] /\ val[x] \in needs[h] => h = val[mate[x]])
        /\ (val[mate[x]] # Null => \A h \in live :
              parent[h] # val[mate[x]] /\ val[mate[x]] \notin needs[h])
    BY <1>1, <1>7, PairValues
  <2>2. u \in Tasks /\ u.op = "destroy" /\ u.to = mate[x] /\ u.from = Null
    BY <2>1 DEF Task, Tasks
  <2>3. todo' = <<u, t>>
    BY <1>1, <1>7
  <2> HIDE DEF t, u
  <2>4. todo' \in Seq(Tasks) /\ Len(todo') = 2 /\ todo'[1] = u /\ todo'[2] = t
    BY <1>5, <2>2, <2>3
  <2>5. TodoFits'
    <3>1. \A z \in Cells : mate[z] = mate[x] => z = x
      BY <1>2, <1>3, <1>7
    <3> QED BY <1>3, <1>4, <1>5, <1>7, <2>1, <2>2, <2>4, <3>1 DEF TodoFits
  <2>6. TodoSafe'
    <3> SUFFICES ASSUME NEW i \in 1 .. 2, val[todo'[i].to] # Null, NEW h \in live
                 PROVE  /\ parent[h] # val[todo'[i].to]
                        /\ h # val[todo'[i].to] /\ val[todo'[i].to] \in needs[h] =>
                             i = 2 /\ h = val[u.to]
      BY <1>4, <2>2, <2>4 DEF TodoSafe
    <3>1. CASE i = 1
      BY <2>1, <2>2, <2>4, <3>1
    <3>2. CASE i = 2
      BY <1>5, <2>1, <2>2, <2>4, <3>2
    <3> QED BY <3>1, <3>2
  <2> QED BY <1>1, <2>4, <2>5, <2>6, Started
<1> QED BY <1>6, <1>7

LEMMA TailOfTwo ==
  ASSUME NEW T, NEW s \in Seq(T), s # <<>>
  PROVE  /\ Len(s) # 0
         /\ Tail(s) \in Seq(T) /\ Len(Tail(s)) = Len(s) - 1
         /\ Len(s) = 2 => Tail(s)[1] = s[2]
<1>1. Len(s) # 0
  OBVIOUS
<1>2. Tail(s) \in Seq(T) /\ Len(Tail(s)) = Len(s) - 1
  OBVIOUS
<1>3. Len(s) = 2 => Tail(s)[1] = s[2]
  OBVIOUS
<1> QED BY <1>1, <1>2, <1>3

LEMMA TodoShape ==
  ASSUME IInv, todo # <<>>
  PROVE  /\ Len(todo) \in {1, 2}
         /\ Head(todo) = todo[1] /\ todo[1] \in Tasks
         /\ Tail(todo) \in Seq(Tasks) /\ Len(Tail(todo)) = Len(todo) - 1
         /\ Len(todo) = 2 => Tail(todo)[1] = todo[2] /\ todo[2] \in Tasks
<1>1. todo \in Seq(Tasks) /\ Len(todo) <= 2
  BY DEF IInv, UInv, TypeOK, TodoFits, Tasks
<1>2. /\ Len(todo) # 0
      /\ Tail(todo) \in Seq(Tasks) /\ Len(Tail(todo)) = Len(todo) - 1
      /\ Len(todo) = 2 => Tail(todo)[1] = todo[2]
  BY <1>1, TailOfTwo
<1>3. Len(todo) \in {1, 2}
  BY <1>1, <1>2
<1>4. \A i \in 1 .. Len(todo) : todo[i] \in Tasks
  BY <1>1
<1>5. todo[1] \in Tasks /\ (Len(todo) = 2 => todo[2] \in Tasks)
  BY <1>3, <1>4
<1>6. Head(todo) = todo[1]
  BY <1>1
<1> QED BY <1>2, <1>3, <1>5, <1>6

LEMMA StepAssignStep ==
  ASSUME IInv, StepAssign
  PROVE  IInv'
<1> DEFINE x == todo[1].to
           y == todo[1].from
           n == Len(todo)
<1>1. /\ n \in {1, 2} /\ Head(todo) = todo[1] /\ todo[1] \in Tasks
      /\ Tail(todo) \in Seq(Tasks) /\ Len(Tail(todo)) = n - 1
      /\ n = 2 => Tail(todo)[1] = todo[2] /\ todo[2] \in Tasks
  BY TodoShape DEF StepAssign
<1>2. /\ todo[1].op = "assign"
      /\ IF x = y THEN UNCHANGED <<native, fault>> ELSE DestroyHeld(x)
      /\ val' = [val EXCEPT ![y] = Null, ![x] = val[y]]
      /\ own' = [own EXCEPT ![y] = LeftOwner(y), ![x] = own[y]]
      /\ todo' = Tail(todo) /\ cls' = cls /\ mate' = mate /\ raw' = raw
      /\ exchange' = exchange
  BY <1>1 DEF StepAssign
<1>3. UInv /\ NeedsFit /\ PairsFit /\ TodoFits /\ TodoSafe /\ MemoryKept
  BY DEF IInv
<1>4. x \in Cells /\ y \in Cells /\ cls[x] = cls[y]
  BY <1>1, <1>2, <1>3 DEF TodoFits, Tasks
<1>5. n = 2 => /\ todo[2].op = "assign"
               /\ todo[2].to \in Cells /\ todo[2].from \in Cells
               /\ cls[todo[2].to] = cls[todo[2].from]
               /\ todo[2].to \notin {x, y}
               /\ x = y <=> todo[2].to = todo[2].from
  BY <1>1, <1>2, <1>3 DEF TodoFits, Tasks
<1>6. todo' \in Seq(Tasks) /\ Len(todo') = n - 1 /\ (n = 2 => todo'[1] = todo[2])
  BY <1>1, <1>2
<1>7. CellTypes /\ NativeTypes /\ OneOwner /\ DeleterFits /\ OwnersLive
  BY <1>3 DEF UInv, TypeOK, CellTypes, NativeTypes
<1>8. TodoFits'
  BY <1>1, <1>2, <1>5, <1>6 DEF TodoFits
<1>9. PairsFit'
  <2>1. Doomed = {} /\ Doomed' = {}
    BY <1>1, <1>2, <1>5, <1>6 DEF Doomed
  <2> QED BY <1>2, <1>3, <2>1 DEF PairsFit
<1>10. LeftOwner(y) \in Handles \cup {Null}
  BY <1>4, <1>7 DEF LeftOwner, CellTypes
<1>11. CellTypes'
  BY <1>2, <1>4, <1>7, <1>10 DEF CellTypes
<1>12. val[x] # Null => \A h \in live :
         /\ parent[h] # val[x]
         /\ h # val[x] /\ val[x] \in needs[h] => n = 2 /\ h = val[todo[2].to]
  BY <1>1, <1>2, <1>3 DEF TodoSafe
<1>13. n = 2 /\ val[todo[2].to] # Null => \A h \in live :
         /\ parent[h] # val[todo[2].to]
         /\ h # val[todo[2].to] => val[todo[2].to] \notin needs[h]
  BY <1>1, <1>2, <1>3 DEF TodoSafe
<1>14. fault = FALSE /\ exchange \in BOOLEAN
  BY <1>3 DEF UInv, TypeOK
<1>15. CASE x = y
  <2>1. /\ live' = live /\ parent' = parent /\ needs' = needs /\ fault' = fault
        /\ val' = val /\ own' = own
    BY <1>2, <1>4, <1>7, <1>15 DEF native, CellTypes
  <2>2. TypeOK'
    BY <1>2, <1>6, <1>7, <1>11, <1>14, <2>1 DEF TypeOK, CellTypes, NativeTypes, Tasks
  <2>3. OneOwner' /\ DeleterFits' /\ OwnersLive' /\ NeedsFit'
    <3>1. Held' = Held
      BY <2>1 DEF Held, Vals
    <3>2. OneOwner'
      BY <1>2, <1>7, <2>1, <3>1 DEF OneOwner
    <3>3. DeleterFits'
      BY <1>2, <1>7, <2>1 DEF DeleterFits
    <3>4. OwnersLive' /\ NeedsFit'
      BY <1>3, <1>7, <2>1 DEF OwnersLive, NeedsFit
    <3> QED BY <3>2, <3>3, <3>4
  <2>4. TodoSafe'
    BY <1>1, <1>6, <1>13, <2>1 DEF TodoSafe
  <2>5. MemoryKept'
    <3>1. \A h : ~Lost(h)
      BY <1>1, <1>15 DEF Lost
    <3> QED BY <1>3, <2>1, <3>1 DEF MemoryKept
  <2> QED BY <1>8, <1>9, <2>2, <2>3, <2>4, <2>5 DEF IInv, UInv
<1>16. CASE x # y
  <2>1. /\ fault' = FALSE
        /\ live' = live \ {val[x]}
        /\ parent' \in [Handles -> Handles \cup {Null}]
        /\ needs' \in [Handles -> SUBSET Handles]
        /\ live' \subseteq Handles
        /\ (\A h \in live' : parent'[h] = parent[h] /\ needs'[h] = needs[h])
        /\ OwnersLive' /\ NeedsFit'
    BY <1>2, <1>4, <1>12, <1>16, HeldDestroyed
  <2>2. /\ val'[x] = val[y] /\ val'[y] = Null /\ own'[x] = own[y]
        /\ \A z \in Cells \ {x, y} : val'[z] = val[z] /\ own'[z] = own[z]
    BY <1>2, <1>4, <1>7, <1>16 DEF CellTypes
  <2>3. \A z \in Cells \ {x} : val[z] # Null => val[z] \in live' /\ val[z] # val[x]
    BY <1>4, <2>1, OthersKeep
  <2>4. val[x] \notin raw /\ Null \notin live
    BY <1>4, <1>7, CellFacts, UniqueAssumption DEF NativeTypes
  <2>5. TypeOK'
    <3>1. raw' \subseteq live'
      BY <1>2, <1>7, <2>1, <2>4 DEF NativeTypes
    <3> QED BY <1>2, <1>6, <1>11, <1>14, <2>1, <3>1 DEF TypeOK, CellTypes, Tasks
  <2>6. OneOwner'
    <3>1. ASSUME NEW k
          PROVE  k \in Held' <=> k \in Held /\ k # val[x]
      <4>1. k \in Held <=> k # Null /\ \E z \in Cells : val[z] = k
        BY HeldIff
      <4>2. k \in Held' <=> k # Null /\ \E z \in Cells : val'[z] = k
        BY DEF Held, Vals
      <4>3. ASSUME k # Null, NEW z \in Cells, val'[z] = k
            PROVE  k # val[x] /\ \E w \in Cells : val[w] = k
        <5>1. CASE z = x
          BY <1>4, <1>16, <2>2, <2>3, <4>3, <5>1
        <5>2. CASE z # x
          BY <1>4, <2>2, <2>3, <4>3, <5>2
        <5> QED BY <5>1, <5>2
      <4>4. ASSUME k # val[x], NEW z \in Cells, val[z] = k
            PROVE  \E w \in Cells : val'[w] = k
        BY <1>4, <2>2, <4>4
      <4> QED BY <4>1, <4>2, <4>3, <4>4
    <3>2. live' = raw' \cup Held' /\ raw' \cap Held' = {}
      BY <1>2, <1>7, <2>1, <2>4, <3>1 DEF OneOwner
    <3>3. \A z, w \in Cells : val'[z] = val'[w] /\ z # w => val'[z] = Null
      BY <1>4, <1>7, <2>2 DEF OneOwner
    <3> QED BY <3>2, <3>3 DEF OneOwner
  <2>7. DeleterFits'
    <3> SUFFICES ASSUME NEW z \in Cells, val'[z] # Null
                 PROVE  cls'[z] = ClassOf[val'[z]] /\ own'[z] = parent'[val'[z]]
      BY DEF DeleterFits
    <3>1. CASE z = x
      <4>1. val'[z] = val[y] /\ own'[z] = own[y] /\ cls'[z] = cls[y] /\ val[y] \in live'
        BY <1>2, <1>4, <1>16, <2>2, <2>3, <3>1
      <4>2. cls[y] = ClassOf[val[y]] /\ own[y] = parent[val[y]]
        BY <1>4, <1>7, <3>1, <4>1 DEF DeleterFits
      <4> QED BY <2>1, <4>1, <4>2
    <3>2. CASE z # x
      <4>1. /\ val'[z] = val[z] /\ own'[z] = own[z] /\ cls'[z] = cls[z]
            /\ val[z] \in live'
        BY <1>2, <2>2, <2>3, <3>2
      <4>2. cls[z] = ClassOf[val[z]] /\ own[z] = parent[val[z]]
        BY <1>7, <4>1 DEF DeleterFits
      <4> QED BY <2>1, <4>1, <4>2
    <3> QED BY <3>1, <3>2
  <2>8. TodoSafe'
    <3>1. n = 2 => val'[todo[2].to] = val[todo[2].to]
      BY <1>5, <2>2
    <3> QED BY <1>1, <1>6, <1>13, <2>1, <3>1 DEF TodoSafe
  <2>9. MemoryKept'
    <3> SUFFICES ASSUME NEW h \in live'
                 PROVE  needs'[h] \subseteq live' \/ Lost(h)'
      BY DEF MemoryKept
    <3>1. needs'[h] = needs[h] /\ h \in live /\ h # val[x]
      BY <2>1
    <3>2. needs[h] \subseteq live
      BY <1>3, <3>1 DEF MemoryKept, Lost
    <3>3. CASE val[x] \in needs[h]
      <4>1. n = 2 /\ h = val[todo[2].to]
        BY <1>12, <2>4, <3>1, <3>2, <3>3
      <4>2. Lost(h)'
        BY <1>1, <1>5, <1>6, <1>16, <2>2, <4>1 DEF Lost
      <4> QED BY <4>2
    <3>4. CASE val[x] \notin needs[h]
      BY <2>1, <3>1, <3>2, <3>4
    <3> QED BY <3>3, <3>4
  <2> QED BY <1>8, <1>9, <2>1, <2>5, <2>6, <2>7, <2>8, <2>9 DEF IInv, UInv
<1> QED BY <1>15, <1>16

LEMMA StepDestroyStep ==
  ASSUME IInv, StepDestroy
  PROVE  IInv'
<1> DEFINE x == todo[1].to
           n == Len(todo)
<1>1. /\ n \in {1, 2} /\ Head(todo) = todo[1] /\ todo[1] \in Tasks
      /\ Tail(todo) \in Seq(Tasks) /\ Len(Tail(todo)) = n - 1
      /\ n = 2 => Tail(todo)[1] = todo[2] /\ todo[2] \in Tasks
  BY TodoShape DEF StepDestroy
<1>2. /\ todo[1].op = "destroy" /\ DestroyHeld(x)
      /\ cls' = [cls EXCEPT ![x] = "none"]
      /\ own' = [own EXCEPT ![x] = Null]
      /\ val' = [val EXCEPT ![x] = Null]
      /\ mate' = [mate EXCEPT ![x] = Null]
      /\ todo' = Tail(todo) /\ raw' = raw /\ exchange' = exchange
  BY <1>1 DEF StepDestroy
<1>3. UInv /\ NeedsFit /\ PairsFit /\ TodoFits /\ TodoSafe /\ MemoryKept
  BY DEF IInv
<1>4. x \in Cells /\ Null \notin Cells
  BY <1>1, UniqueAssumption DEF Tasks
<1>5. n = 2 => /\ todo[2].op = "destroy" /\ todo[2].from = Null
               /\ todo[2].to \in Cells /\ todo[2].to # x
               /\ \A z \in Cells : mate[z] # todo[2].to
  BY <1>1, <1>2, <1>3 DEF TodoFits, Tasks
<1>6. \A z \in Cells : mate[z] = x => n = 2 /\ todo[2].to = z
  BY <1>1, <1>2, <1>3 DEF TodoFits
<1>7. todo' \in Seq(Tasks) /\ Len(todo') = n - 1 /\ (n = 2 => todo'[1] = todo[2])
  BY <1>1, <1>2
<1>8. CellTypes /\ NativeTypes /\ OneOwner /\ DeleterFits
  BY <1>3 DEF UInv, TypeOK, CellTypes, NativeTypes
<1>9. /\ cls'[x] = "none" /\ own'[x] = Null /\ val'[x] = Null /\ mate'[x] = Null
      /\ \A z \in Cells \ {x} : /\ cls'[z] = cls[z] /\ own'[z] = own[z]
                                /\ val'[z] = val[z] /\ mate'[z] = mate[z]
  BY <1>2, <1>4, <1>8 DEF CellTypes
<1>10. CellTypes'
  BY <1>2, <1>4, <1>8 DEF CellTypes
<1>11. val[x] # Null => \A h \in live :
         /\ parent[h] # val[x]
         /\ h # val[x] => val[x] \notin needs[h]
  BY <1>1, <1>2, <1>3 DEF TodoSafe
<1>12. n = 2 /\ val[todo[2].to] # Null => \A h \in live :
         /\ parent[h] # val[todo[2].to]
         /\ h # val[todo[2].to] /\ val[todo[2].to] \in needs[h] => h = val[x]
  BY <1>1, <1>2, <1>3 DEF TodoSafe
<1>13. /\ fault' = FALSE
       /\ live' = live \ {val[x]}
       /\ parent' \in [Handles -> Handles \cup {Null}]
       /\ needs' \in [Handles -> SUBSET Handles]
       /\ live' \subseteq Handles
       /\ (\A h \in live' : parent'[h] = parent[h] /\ needs'[h] = needs[h])
       /\ OwnersLive' /\ NeedsFit'
  BY <1>2, <1>4, <1>11, HeldDestroyed
<1>14. val[x] \notin raw /\ Null \notin live
  BY <1>4, <1>8, CellFacts, UniqueAssumption DEF NativeTypes
<1>15. TypeOK'
  <2>1. raw' \subseteq live' /\ exchange' \in BOOLEAN
    BY <1>2, <1>3, <1>8, <1>13, <1>14 DEF NativeTypes, UInv, TypeOK
  <2> QED BY <1>7, <1>10, <1>13, <2>1 DEF TypeOK, CellTypes, Tasks
<1>16. \A z \in Cells \ {x} : val[z] # Null => val[z] \in live' /\ val[z] # val[x]
  BY <1>4, <1>13, OthersKeep
<1>17. OneOwner'
  <2>1. ASSUME NEW k
        PROVE  k \in Held' <=> k \in Held /\ k # val[x]
    <3>1. k \in Held <=> k # Null /\ \E z \in Cells : val[z] = k
      BY HeldIff
    <3>2. k \in Held' <=> k # Null /\ \E z \in Cells : val'[z] = k
      BY DEF Held, Vals
    <3>3. ASSUME k # Null, NEW z \in Cells
          PROVE  val'[z] = k <=> val[z] = k /\ k # val[x]
      BY <1>9, <1>16, <3>3
    <3> QED BY <3>1, <3>2, <3>3
  <2>2. live' = raw' \cup Held' /\ raw' \cap Held' = {}
    BY <1>2, <1>8, <1>13, <1>14, <2>1 DEF OneOwner
  <2>3. \A z, w \in Cells : val'[z] = val'[w] /\ z # w => val'[z] = Null
    BY <1>8, <1>9 DEF OneOwner
  <2> QED BY <2>2, <2>3 DEF OneOwner
<1>18. DeleterFits'
  BY <1>8, <1>9, <1>13, <1>16 DEF DeleterFits
<1>19. TodoFits'
  <2>1. n = 2 => \A z \in Cells : mate'[z] # todo[2].to
    BY <1>4, <1>5, <1>9
  <2> QED BY <1>1, <1>5, <1>7, <2>1 DEF TodoFits
<1>20. PairsFit'
  <2>1. ASSUME NEW z \in Cells, mate'[z] # Null, z \notin Doomed'
        PROVE  cls'[z] = "Allocation" /\ cls'[mate'[z]] \in PairClasses
    <3>1. z # x /\ mate'[z] = mate[z]
      BY <1>9, <2>1
    <3>2. n = 2 => z # todo[2].to
      BY <1>5, <1>7, <2>1 DEF Doomed
    <3>3. z \notin Doomed
      BY <1>1, <3>1, <3>2 DEF Doomed
    <3>4. mate[z] # x /\ mate[z] \in Cells
      BY <1>6, <1>8, <2>1, <3>1, <3>2 DEF CellTypes
    <3> QED BY <1>3, <1>9, <2>1, <3>1, <3>3, <3>4 DEF PairsFit
  <2>2. \A z, w \in Cells : mate'[z] = mate'[w] /\ mate'[z] # Null => z = w
    BY <1>3, <1>9 DEF PairsFit
  <2> QED BY <2>1, <2>2 DEF PairsFit
<1>21. TodoSafe'
  <2>1. n = 2 => val'[todo[2].to] = val[todo[2].to]
    BY <1>5, <1>9
  <2> QED BY <1>1, <1>7, <1>12, <1>13, <2>1 DEF TodoSafe
<1>22. MemoryKept'
  <2>1. \A h : ~Lost(h)
    BY <1>2 DEF Lost
  <2>2. \A h \in live' : needs'[h] \subseteq live'
    BY <1>3, <1>11, <1>13, <1>14, <2>1 DEF MemoryKept
  <2> QED BY <2>2 DEF MemoryKept
<1> QED BY <1>13, <1>15, <1>17, <1>18, <1>19, <1>20, <1>21, <1>22 DEF IInv, UInv

-----------------------------------------------------------------------------
(* All steps together.                                                     *)

LEMMA InitStep == Init => IInv
<1> SUFFICES ASSUME Init PROVE IInv
  OBVIOUS
<1>1. TypeOK
  BY DEF Init, TypeOK
<1>2. \A x \in Cells : val[x] = Null /\ mate[x] = Null
  BY DEF Init
<1>3. Held = {}
  BY <1>2, HeldIff
<1>4. OneOwner
  BY <1>2, <1>3 DEF Init, OneOwner
<1>5. DeleterFits /\ OwnersLive /\ NeedsFit /\ MemoryKept
  BY <1>2 DEF Init, DeleterFits, OwnersLive, NeedsFit, MemoryKept
<1>6. PairsFit /\ TodoFits /\ TodoSafe
  BY <1>2 DEF Init, PairsFit, TodoFits, TodoSafe
<1> QED BY <1>1, <1>4, <1>5, <1>6 DEF IInv, UInv

(* The classes of what a client owns and of what only it owns.             *)
LEMMA Classes ==
  /\ RootClasses \subseteq UniqueClasses /\ OwnedClasses \subseteq UniqueClasses
  /\ UniqueClasses \subseteq PlainClasses
  /\ {"Pool", "Allocation", "VirtualAllocation"} \subseteq OwnedClasses \ RootClasses
  /\ PairClasses \subseteq OwnedClasses \ RootClasses
  /\ "Allocation" \notin PairClasses
BY DEF PlainClasses, UniqueClasses, OwnedClasses, RootClasses, PairClasses

LEMMA FreshFacts ==
  ASSUME NEW c, NEW h \in Fresh(c)
  PROVE  h \in Handles \ live /\ ClassOf[h] = c
BY DEF Fresh

LEMMA UniqueCreationStep ==
  ASSUME IInv, NEW x \in Free,
         \/ \E c \in RootClasses : CreateRootUnique(c, x)
         \/ CreatePoolUnique(x)
         \/ AllocateMemoryUnique(x)
         \/ \E c \in PairClasses : AllocateMemoryForUnique(c, x)
         \/ VirtualAllocateUnique(x)
         \/ CreateAliasingBufferUnique(x)
         \/ CreateAliasingImageUnique(x)
  PROVE  IInv'
<1>1. ASSUME NEW c \in RootClasses, CreateRootUnique(c, x)
      PROVE  IInv'
  BY <1>1, FreshFacts, Classes, UniqueStep DEF CreateRootUnique
<1>2. ASSUME CreatePoolUnique(x)
      PROVE  IInv'
  <2>1. PICK h \in Fresh("Pool"), a \in Owners("Pool") : NewUnique(x, h, a, {})
    BY <1>2 DEF CreatePoolUnique
  <2>2. a \in live /\ ClassOf[a] \in RootClasses
    BY Classes, OwnersFacts
  <2> QED BY <2>1, <2>2, FreshFacts, Classes, UniqueStep
<1>3. ASSUME AllocateMemoryUnique(x)
      PROVE  IInv'
  <2>1. PICK h \in Fresh("Allocation"), a \in Owners("Allocation") :
          \E S \in PoolsOf(a) : NewUnique(x, h, a, S)
    BY <1>3 DEF AllocateMemoryUnique
  <2>2. a \in live /\ ClassOf[a] \in RootClasses
    BY Classes, OwnersFacts
  <2>3. PICK S \in PoolsOf(a) : NewUnique(x, h, a, S)
    BY <2>1
  <2> QED BY <2>2, <2>3, FreshFacts, PoolFacts, Classes, UniqueStep
<1>4. ASSUME NEW c \in PairClasses, AllocateMemoryForUnique(c, x)
      PROVE  IInv'
  <2>1. PICK h \in Fresh("Allocation"), r \in live :
          ClassOf[r] = c /\ \E S \in PoolsOf(parent[r]) : NewUnique(x, h, parent[r], S)
    BY <1>4 DEF AllocateMemoryForUnique
  <2>2. parent[r] \in live /\ ClassOf[parent[r]] \in RootClasses
    BY <2>1, Classes, LiveOwner
  <2>3. PICK S \in PoolsOf(parent[r]) : NewUnique(x, h, parent[r], S)
    BY <2>1
  <2> QED BY <2>2, <2>3, FreshFacts, PoolFacts, Classes, UniqueStep
<1>5. ASSUME VirtualAllocateUnique(x)
      PROVE  IInv'
  <2>1. PICK h \in Fresh("VirtualAllocation"), b \in Owners("VirtualAllocation") :
          NewUnique(x, h, b, {})
    BY <1>5 DEF VirtualAllocateUnique
  <2>2. b \in live /\ ClassOf[b] \in RootClasses
    BY Classes, OwnersFacts
  <2> QED BY <2>1, <2>2, FreshFacts, Classes, UniqueStep
<1>6. ASSUME NEW c \in PairClasses, CreateAliasing(c, x)
      PROVE  IInv'
  <2>1. PICK r \in Fresh(c), m \in live :
          ClassOf[m] = "Allocation" /\ NewUnique(x, r, parent[m], {m})
    BY <1>6 DEF CreateAliasing
  <2>2. parent[m] \in live /\ ClassOf[parent[m]] \in RootClasses
    BY <2>1, Classes, LiveOwner
  <2> QED BY <2>1, <2>2, FreshFacts, Classes, UniqueStep
<1>7. "Buffer" \in PairClasses /\ "Image" \in PairClasses
  BY DEF PairClasses
<1> QED BY <1>1, <1>2, <1>3, <1>4, <1>5, <1>6, <1>7
        DEF CreateAliasingBufferUnique, CreateAliasingImageUnique

LEMMA CreationStep ==
  ASSUME IInv, Creation
  PROVE  IInv'
<1>1. "Buffer" \in PairClasses /\ "Image" \in PairClasses
  BY DEF PairClasses
<1>2. ASSUME NEW c \in PlainClasses, CreatePlain(c)
      PROVE  IInv'
  BY <1>2, CreatePlainStep
<1>3. ASSUME NEW c \in PairClasses, CreateResource(c) \/ CreatePlainPair(c)
      PROVE  IInv'
  BY <1>3, CreatePlainStep, CreatePlainPairStep, Classes DEF CreateResource
<1>4. ASSUME NEW x \in Free, NEW c \in UniqueClasses, CreateFails(c, x)
      PROVE  IInv'
  BY <1>4, CreateFailsStep
<1>5. ASSUME NEW x \in Free, NEW y \in Free, x # y,
             \/ AllocateMemoryPagesUnique(x, y)
             \/ CreateBufferUnique(x, y)
             \/ CreateImageUnique(x, y)
      PROVE  IInv'
  BY <1>1, <1>5, AllocateMemoryPagesStep, CreatePairStep
     DEF CreateBufferUnique, CreateImageUnique
<1>6. ASSUME NEW r \in live, NEW m \in live, BindBufferMemory(r, m) \/ BindImageMemory(r, m)
      PROVE  IInv'
  BY <1>1, <1>6, BindMemoryStep DEF BindBufferMemory, BindImageMemory
<1> QED BY <1>2, <1>3, <1>4, <1>5, <1>6, UniqueCreationStep, Classes DEF Creation

LEMMA HandleOperationStep ==
  ASSUME IInv, HandleOperation
  PROVE  IInv'
<1>1. Used \subseteq UniqueClasses
  BY UniqueAssumption
<1>2. CASE \/ \E x \in Free, c \in Used : ConstructNull(c, x)
           \/ \E x \in Free, h \in raw : ClassOf[h] \in UniqueClasses /\ Adopt(x, h)
  BY <1>1, <1>2, ConstructNullStep, AdoptStep
<1>3. CASE \/ \E x \in Free, y \in Using : MoveConstruct(x, y)
           \/ \E x, z \in Free, y \in Objects :
                x # z /\ mate[y] # Null /\ MoveConstructPair(x, z, y)
  BY <1>3, MoveConstructStep, MoveConstructPairStep
<1>4. CASE \/ \E x, y \in Using : cls[x] = cls[y] /\ MoveAssign(x, y)
           \/ \E x, y \in Objects :
                /\ mate[x] # Null /\ mate[y] # Null
                /\ cls[mate[x]] = cls[mate[y]]
                /\ MoveAssignPair(x, y)
  BY <1>4, MoveAssignStep, MoveAssignPairStep
<1>5. CASE \/ \E x \in Using : Reset(x, Null)
           \/ \E x \in Using, h \in raw :
                ClassOf[h] = cls[x] /\ parent[h] = own[x] /\ Reset(x, h)
  BY <1>5, ResetStep
<1>6. CASE \/ \E x \in Using : val[x] # Null /\ Release(x)
           \/ \E x, y \in Using : x # y /\ cls[x] = cls[y] /\ Swap(x, y)
  BY <1>6, ReleaseStep, SwapStep
<1>7. CASE \E x \in Objects : Destruct(x)
  BY <1>7, DestructStep
<1> QED BY <1>2, <1>3, <1>4, <1>5, <1>6, <1>7 DEF HandleOperation

LEMMA Stutter ==
  ASSUME IInv, UNCHANGED vars
  PROVE  IInv'
<1>1. /\ cls' = cls /\ own' = own /\ val' = val /\ mate' = mate /\ live' = live
      /\ parent' = parent /\ needs' = needs /\ raw' = raw /\ todo' = todo
      /\ exchange' = exchange /\ fault' = fault
  BY DEF vars, cells, native
<1>2. UInv'
  BY <1>1 DEF IInv, UInv, TypeOK, OneOwner, Held, Vals, DeleterFits, OwnersLive
<1>3. NeedsFit' /\ PairsFit' /\ TodoFits'
  BY <1>1 DEF IInv, NeedsFit, PairsFit, Doomed, TodoFits
<1>4. TodoSafe' /\ MemoryKept'
  BY <1>1 DEF IInv, TodoSafe, MemoryKept, Lost
<1> QED BY <1>2, <1>3, <1>4 DEF IInv

LEMMA NextStep == IInv /\ [Next]_vars => IInv'
<1> SUFFICES ASSUME IInv, [Next]_vars PROVE IInv'
  OBVIOUS
<1>1. CASE Next
  BY <1>1, CreationStep, DestructionStep, HandleOperationStep,
     StepAssignStep, StepDestroyStep DEF Next, Step
<1>2. CASE UNCHANGED vars
  BY <1>2, Stutter
<1> QED BY <1>1, <1>2

(* Memory is lost to a pair assignment only.                               *)
LEMMA KeptLast == IInv => MemoryLast
<1> SUFFICES ASSUME IInv, NEW h \in live, h \notin Overwritten
             PROVE  needs[h] \subseteq live
  BY DEF MemoryLast
<1>1. MemoryKept /\ UInv
  BY DEF IInv
<1>2. ASSUME Lost(h)
      PROVE  FALSE
  <2>1. Len(todo) = 1 /\ todo[1].op = "assign" /\ h = val[todo[1].to]
    BY <1>2 DEF Lost
  <2>2. h # Null
    BY <1>1, UniqueAssumption DEF UInv, TypeOK
  <2>3. 1 \in {j \in 1 .. Len(todo) : todo[j].op = "assign"}
    BY <2>1
  <2>4. todo[1].to \in {todo[i].to : i \in {j \in 1 .. Len(todo) : todo[j].op = "assign"}}
    BY <2>3
  <2>5. h \in Overwritten
    BY <2>1, <2>2, <2>4 DEF Overwritten, Vals
  <2> QED BY <2>5
<1> QED BY <1>1, <1>2 DEF MemoryKept

-----------------------------------------------------------------------------
(* What the smart handles and the creating functions of                    *)
(* vk_mem_alloc_handles.hpp and vk_mem_alloc_funcs.hpp guarantee.          *)

(* The invariant that the others follow from.                              *)
THEOREM UniqueInductive == Spec => []IInv
<1> QED BY InitStep, NextStep, PTL DEF Spec

(* However a client creates, adopts, moves, swaps, resets, releases and    *)
(* destroys smart handles, single ones and pairs: every live native object *)
(* has one owner, an owner outlives what was created through it, and no    *)
(* deleter gets a handle that is gone or an owner that is not its own.     *)
THEOREM HandlesOwned == Spec => []UInv
<1>1. IInv => UInv
  BY DEF IInv
<1> QED BY <1>1, UniqueInductive, PTL

(* The order in which createBufferUnique() puts the memory and the buffer  *)
(* into the pair frees the memory last, save while a pair is assigned.     *)
THEOREM MemoryFreedLast == Spec => []MemoryLast
<1> QED BY KeptLast, UniqueInductive, PTL

-----------------------------------------------------------------------------
(* The passes of a defragmentation, ended by the overload with a pointer.  *)

MovesFit ==
  /\ moves \in [Handles -> SUBSET Handles]
  /\ \A c \in Handles : \A h \in moves[c] : ClassOf[h] = "Allocation"

PInv == IInv /\ MovesFit

(* Plain handles of D end; what the others need changes within reason.     *)
LEMMA PassStep ==
  ASSUME IInv, Begin, NEW D \in SUBSET raw,
         live' = live \ D, raw' = raw \ D,
         needs' \in [Handles -> SUBSET Handles],
         parent' \in [Handles -> Handles \cup {Null}],
         \A h \in live' : /\ parent'[h] = parent[h]
                          /\ parent[h] \notin D
                          /\ parent[h] # Null => parent[h] \in needs'[h]
                          /\ needs'[h] \subseteq live'
                          /\ \A g \in needs'[h] : ClassOf[g] \notin PairClasses,
         UNCHANGED <<cells, todo, exchange, fault>>
  PROVE  IInv'
<1>1. CellTypes /\ NativeTypes /\ OneOwner /\ DeleterFits /\ OwnersLive
  BY BetweenCalls
<1>2. /\ CellTypes' /\ Held' = Held
      /\ (\A z \in Cells : mate'[z] # Null =>
            cls'[z] = "Allocation" /\ cls'[mate'[z]] \in PairClasses)
      /\ (\A z, w \in Cells : mate'[z] = mate'[w] /\ mate'[z] # Null => z = w)
      /\ (\A z, w \in Cells : val'[z] = val'[w] /\ z # w => val'[z] = Null)
  BY CellsKept
<1>3. NativeTypes'
  BY <1>1 DEF NativeTypes
<1>4. OneOwner'
  BY <1>1, <1>2 DEF OneOwner
<1>5. DeleterFits'
  <2>1. cls' = cls /\ own' = own /\ val' = val
    BY DEF cells
  <2>2. \A z \in Cells : val[z] # Null => val[z] \in live'
    BY <1>1, HeldIff DEF OneOwner
  <2> QED BY <1>1, <2>1, <2>2 DEF DeleterFits
<1>6. OwnersLive'
  <2> SUFFICES ASSUME NEW h \in live'
               PROVE  IF ClassOf[h] \in RootClasses THEN parent'[h] = Null
                      ELSE parent'[h] \in live' /\ ClassOf[parent'[h]] \in RootClasses
    BY DEF OwnersLive
  <2>1. h \in live /\ parent'[h] = parent[h] /\ parent[h] \notin D
    OBVIOUS
  <2> QED BY <1>1, <2>1 DEF OwnersLive
<1>7. NeedsFit' /\ NeedsLive'
  BY DEF NeedsFit, NeedsLive
<1> QED BY <1>2, <1>3, <1>4, <1>5, <1>6, <1>7, CallDone DEF Begin

LEMMA BeginPassStep ==
  ASSUME PInv, NEW c \in Contexts, BeginPass(c)
  PROVE  PInv'
<1>1. IInv /\ MovesFit /\ Begin
  BY DEF PInv, BeginPass
<1>2. CellTypes /\ NativeTypes /\ NeedsFit /\ NeedsLive /\ OwnersLive
  BY <1>1, BetweenCalls
<1>3. PICK S : /\ S \subseteq live /\ (\A h \in S : ClassOf[h] = "Allocation")
               /\ moves' = [moves EXCEPT ![c] = S]
               /\ needs' = [needs EXCEPT ![c] = @ \cup S]
  BY DEF BeginPass
<1>4. /\ live' = live /\ parent' = parent /\ raw' = raw
      /\ UNCHANGED <<cells, todo, exchange, fault>>
  BY DEF BeginPass
<1>5. c \in raw /\ c \in Handles
  BY <1>2 DEF Contexts, NativeTypes
<1>6. needs' \in [Handles -> SUBSET Handles]
  BY <1>2, <1>3, <1>5 DEF NativeTypes
<1>7. IInv'
  <2>1. \A h \in live : needs[h] \subseteq needs'[h] /\ needs'[h] \subseteq needs[h] \cup S
    BY <1>2, <1>3, <1>5 DEF NativeTypes
  <2>2. ASSUME NEW h \in live
        PROVE  /\ parent[h] # Null => parent[h] \in needs'[h]
               /\ needs'[h] \subseteq live
               /\ \A g \in needs'[h] : ClassOf[g] \notin PairClasses
    BY <1>2, <1>3, <2>1, Classes DEF NeedsFit, NeedsLive
  <2>3. {} \in SUBSET raw /\ live' = live \ {} /\ raw' = raw \ {}
    BY <1>4
  <2>4. parent' \in [Handles -> Handles \cup {Null}]
    BY <1>2, <1>4 DEF NativeTypes
  <2> QED BY <1>1, <1>4, <1>6, <2>2, <2>3, <2>4, PassStep
<1>8. MovesFit'
  BY <1>1, <1>2, <1>3, <1>5 DEF MovesFit, NativeTypes
<1> QED BY <1>1, <1>4, <1>7, <1>8 DEF PInv

LEMMA EndPassStep ==
  ASSUME ~Enhanced, PInv, NEW c \in Contexts, NEW D \in SUBSET moves[c], EndPass(c, D)
  PROVE  PInv'
<1>1. IInv /\ MovesFit /\ Begin
  BY DEF PInv, EndPass
<1>2. CellTypes /\ NativeTypes /\ NeedsFit /\ NeedsLive /\ OwnersLive
  BY <1>1, BetweenCalls
<1>3. c \in raw /\ c \in Handles /\ ClassOf[c] = "DefragmentationContext"
  BY <1>2 DEF Contexts, NativeTypes
<1>4. D \cap PassInfo(c) = D
  BY DEF PassInfo
<1>5. /\ D \subseteq raw
      /\ \A h \in live \ (D \cup {c}) : needs[h] \cap D = {}
      /\ live' = live \ D /\ raw' = raw \ D
      /\ parent' = [h \in Handles |-> IF h \in D THEN Null ELSE parent[h]]
      /\ needs' = [h \in Handles |-> IF h \in D THEN {}
                                     ELSE IF h = c THEN needs[c] \ moves[c] ELSE needs[h]]
      /\ moves' = [moves EXCEPT ![c] = {}]
      /\ UNCHANGED <<cells, todo, exchange, fault>>
  BY <1>4 DEF EndPass
<1>6. \A h \in moves[c] : ClassOf[h] = "Allocation"
  BY <1>1, <1>3 DEF MovesFit
<1>7. needs' \in [Handles -> SUBSET Handles] /\ parent' \in [Handles -> Handles \cup {Null}]
  BY <1>2, <1>3, <1>5 DEF NativeTypes
<1>8. ASSUME NEW h \in live'
      PROVE  /\ parent'[h] = parent[h]
             /\ parent[h] \notin D
             /\ parent[h] # Null => parent[h] \in needs'[h]
             /\ needs'[h] \subseteq live'
             /\ \A g \in needs'[h] : ClassOf[g] \notin PairClasses
  <2>1. h \in live /\ h \notin D /\ h \in Handles
    BY <1>2, <1>5 DEF NativeTypes
  <2>2. parent'[h] = parent[h]
    BY <1>5, <2>1
  <2>3. parent[h] = Null \/ ClassOf[parent[h]] \in RootClasses
    BY <1>2, <2>1 DEF OwnersLive
  <2>4. parent[h] \notin moves[c]
    <3>1. ASSUME parent[h] \in moves[c]
          PROVE  FALSE
      <4>1. ClassOf[parent[h]] = "Allocation" /\ parent[h] \in Handles
        BY <1>1, <1>3, <1>6, <3>1 DEF MovesFit
      <4> QED BY <2>3, <4>1, Classes, UniqueAssumption
    <3> QED BY <3>1
  <2>5. needs'[h] = IF h = c THEN needs[h] \ moves[c] ELSE needs[h]
    BY <1>5, <2>1
  <2>6. needs'[h] \cap D = {}
    BY <1>5, <2>1, <2>5
  <2>7. /\ parent[h] # Null => parent[h] \in needs[h]
        /\ needs[h] \subseteq live
        /\ \A g \in needs[h] : ClassOf[g] \notin PairClasses
    BY <1>2, <2>1 DEF NeedsFit, NeedsLive
  <2>8. parent[h] \notin D
    BY <2>4
  <2>9. parent[h] # Null => parent[h] \in needs'[h]
    BY <2>4, <2>5, <2>7
  <2>10. needs'[h] \subseteq needs[h]
    BY <2>5
  <2>11. live' = live \ D
    BY <1>5
  <2>12. needs'[h] \subseteq live'
    BY <2>6, <2>7, <2>10, <2>11
  <2> QED BY <2>2, <2>7, <2>8, <2>9, <2>10, <2>12
<1>9. IInv'
  BY <1>1, <1>5, <1>7, <1>8, PassStep
<1>10. MovesFit'
  BY <1>1, <1>3, <1>5 DEF MovesFit
<1> QED BY <1>1, <1>5, <1>9, <1>10 DEF PInv

LEMMA PassNextStep == ~Enhanced /\ PInv /\ [PassNext]_passVars => PInv'
<1> SUFFICES ASSUME ~Enhanced, PInv, [PassNext]_passVars PROVE PInv'
  OBVIOUS
<1>1. ASSUME [Next]_vars, UNCHANGED passes
      PROVE  PInv'
  BY <1>1, NextStep DEF PInv, MovesFit, passes
<1>2. CASE PassNext
  <2>1. CASE Other
    BY <1>1, <2>1 DEF Other
  <2> QED BY <1>2, <2>1, BeginPassStep, EndPassStep DEF PassNext
<1>3. CASE UNCHANGED passVars
  BY <1>1, <1>3 DEF passVars
<1> QED BY <1>2, <1>3

LEMMA PassInitStep == PassInit => PInv
BY InitStep DEF PassInit, PInv, MovesFit

(* beginDefragmentationPass() and endDefragmentationPass() with the info   *)
(* that the client was given, on memory of plain and smart handles: all of *)
(* HandlesOwned and MemoryFreedLast holds, with the allocations that a     *)
(* pass needs and those that its end destroys.                             *)
THEOREM PassesOwned ==
  ASSUME ~Enhanced
  PROVE  PassSpec => [](UInv /\ MemoryLast)
<1>1. PassInit => PInv
  BY PassInitStep
<1>2. PInv /\ [PassNext]_passVars => PInv'
  BY PassNextStep
<1>3. PInv => UInv /\ MemoryLast
  BY KeptLast DEF PInv, IInv
<1> QED BY <1>1, <1>2, <1>3, PTL DEF PassSpec

=============================================================================
