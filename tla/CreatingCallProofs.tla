------------------------- MODULE CreatingCallProofs -------------------------
(***************************************************************************)
(* Proofs about CreatingCall for all sets of handles and all sizes: the    *)
(* invariants that the run call_atomic checks, and that the steps of a     *)
(* call implement AtomicCreation.                                          *)
(***************************************************************************)
EXTENDS CreatingCall, TLAPS

-----------------------------------------------------------------------------
(* OnePlace, said of each pair of variables.                               *)
Apart ==
  /\ \A o, p \in objects : o # p => o \cap p = {}
  /\ \A o, p \in built : o # p => o \cap p = {}
  /\ \A o \in objects, p \in built : o \cap p = {}
  /\ \A o \in objects \cup built : o \cap (client \cup dead \cup lost \cup made) = {}
  /\ client \cap (dead \cup lost \cup made) = {}
  /\ dead \cap (lost \cup made) = {}
  /\ lost \cap made = {}

LEMMA PlacesApart == OnePlace <=> Apart
<1> DEFINE places ==
      {<<"object", o>> : o \in objects} \cup {<<"element", o>> : o \in built}
        \cup {<<"client", client>>, <<"dead", dead>>, <<"lost", lost>>, <<"made", made>>}
<1>1. OnePlace <=> \A S, T \in places : S # T => S[2] \cap T[2] = {}
  BY DEF OnePlace
<1>2. \A S \in places : \/ \E o \in objects : S = <<"object", o>>
                        \/ \E o \in built : S = <<"element", o>>
                        \/ S = <<"client", client>>
                        \/ S = <<"dead", dead>>
                        \/ S = <<"lost", lost>>
                        \/ S = <<"made", made>>
  OBVIOUS
<1>3. /\ \A o \in objects : <<"object", o>> \in places
      /\ \A o \in built : <<"element", o>> \in places
      /\ <<"client", client>> \in places /\ <<"dead", dead>> \in places
      /\ <<"lost", lost>> \in places /\ <<"made", made>> \in places
  OBVIOUS
<1>4. ASSUME OnePlace PROVE Apart
  <2> HIDE DEF places
  <2>0. \A x, y : <<x, y>>[1] = x /\ <<x, y>>[2] = y
    OBVIOUS
  <2>1. ASSUME NEW x, NEW S, NEW y, NEW T, <<x, S>> \in places, <<y, T>> \in places,
               x # y \/ S # T
        PROVE  S \cap T = {}
    <3>1. <<x, S>> # <<y, T>>
      BY <2>0, <2>1
    <3> QED BY <1>1, <1>4, <2>0, <2>1, <3>1
  <2>2. \A o, p \in objects : o # p => o \cap p = {}
    BY <1>3, <2>1
  <2>3. \A o, p \in built : o # p => o \cap p = {}
    BY <1>3, <2>1
  <2>4. \A o \in objects, p \in built : o \cap p = {}
    BY <1>3, <2>1
  <2>5. \A o \in objects :
          o \cap client = {} /\ o \cap dead = {} /\ o \cap lost = {} /\ o \cap made = {}
    BY <1>3, <2>1
  <2>6. \A o \in built :
          o \cap client = {} /\ o \cap dead = {} /\ o \cap lost = {} /\ o \cap made = {}
    BY <1>3, <2>1
  <2>7. client \cap dead = {} /\ client \cap lost = {} /\ client \cap made = {}
    BY <1>3, <2>1
  <2>8. dead \cap lost = {} /\ dead \cap made = {} /\ lost \cap made = {}
    BY <1>3, <2>1
  <2> QED BY <2>2, <2>3, <2>4, <2>5, <2>6, <2>7, <2>8 DEF Apart
<1>5. ASSUME Apart PROVE OnePlace
  <2> SUFFICES ASSUME NEW S \in places, NEW T \in places, S # T
               PROVE  S[2] \cap T[2] = {}
    BY <1>1
  <2> HIDE DEF places
  <2>1. CASE \E o \in objects : S = <<"object", o>>
    BY <1>2, <1>5, <2>1 DEF Apart
  <2>2. CASE \E o \in built : S = <<"element", o>>
    BY <1>2, <1>5, <2>2 DEF Apart
  <2>3. CASE \/ S = <<"client", client>> \/ S = <<"dead", dead>>
             \/ S = <<"lost", lost>> \/ S = <<"made", made>>
    BY <1>2, <1>5, <2>3 DEF Apart
  <2> QED BY <1>2, <2>1, <2>2, <2>3
<1> QED BY <1>4, <1>5

(* The new handles belong to nobody yet.                                   *)
LEMMA NewHandlesUnborn ==
  ASSUME NEW S \in NewHandles, shape \in Created \cup Combining
  PROVE  /\ S \subseteq Unborn
         /\ shape \in {"pages", "allocate"} => S \subseteq Memories
         /\ shape = "alias" => S \subseteq Resources
         /\ shape = "bind" => S = {}
         /\ shape \in {"one", "allocate", "alias"} => \E h \in Handles : S = {h}
         /\ shape = "pair" => \E m \in Memories, r \in Resources : S = {m, r}
<1> DEFINE M == Unborn \cap Memories
           R == Unborn \cap Resources
<1>1. CASE shape = "one"
  <2>1. S \in {{h} : h \in Unborn}
    BY <1>1 DEF NewHandles
  <2> QED BY <1>1, <2>1 DEF Unborn
<1>2. CASE shape = "allocate"
  <2>1. S \in {{m} : m \in M}
    BY <1>2 DEF NewHandles
  <2> QED BY <1>2, <2>1 DEF Handles
<1>3. CASE shape = "pair"
  <2>1. S \in {{m, r} : m \in M, r \in R}
    BY <1>3 DEF NewHandles
  <2> QED BY <1>3, <2>1 DEF Handles
<1>4. CASE shape = "pages"
  <2>1. S \in SUBSET M
    BY <1>4 DEF NewHandles
  <2> QED BY <1>4, <2>1
<1>5. CASE shape = "alias"
  <2>1. S \in {{r} : r \in R}
    BY <1>5 DEF NewHandles
  <2> QED BY <1>5, <2>1 DEF Handles
<1>6. CASE shape = "bind"
  <2>1. S = {}
    BY <1>6 DEF NewHandles
  <2> QED BY <1>6, <2>1
<1> QED BY <1>1, <1>2, <1>3, <1>4, <1>5, <1>6 DEF Created, Combining

(* A combining call is given wrappers of the client, each of one handle.   *)
LEMMA ArgsFacts ==
  ASSUME NEW s \in Created \cup Combining, NEW A \in ArgsFor(s)
  PROVE  /\ A \subseteq objects
         /\ s \in Created => A = {}
         /\ s = "alias" => \E m \in Memories : A = {{m}}
         /\ s = "allocate" => \E r \in Resources : A = {{r}}
         /\ s = "bind" => \E m \in Memories, r \in Resources : A = {{m}, {r}}
<1> DEFINE M == {o \in objects : \E m \in Memories : o = {m}}
           R == {o \in objects : \E r \in Resources : o = {r}}
<1>1. CASE s = "alias"
  <2>1. A \in {{o} : o \in M}
    BY <1>1 DEF ArgsFor, Created
  <2> QED BY <1>1, <2>1 DEF Created
<1>2. CASE s = "allocate"
  <2>1. A \in {{p} : p \in R}
    BY <1>2 DEF ArgsFor, Created
  <2> QED BY <1>2, <2>1 DEF Created
<1>3. CASE s = "bind"
  <2>1. A \in {{o, p} : o \in M, p \in R}
    BY <1>3 DEF ArgsFor, Created
  <2> QED BY <1>3, <2>1 DEF Created
<1>4. CASE s \in Created
  <2>1. A = {}
    BY <1>4 DEF ArgsFor, Created
  <2> QED BY <1>4, <2>1 DEF Created
<1> QED BY <1>1, <1>2, <1>3, <1>4 DEF Combining

-----------------------------------------------------------------------------
(* The end of a call: whatever it leaves in the world, its locals are gone. *)
LEMMA IdleKeeps ==
  ASSUME IInv, Idle, Apart',
         objects' \subseteq SUBSET Handles, client' \subseteq Handles,
         dead' \subseteq Handles, lost' \subseteq Handles
  PROVE  IInv'
<1>1. /\ build' = build /\ pc' = "idle" /\ api' = "plain" /\ shape' = "one"
      /\ args' = {} /\ sizes' = <<0, 0, 0>> /\ made' = {} /\ built' = {}
      /\ wrapped' = FALSE /\ failed' = FALSE
  BY DEF Idle
<1>2. <<0, 0, 0>> \in (0 .. MaxSize) \X (0 .. MaxSize) \X (0 .. MaxSize)
  BY CallAssumption
<1>3. TypeOK'
  <2>1. built' \subseteq {{h} : h \in Memories} /\ args' \subseteq SUBSET Handles
    BY <1>1
  <2>2. sizes' \in (0 .. MaxSize) \X (0 .. MaxSize) \X (0 .. MaxSize)
    BY <1>1, <1>2
  <2>3. api' \in Apis /\ shape' \in Created \cup Combining
    BY <1>1 DEF Apis, Created, Combining
  <2>4. {client, dead, lost, made}' \subseteq SUBSET Handles
    BY <1>1
  <2>5. build' \in Builds /\ wrapped' \in BOOLEAN /\ failed' \in BOOLEAN
    BY <1>1 DEF IInv, TypeOK
  <2> QED BY <1>1, <2>1, <2>2, <2>3, <2>4, <2>5 DEF TypeOK
<1>4. ArgsKept' /\ Course' /\ PagesCounted'
  BY <1>1 DEF ArgsKept, Course, PagesCounted, Combining
<1>5. LocalsFit'
  BY <1>1 DEF LocalsFit
<1> QED BY <1>3, <1>4, <1>5, PlacesApart, PTL DEF IInv

LEMMA ArgsStay ==
  ASSUME ArgsKept, pc # "idle", UNCHANGED <<objects, args, shape>>
  PROVE  ArgsKept'
<1>1. args \in ArgsFor(shape)
  BY DEF ArgsKept
<1>2. ArgsFor(shape)' = ArgsFor(shape)
  BY DEF ArgsFor
<1> QED BY <1>1, <1>2 DEF ArgsKept

(* Counted pages stay counted, whichever vector they are in.               *)
LEMMA PagesStay ==
  ASSUME PagesCounted, UNCHANGED <<build, shape, sizes, failed>>,
         (made \cup UNION built)' = made \cup UNION built,
         pc' \in {"native", "check", "return", "comma", "fill"} =>
           pc \in {"native", "check", "return", "comma", "fill"},
         pc' \in {"check", "return", "comma", "fill"} =>
           pc \in {"check", "return", "comma", "fill"}
  PROVE  PagesCounted'
<1>1. SizesAgree' = SizesAgree /\ allocationCount' = allocationCount
  BY DEF SizesAgree, allocationCount
<1> QED BY <1>1 DEF PagesCounted

(* A step inside a call that leaves the world and the handles as they are. *)
LEMMA InsideKeeps ==
  ASSUME IInv, UNCHANGED <<build, objects, client, dead, lost, made, built>>,
         TypeOK', ArgsKept', Course', LocalsFit', PagesCounted'
  PROVE  IInv'
<1>1. OnePlace'
  BY DEF IInv, OnePlace
<1> QED BY <1>1 DEF IInv

LEMMA InitIInv == Init => IInv
<1> SUFFICES ASSUME Init PROVE IInv
  OBVIOUS
<1>1. <<0, 0, 0>> \in (0 .. MaxSize) \X (0 .. MaxSize) \X (0 .. MaxSize)
  BY CallAssumption
<1>2. TypeOK
  BY <1>1 DEF Init, TypeOK, Apis, Created, Combining
<1>3. Apart /\ ArgsKept /\ Course /\ PagesCounted
  BY DEF Init, Apart, ArgsKept, Course, PagesCounted, Combining
<1>4. LocalsFit
  BY DEF Init, LocalsFit
<1> QED BY <1>2, <1>3, <1>4, PlacesApart DEF IInv

LEMMA CallStep ==
  ASSUME IInv, NEW a \in Apis, NEW s \in Created \cup Combining, NEW A,
         NEW n \in (0 .. MaxSize) \X (0 .. MaxSize) \X (0 .. MaxSize), Call(a, s, A, n)
  PROVE  IInv'
<1>1. /\ pc = "idle"
      /\ s \in Combining => a = "raii"
      /\ A \in ArgsFor(s) /\ pc' = "sizes"
      /\ api' = a /\ shape' = s /\ args' = A /\ sizes' = n
      /\ UNCHANGED <<build, objects, client, dead, lost, wrapped, failed, made, built>>
  BY DEF Call, world
<1>2. made = {} /\ built = {} /\ ~failed
  BY <1>1 DEF IInv, TypeOK
<1>3. A \subseteq SUBSET Handles
  BY <1>1, ArgsFacts DEF IInv, TypeOK
<1>4. TypeOK'
  BY <1>1, <1>3 DEF IInv, TypeOK
<1>5. ArgsKept'
  <2>1. ArgsFor(shape)' = ArgsFor(s)
    BY <1>1 DEF ArgsFor
  <2> QED BY <1>1, <2>1 DEF ArgsKept
<1>6. Course' /\ PagesCounted'
  BY <1>1 DEF Course, PagesCounted
<1>7. LocalsFit'
  BY <1>1, <1>2 DEF LocalsFit
<1> QED BY <1>1, <1>4, <1>5, <1>6, <1>7, InsideKeeps

(* A build that checks the sizes lets no call through whose arrays         *)
(* disagree.                                                               *)
LEMMA AcceptCallStep ==
  ASSUME IInv, AcceptCall
  PROVE  IInv'
<1>1. /\ pc = "sizes" /\ pc' = "native" /\ (build # "unchecked" => SizesAgree)
      /\ UNCHANGED <<build, objects, client, dead, lost, api, shape, args, sizes,
                     wrapped, failed, made, built>>
  BY DEF AcceptCall, world
<1>2. TypeOK'
  BY <1>1 DEF IInv, TypeOK
<1>3. ArgsKept' /\ Course'
  BY <1>1, ArgsStay DEF IInv, Course
<1>4. PagesCounted'
  <2>1. SizesAgree' <=> SizesAgree
    BY <1>1 DEF SizesAgree, allocationCount
  <2> QED BY <1>1, <2>1 DEF PagesCounted
<1>5. LocalsFit'
  BY <1>1 DEF IInv, LocalsFit
<1> QED BY <1>1, <1>2, <1>3, <1>4, <1>5, InsideKeeps

LEMMA CallNativeStep ==
  ASSUME IInv, CallNative
  PROVE  IInv'
<1>1. /\ pc = "native" /\ pc' = "check"
      /\ UNCHANGED <<build, objects, client, dead, lost, api, shape, args, sizes,
                     wrapped, built>>
      /\ shape \in Created \cup Combining
      /\ made = {} /\ built = {}
  BY DEF CallNative, world, IInv, TypeOK, LocalsFit
<1>2. made' \subseteq Unborn /\ made' \subseteq Handles
  <2>1. made' = {} \/ made' \in NewHandles
    BY <1>1 DEF CallNative
  <2>2. CASE made' = {}
    BY <2>2
  <2>3. CASE made' \in NewHandles
    <3>1. made' \subseteq Unborn
      BY <1>1, <2>3, NewHandlesUnborn
    <3> QED BY <3>1 DEF Unborn
  <2> QED BY <2>1, <2>2, <2>3
<1>3. TypeOK'
  <2>1. failed' \in BOOLEAN
    BY DEF CallNative
  <2>2. {client, dead, lost, made}' \subseteq SUBSET Handles
    BY <1>1, <1>2 DEF IInv, TypeOK
  <2> QED BY <1>1, <2>1, <2>2 DEF IInv, TypeOK
<1>4. Apart'
  <2>1. Apart
    BY PlacesApart DEF IInv
  <2>2. /\ made' \cap client = {} /\ made' \cap dead = {} /\ made' \cap lost = {}
        /\ \A o \in objects : o \cap made' = {}
    <3> DEFINE G == UNION objects
    <3>1. made' \cap G = {} /\ made' \cap client = {} /\ made' \cap dead = {}
          /\ made' \cap lost = {}
      BY <1>2 DEF Unborn
    <3> QED BY <3>1
  <2> QED BY <1>1, <2>1, <2>2 DEF Apart
<1>5. ArgsKept' /\ Course' /\ PagesCounted'
  <2>1. SizesAgree' = SizesAgree /\ allocationCount' = allocationCount
    BY <1>1 DEF SizesAgree, allocationCount
  <2>2. ASSUME shape = "pages", ~failed'
        PROVE  Cardinality((made \cup UNION built)') = allocationCount
    <3>1. made' \in NewHandles
      BY <2>2 DEF CallNative
    <3>2. made' \in {S \in SUBSET (Unborn \cap Memories) : Cardinality(S) = allocationCount}
      BY <2>2, <3>1 DEF NewHandles
    <3>3. (made \cup UNION built)' = made'
      BY <1>1
    <3> QED BY <3>2, <3>3
  <2>3. PagesCounted'
    BY <1>1, <2>1, <2>2 DEF IInv, PagesCounted
  <2> QED BY <1>1, <2>3, ArgsStay DEF IInv, Course
<1>6. LocalsFit'
  <2>1. CASE failed' = TRUE /\ made' = made
    BY <1>1, <2>1 DEF IInv, LocalsFit
  <2>2. CASE failed' = FALSE /\ made' \in NewHandles
    <3>1. /\ shape \in {"pages", "allocate"} => made' \subseteq Memories
          /\ shape = "alias" => made' \subseteq Resources
          /\ shape = "bind" => made' = {}
          /\ shape \in {"one", "allocate", "alias"} => \E h \in Handles : made' = {h}
          /\ shape = "pair" => \E m \in Memories, r \in Resources : made' = {m, r}
      BY <1>1, <2>2, NewHandlesUnborn
    <3>2. shape' = shape /\ built' = {} /\ pc' = "check" /\ failed' = FALSE
      BY <1>1, <2>2
    <3> QED BY <3>1, <3>2 DEF LocalsFit
  <2> QED BY <2>1, <2>2 DEF CallNative
<1> QED BY <1>3, <1>4, <1>5, <1>6, PlacesApart, PTL DEF IInv

LEMMA CheckResultStep ==
  ASSUME IInv, CheckResult
  PROVE  IInv'
<1>1. /\ pc = "check" /\ pc' = IF api = "raii" THEN "comma" ELSE "return"
      /\ UNCHANGED <<build, objects, client, dead, lost, api, shape, args, sizes,
                     wrapped, failed, made, built>>
  BY DEF CheckResult, world
<1>2. TypeOK'
  BY <1>1 DEF IInv, TypeOK
<1>3. ArgsKept' /\ Course' /\ PagesCounted'
  BY <1>1, ArgsStay, PagesStay DEF IInv, Course
<1>4. LocalsFit'
  BY <1>1 DEF IInv, LocalsFit
<1> QED BY <1>1, <1>2, <1>3, <1>4, InsideKeeps

LEMMA WrapStep ==
  ASSUME IInv, Wrap
  PROVE  IInv'
<1>1. /\ pc \in {"sizes", "comma"} /\ wrapped' = TRUE
      /\ UNCHANGED <<build, objects, client, dead, lost, pc, api, shape, args, sizes,
                     failed, made, built>>
  BY DEF Wrap, world
<1>2. TypeOK'
  BY <1>1 DEF IInv, TypeOK
<1>3. ArgsKept' /\ Course' /\ PagesCounted'
  BY <1>1, ArgsStay, PagesStay DEF IInv, Course
<1>4. LocalsFit'
  BY <1>1 DEF IInv, LocalsFit
<1> QED BY <1>1, <1>2, <1>3, <1>4, InsideKeeps

LEMMA ReserveStep ==
  ASSUME IInv, Reserve
  PROVE  IInv'
<1>1. /\ AtVector /\ pc' = "fill"
      /\ UNCHANGED <<build, objects, client, dead, lost, api, shape, args, sizes,
                     wrapped, failed, made, built>>
  BY DEF Reserve, world
<1>2. pc # "idle" /\ shape = "pages"
  BY <1>1 DEF AtVector
<1>3. TypeOK'
  BY <1>1 DEF IInv, TypeOK
<1>4. ArgsKept' /\ Course' /\ PagesCounted'
  BY <1>1, <1>2, ArgsStay, PagesStay DEF IInv, Course, AtVector
<1>5. LocalsFit'
  BY <1>1, <1>2 DEF IInv, LocalsFit
<1> QED BY <1>1, <1>3, <1>4, <1>5, InsideKeeps

(* A handle moves from the native vector into an element of the result.    *)
LEMMA FillStep ==
  ASSUME IInv, Fill
  PROVE  IInv'
<1>1. PICK h \in made : made' = made \ {h} /\ built' = built \cup {{h}}
  BY DEF Fill
<1>2. /\ pc = "fill"
      /\ UNCHANGED <<build, objects, client, dead, lost, pc, api, shape, args, sizes,
                     wrapped, failed>>
  BY DEF Fill, world
<1>3. shape = "pages" /\ made \subseteq Memories /\ made \subseteq Handles
  BY <1>2 DEF IInv, Course, LocalsFit, TypeOK
<1>4. TypeOK'
  BY <1>1, <1>2, <1>3 DEF IInv, TypeOK
<1>5. Apart'
  <2>1. Apart
    BY PlacesApart DEF IInv
  <2>2. {h} \subseteq made /\ {h} \cap made' = {} /\ made' \subseteq made
    BY <1>1
  <2>3. \A o \in objects \cup built : o \cap made = {}
    BY <2>1 DEF Apart
  <2>4. ASSUME NEW o \in built', NEW p \in built', o # p
        PROVE  o \cap p = {}
    <3>1. \A q \in built : q \cap {h} = {}
      BY <2>3
    <3>2. (o \in built \/ o = {h}) /\ (p \in built \/ p = {h})
      BY <1>1
    <3> QED BY <2>1, <2>4, <3>1, <3>2 DEF Apart
  <2>5. \A o \in objects, p \in built' : o \cap p = {}
    BY <1>1, <2>1, <2>2, <2>3 DEF Apart
  <2>6. \A o \in objects \cup built' : o \cap (client \cup dead \cup lost \cup made') = {}
    BY <1>1, <2>1, <2>2, <2>3 DEF Apart
  <2>7. /\ client \cap (dead \cup lost \cup made') = {}
        /\ dead \cap (lost \cup made') = {}
        /\ lost \cap made' = {}
    BY <2>1, <2>2 DEF Apart
  <2> QED BY <1>2, <2>1, <2>4, <2>5, <2>6, <2>7 DEF Apart
<1>6. ArgsKept' /\ Course' /\ PagesCounted'
  <2>1. (made \cup UNION built)' = made \cup UNION built
    <3>1. made' = made \ {h} /\ h \in made /\ (UNION built)' = (UNION built) \cup {h}
      BY <1>1
    <3> QED BY <3>1
  <2> QED BY <1>2, <2>1, ArgsStay, PagesStay DEF IInv, Course
<1>7. LocalsFit'
  BY <1>1, <1>2, <1>3 DEF IInv, LocalsFit
<1> QED BY <1>4, <1>5, <1>6, <1>7, PlacesApart, PTL DEF IInv
(* A call that fails leaves the world as it was.                           *)
LEMMA NothingStep ==
  ASSUME IInv, RejectCall \/ ThrowResult \/ ConvertNone
  PROVE  IInv'
<1>1. Idle /\ UNCHANGED world
  BY DEF RejectCall, ThrowResult, ConvertNone
<1>2. objects' = objects /\ client' = client /\ dead' = dead /\ lost' = lost
  BY <1>1 DEF world
<1>3. Apart'
  <2>1. Apart
    BY PlacesApart DEF IInv
  <2>2. made' = {} /\ built' = {}
    BY <1>1 DEF Idle
  <2> QED BY <1>2, <2>1, <2>2 DEF Apart
<1> QED BY <1>1, <1>2, <1>3, IdleKeeps DEF IInv, TypeOK

LEMMA ReturnPlainStep ==
  ASSUME IInv, ReturnPlain
  PROVE  IInv'
<1>1. /\ Idle /\ client' = client \cup made
      /\ objects' = objects /\ dead' = dead /\ lost' = lost
  BY DEF ReturnPlain
<1>2. Apart'
  <2>1. Apart
    BY PlacesApart DEF IInv
  <2>2. made' = {} /\ built' = {}
    BY <1>1 DEF Idle
  <2> QED BY <1>1, <2>1, <2>2 DEF Apart
<1> QED BY <1>1, <1>2, IdleKeeps DEF IInv, TypeOK

(* Objects made of single handles that were nobody's: apart from the rest. *)
LEMMA SinglesApart ==
  ASSUME Apart, NEW S, S = made \/ (S = UNION built /\ built \subseteq {{h} : h \in Memories}),
         objects' = objects \cup {{h} : h \in S},
         client' = client, dead' = dead, lost' = lost, made' = {}, built' = {}
  PROVE  Apart'
<1>1. \A h \in S : /\ h \notin client /\ h \notin dead /\ h \notin lost
                   /\ \A o \in objects : h \notin o
  <2>1. CASE S = made
    BY <2>1 DEF Apart
  <2>2. CASE S = UNION built
    BY <2>2 DEF Apart
  <2> QED BY <2>1, <2>2
<1>2. ASSUME NEW o \in objects', NEW p \in objects', o # p
      PROVE  o \cap p = {}
  <2>1. /\ o \in objects \/ \E h \in S : o = {h}
        /\ p \in objects \/ \E h \in S : p = {h}
    OBVIOUS
  <2>2. \A q, r \in objects : q # r => q \cap r = {}
    BY DEF Apart
  <2>3. ASSUME NEW x \in o, x \in p
        PROVE  FALSE
    BY <1>1, <1>2, <2>1, <2>2, <2>3
  <2> QED BY <2>3
<1>3. \A o \in objects' : o \cap (client \cup dead \cup lost) = {}
  BY <1>1 DEF Apart
<1>4. client \cap (dead \cup lost) = {} /\ dead \cap lost = {}
  BY DEF Apart
<1> QED BY <1>2, <1>3, <1>4 DEF Apart

LEMMA ReturnUniqueStep ==
  ASSUME IInv, ReturnUnique
  PROVE  IInv'
<1>1. /\ Idle /\ objects' = objects \cup {{h} : h \in made}
      /\ client' = client /\ dead' = dead /\ lost' = lost
  BY DEF ReturnUnique
<1>2. made' = {} /\ built' = {}
  BY <1>1 DEF Idle
<1>3. Apart'
  BY <1>1, <1>2, PlacesApart, SinglesApart DEF IInv
<1>4. objects' \subseteq SUBSET Handles
  BY <1>1 DEF IInv, TypeOK
<1> QED BY <1>1, <1>3, <1>4, IdleKeeps DEF IInv, TypeOK

(* Elements of a vector are objects of one handle each.                    *)
LEMMA Singles ==
  ASSUME NEW H, NEW B \in SUBSET {{h} : h \in H}
  PROVE  B = {{h} : h \in UNION B} /\ (UNION B) \subseteq H
<1>1. \A b \in B : \E h \in H : b = {h}
  OBVIOUS
<1>2. \A h : h \in UNION B <=> \E b \in B : h \in b
  OBVIOUS
<1>3. \A h : h \in UNION B => h \in H /\ {h} \in B
  BY <1>1, <1>2
<1>4. \A b \in B : \E h \in UNION B : b = {h}
  BY <1>1, <1>2
<1>5. \A b : b \in B <=> \E h \in UNION B : b = {h}
  BY <1>3, <1>4
<1> QED BY <1>3, <1>5

LEMMA ReturnVectorStep ==
  ASSUME IInv, ReturnVector
  PROVE  IInv'
<1>1. /\ Idle /\ objects' = objects \cup built
      /\ client' = client /\ dead' = dead /\ lost' = lost
  BY DEF ReturnVector
<1>2. /\ made' = {} /\ built' = {}
      /\ built \subseteq {{h} : h \in Memories} /\ objects \subseteq SUBSET Handles
  BY <1>1 DEF Idle, IInv, TypeOK
<1>3. built = {{h} : h \in UNION built} /\ (UNION built) \subseteq Memories
  BY <1>2, Singles
<1>4. Apart'
  <2>1. objects' = objects \cup {{h} : h \in UNION built}
    BY <1>1, <1>3
  <2> QED BY <1>1, <1>2, <2>1, PlacesApart, SinglesApart DEF IInv
<1>5. objects' \subseteq SUBSET Handles
  BY <1>1, <1>2 DEF Handles
<1> QED BY <1>1, <1>4, <1>5, IdleKeeps DEF IInv, TypeOK

LEMMA ReserveThrowsStep ==
  ASSUME IInv, ReserveThrows
  PROVE  IInv'
<1>1. /\ Idle /\ lost' = lost \cup made /\ AtVector
      /\ objects' = objects /\ client' = client /\ dead' = dead
  BY DEF ReserveThrows
<1>2. Apart'
  <2>1. Apart
    BY PlacesApart DEF IInv
  <2>2. made' = {} /\ built' = {}
    BY <1>1 DEF Idle
  <2> QED BY <1>1, <2>1, <2>2 DEF Apart
<1> QED BY <1>1, <1>2, IdleKeeps DEF IInv, TypeOK

-----------------------------------------------------------------------------
(* What the constructor of the result puts into the one object it makes.   *)
Merged == (UNION args) \cup made

LEMMA MergedFacts ==
  ASSUME IInv, pc = "comma", ~failed, shape # "pages"
  PROVE  /\ args \subseteq objects
         /\ Merged \subseteq Handles
         /\ \A o \in objects \ args : o \cap Merged = {}
         /\ Merged \cap (client \cup dead \cup lost) = {}
         /\ \/ args = {} /\ \E h \in Handles : made = {h}
            \/ \E m \in Memories, r \in Resources : Merged = {m, r}
<1>1. /\ args \in ArgsFor(shape) /\ shape \in Created \cup Combining
      /\ objects \subseteq SUBSET Handles /\ made \subseteq Handles /\ Apart
  BY PlacesApart DEF IInv, ArgsKept, TypeOK
<1>2. args \subseteq objects
  BY <1>1, ArgsFacts
<1>3. \A x : x \in Merged <=> x \in made \/ \E o \in args : x \in o
  BY DEF Merged
<1>4. Merged \subseteq Handles
  BY <1>1, <1>2, <1>3
<1>5. ASSUME NEW o \in objects \ args, NEW x \in o, x \in Merged
      PROVE  FALSE
  <2>1. CASE x \in made
    BY <1>1, <1>5, <2>1 DEF Apart
  <2>2. CASE \E p \in args : x \in p
    BY <1>1, <1>2, <1>5, <2>2 DEF Apart
  <2> QED BY <1>3, <1>5, <2>1, <2>2
<1>6. Merged \cap (client \cup dead \cup lost) = {}
  <2>1. \A x \in made : x \notin client \cup dead \cup lost
    BY <1>1 DEF Apart
  <2>2. \A o \in args : \A x \in o : x \notin client \cup dead \cup lost
    BY <1>1, <1>2 DEF Apart
  <2> QED BY <1>3, <2>1, <2>2
<1>7. /\ shape \in {"one", "allocate", "alias"} => \E h \in Handles : made = {h}
      /\ shape = "pair" => \E m \in Memories, r \in Resources : made = {m, r}
      /\ shape = "bind" => made = {}
      /\ shape = "allocate" => made \subseteq Memories
      /\ shape = "alias" => made \subseteq Resources
  BY DEF IInv, LocalsFit
<1>8. \/ args = {} /\ \E h \in Handles : made = {h}
      \/ \E m \in Memories, r \in Resources : Merged = {m, r}
  <2>1. CASE shape = "one"
    BY <1>1, <1>7, <2>1, ArgsFacts DEF Created
  <2>2. CASE shape = "pair"
    <3>1. args = {}
      BY <1>1, <2>2, ArgsFacts DEF Created
    <3>2. Merged = made
      BY <3>1, <1>3
    <3> QED BY <1>7, <2>2, <3>2
  <2>3. CASE shape = "alias"
    <3>1. PICK m \in Memories : args = {{m}}
      BY <1>1, <2>3, ArgsFacts
    <3>2. PICK r \in Resources : made = {r}
      BY <1>7, <2>3
    <3>3. Merged = {m, r}
      BY <1>3, <3>1, <3>2
    <3> QED BY <3>3
  <2>4. CASE shape = "allocate"
    <3>1. PICK r \in Resources : args = {{r}}
      BY <1>1, <2>4, ArgsFacts
    <3>2. PICK m \in Memories : made = {m}
      BY <1>7, <2>4
    <3>3. Merged = {m, r}
      BY <1>3, <3>1, <3>2
    <3> QED BY <3>3
  <2>5. CASE shape = "bind"
    <3>1. PICK m \in Memories, r \in Resources : args = {{m}, {r}}
      BY <1>1, <2>5, ArgsFacts
    <3>2. Merged = {m, r}
      BY <1>3, <1>7, <2>5, <3>1
    <3> QED BY <3>2
  <2> QED BY <1>1, <2>1, <2>2, <2>3, <2>4, <2>5 DEF Created, Combining
<1> QED BY <1>2, <1>4, <1>5, <1>6, <1>8

LEMMA ConvertStep ==
  ASSUME IInv, Convert
  PROVE  IInv'
<1>1. /\ Idle /\ pc = "comma" /\ ~failed /\ shape # "pages"
      /\ objects' = (objects \ args) \cup {Merged}
      /\ client' = client /\ dead' = dead /\ lost' = lost
  BY DEF Convert, Merged
<1>2. /\ Merged \subseteq Handles
      /\ \A o \in objects \ args : o \cap Merged = {}
      /\ Merged \cap (client \cup dead \cup lost) = {}
  BY <1>1, MergedFacts
<1>3. Apart'
  <2>1. Apart
    BY PlacesApart DEF IInv
  <2>2. made' = {} /\ built' = {}
    BY <1>1 DEF Idle
  <2>3. \A o, p \in objects' : o # p => o \cap p = {}
    BY <1>1, <1>2, <2>1 DEF Apart
  <2>4. \A o \in objects' : o \cap (client \cup dead \cup lost) = {}
    BY <1>1, <1>2, <2>1 DEF Apart
  <2> QED BY <1>1, <2>1, <2>2, <2>3, <2>4 DEF Apart
<1>4. objects' \subseteq SUBSET Handles
  BY <1>1, <1>2 DEF IInv, TypeOK
<1> QED BY <1>1, <1>3, <1>4, IdleKeeps DEF IInv, TypeOK

(* Between calls there are no locals that could hold what is destroyed.    *)
LEMMA DropStep ==
  ASSUME IInv, (\E o \in objects : DestroyObject(o)) \/ (\E h \in client : FreePlain(h))
  PROVE  IInv'
<1>1. /\ pc = "idle"
      /\ UNCHANGED <<build, lost, pc, api, shape, args, sizes, wrapped, failed, made, built>>
      /\ \/ \E o \in objects : objects' = objects \ {o} /\ dead' = dead \cup o /\ client' = client
         \/ \E h \in client : client' = client \ {h} /\ dead' = dead \cup {h} /\ objects' = objects
  BY DEF DestroyObject, FreePlain
<1>2. /\ objects \subseteq SUBSET Handles /\ client \subseteq Handles /\ dead \subseteq Handles
      /\ lost \subseteq Handles /\ made = {} /\ built = {} /\ Apart
  BY <1>1, PlacesApart DEF IInv, TypeOK
<1>3. objects' \subseteq SUBSET Handles /\ client' \subseteq Handles /\ dead' \subseteq Handles
  BY <1>1, <1>2
<1>4. TypeOK'
  <2>1. {client, dead, lost, made}' \subseteq SUBSET Handles
    BY <1>1, <1>2, <1>3
  <2> QED BY <1>1, <1>3, <2>1 DEF IInv, TypeOK
<1>5. Apart'
  <2>1. ASSUME NEW o \in objects, objects' = objects \ {o}, dead' = dead \cup o, client' = client
        PROVE  Apart'
    BY <1>1, <1>2, <2>1 DEF Apart
  <2>2. ASSUME NEW h \in client, client' = client \ {h}, dead' = dead \cup {h},
               objects' = objects
        PROVE  Apart'
    BY <1>1, <1>2, <2>2 DEF Apart
  <2> QED BY <1>1, <2>1, <2>2
<1>6. ArgsKept' /\ Course' /\ PagesCounted'
  BY <1>1 DEF IInv, ArgsKept, Course, PagesCounted
<1>7. LocalsFit'
  BY <1>1 DEF IInv, LocalsFit
<1> QED BY <1>4, <1>5, <1>6, <1>7, PlacesApart, PTL DEF IInv
-----------------------------------------------------------------------------
(* The inductive invariant.                                                *)
LEMMA NextIInv ==
  ASSUME IInv, Next
  PROVE  IInv'
<1>1. ASSUME NEW a \in Apis, NEW s \in Created \cup Combining, NEW A \in SUBSET objects,
             NEW n \in (0 .. MaxSize) \X (0 .. MaxSize) \X (0 .. MaxSize), Call(a, s, A, n)
      PROVE  IInv'
  BY <1>1, CallStep
<1>2. CASE RejectCall \/ ThrowResult \/ ConvertNone
  BY <1>2, NothingStep
<1>3. CASE AcceptCall \/ CallNative \/ CheckResult \/ Wrap \/ Reserve \/ Fill
  BY <1>3, AcceptCallStep, CallNativeStep, CheckResultStep, WrapStep, ReserveStep, FillStep
<1>4. CASE ReturnPlain \/ ReturnUnique \/ ReturnVector \/ ReserveThrows \/ Convert
  BY <1>4, ReturnPlainStep, ReturnUniqueStep, ReturnVectorStep, ReserveThrowsStep, ConvertStep
<1>5. CASE (\E o \in objects : DestroyObject(o)) \/ (\E h \in client : FreePlain(h))
  BY <1>5, DropStep
<1> QED BY <1>1, <1>2, <1>3, <1>4, <1>5 DEF Next

LEMMA StutterIInv ==
  ASSUME IInv, UNCHANGED vars
  PROVE  IInv'
<1>1. UNCHANGED <<build, objects, client, dead, lost, pc, api, shape, args, sizes,
                  wrapped, failed, made, built>>
  BY DEF vars
<1>2. TypeOK' /\ OnePlace'
  BY <1>1 DEF IInv, TypeOK, OnePlace
<1>3. ArgsKept'
  BY <1>1, ArgsStay DEF IInv, ArgsKept
<1>4. Course' /\ LocalsFit' /\ PagesCounted'
  BY <1>1, PagesStay DEF IInv, Course, LocalsFit
<1> QED BY <1>2, <1>3, <1>4 DEF IInv

(* Whatever is called, with whatever sizes and whatever fails on the way,  *)
(* the inductive invariant holds of every step of the call.                *)
THEOREM Invariant == Spec => []IInv
<1>1. IInv /\ [Next]_vars => IInv'
  BY NextIInv, StutterIInv
<1> QED BY <1>1, InitIInv, PTL DEF Spec

(* The variables keep their types, and an idle program has no locals.      *)
THEOREM TypeCorrect == Spec => []TypeOK
<1>1. IInv => TypeOK
  BY DEF IInv
<1> QED BY <1>1, Invariant, PTL

(* At each step of a creating call, the thrown ones included, a handle is  *)
(* in one object, element, local variable or hand of the client only.      *)
THEOREM PlacedOnce == Spec => []OnePlace
<1>1. IInv => OnePlace
  BY DEF IInv
<1> QED BY <1>1, Invariant, PTL

(* The wrappers a combining variant is given are still whole when the      *)
(* native function runs, in either order of the comma's operands.          *)
THEOREM ArgsUntilNative == Spec => []NativeArgsHeld
<1>1. IInv => NativeArgsHeld
  BY ArgsFacts DEF IInv, TypeOK, ArgsKept, NativeArgsHeld
<1> QED BY <1>1, Invariant, PTL

-----------------------------------------------------------------------------
(* What a call for pages returns.                                          *)

(* In a build that checks, what was made is as many pages as each array    *)
(* has elements.                                                           *)
LEMMA MadeCounted ==
  ASSUME PagesCounted, shape = "pages", build # "unchecked",
         pc \in {"check", "return", "comma", "fill"}, ~failed
  PROVE  Counted(made \cup UNION built)
<1>1. SizesAgree /\ Cardinality(made \cup UNION built) = allocationCount
  BY DEF PagesCounted
<1> HIDE DEF allocationCount
<1> QED BY <1>1 DEF SizesAgree, Counted

LEMMA ReturnPlainPages ==
  ASSUME IInv, ReturnPlain
  PROVE  PageStep
<1> SUFFICES ASSUME shape = "pages", build # "unchecked"
             PROVE  Owned' \ Owned = {} \/ Counted(Owned' \ Owned)
  BY DEF PageStep
<1>1. pc = "return" /\ client' = client \cup made /\ objects' = objects /\ built = {}
  BY DEF ReturnPlain, IInv, LocalsFit
<1>2. CASE failed
  <2>1. made = {}
    BY <1>2 DEF IInv, LocalsFit
  <2>2. Owned' = Owned
    BY <1>1, <2>1 DEF Owned
  <2> QED BY <2>2
<1>3. CASE ~failed
  <2>1. Counted(made \cup UNION built)
    BY <1>1, <1>3, MadeCounted DEF IInv
  <2>2. made \cup UNION built = made
    BY <1>1
  <2>3. \A x \in made : x \notin client /\ x \notin UNION objects
    BY PlacesApart DEF IInv, Apart
  <2>4. Owned' = Owned \cup made
    BY <1>1 DEF Owned
  <2>5. made \cap Owned = {}
    BY <2>3 DEF Owned
  <2>6. Owned' \ Owned = made
    BY <2>4, <2>5
  <2> QED BY <2>1, <2>2, <2>6
<1> QED BY <1>2, <1>3

LEMMA ReturnVectorPages ==
  ASSUME IInv, ReturnVector
  PROVE  PageStep
<1> SUFFICES ASSUME shape = "pages", build # "unchecked"
             PROVE  Owned' \ Owned = {} \/ Counted(Owned' \ Owned)
  BY DEF PageStep
<1>1. pc = "fill" /\ made = {} /\ objects' = objects \cup built /\ client' = client
  BY DEF ReturnVector
<1>2. \A x \in UNION built : x \notin client /\ x \notin UNION objects
  BY PlacesApart DEF IInv, Apart
<1>3. Owned' = Owned \cup UNION built
  BY <1>1 DEF Owned
<1>4. (UNION built) \cap Owned = {}
  BY <1>2 DEF Owned
<1>5. Owned' \ Owned = UNION built
  BY <1>3, <1>4
<1>6. CASE failed
  <2>1. UNION built = {}
    BY <1>6 DEF IInv, LocalsFit
  <2> QED BY <1>5, <2>1
<1>7. CASE ~failed
  <2>1. Counted(made \cup UNION built)
    BY <1>1, <1>7, MadeCounted DEF IInv
  <2>2. made \cup UNION built = UNION built
    BY <1>1
  <2> QED BY <1>5, <2>1, <2>2
<1> QED BY <1>6, <1>7

(* allocateMemoryPages(), of each variant and in each build that compares  *)
(* the sizes, returns one page for each element of each array, or none.    *)
THEOREM OnePagePerElement == Spec => PagePerElement
<1>1. ASSUME IInv, [Next]_vars
      PROVE  [PageStep]_vars
  <2>1. CASE UNCHANGED vars
    BY <2>1
  <2>2. CASE ReturnPlain \/ ReturnVector
    BY <1>1, <2>2, ReturnPlainPages, ReturnVectorPages
  <2>3. CASE \/ RejectCall \/ ThrowResult \/ ConvertNone \/ ReserveThrows
    <3>1. objects' = objects /\ client' = client
      BY <2>3 DEF RejectCall, ThrowResult, ConvertNone, ReserveThrows, world
    <3>2. Owned' = Owned
      BY <3>1 DEF Owned
    <3> QED BY <3>2 DEF PageStep
  <2>4. CASE ReturnUnique \/ Convert
    BY <2>4 DEF ReturnUnique, Convert, PageStep
  <2>5. CASE \/ \E o \in objects : DestroyObject(o)
             \/ \E h \in client : FreePlain(h)
             \/ \E a \in Apis, s \in Created \cup Combining :
                  \E A \in SUBSET objects, n \in (0 .. MaxSize) \X (0 .. MaxSize) \X (0 .. MaxSize) :
                    Call(a, s, A, n)
    BY <2>5 DEF DestroyObject, FreePlain, Call, PageStep
  <2>6. CASE AcceptCall \/ CallNative \/ CheckResult \/ Reserve
    BY <2>6 DEF AcceptCall, CallNative, CheckResult, Reserve, PageStep
  <2>7. CASE Wrap \/ Fill
    BY <2>7 DEF Wrap, Fill, PageStep
  <2> QED BY <1>1, <2>1, <2>2, <2>3, <2>4, <2>5, <2>6, <2>7 DEF Next
<1> QED BY <1>1, Invariant, PTL DEF Spec, PagePerElement

-----------------------------------------------------------------------------
(* The steps of a call implement AtomicCreation.                           *)

(* What the call made belongs to nobody that AtomicCreation knows.         *)
LEMMA MadeUnborn ==
  ASSUME IInv
  PROVE  /\ made \subseteq Atomic!Unborn
         /\ (UNION built) \subseteq Atomic!Unborn
<1>1. Apart /\ made \subseteq Handles /\ built \subseteq {{h} : h \in Memories}
  BY PlacesApart DEF IInv, TypeOK
<1>2. \A h : h \in UNION objects <=> \E o \in objects : h \in o
  OBVIOUS
<1>3. ASSUME NEW h \in made
      PROVE  h \in Atomic!Unborn
  <2>1. h \in Handles /\ h \notin UNION objects
    BY <1>1, <1>2 DEF Apart
  <2>2. h \notin client /\ h \notin dead /\ h \notin lost
    BY <1>1 DEF Apart
  <2> QED BY <2>1, <2>2 DEF Atomic!Unborn, Atomic!Handles, Handles
<1>4. ASSUME NEW h \in UNION built
      PROVE  h \in Atomic!Unborn
  <2>1. PICK p \in built : h \in p
    OBVIOUS
  <2>2. h \in Handles
    BY <1>1, <2>1 DEF Handles
  <2>3. h \notin UNION objects
    BY <1>1, <1>2, <2>1 DEF Apart
  <2>4. h \notin client /\ h \notin dead /\ h \notin lost
    BY <1>1, <2>1 DEF Apart
  <2> QED BY <2>2, <2>3, <2>4 DEF Atomic!Unborn, Atomic!Handles, Handles
<1> QED BY <1>3, <1>4

LEMMA UnbornTyped == Atomic!Unborn \subseteq Atomic!Handles /\ Atomic!Handles = Handles
BY DEF Atomic!Unborn, Atomic!Handles, Handles

LEMMA ConvertAtomic ==
  ASSUME IInv, Convert
  PROVE  Atomic!Next
<1>1. /\ pc = "comma" /\ ~failed /\ shape # "pages"
      /\ objects' = (objects \ args) \cup {Merged}
      /\ client' = client /\ dead' = dead /\ lost' = lost
  BY DEF Convert, Merged
<1>2. made \subseteq Atomic!Unborn /\ made \in SUBSET Atomic!Handles
  BY MadeUnborn, UnbornTyped
<1>3. args \subseteq objects
  BY <1>1, MergedFacts
<1>4. CASE args = {} /\ \E h \in Handles : made = {h}
  <2>1. PICK h \in Handles : made = {h}
    BY <1>4
  <2>2. Merged = {h}
    BY <1>4, <2>1 DEF Merged
  <2>3. {{x} : x \in made} = {{h}}
    BY <2>1
  <2>4. objects' = objects \cup {{x} : x \in made}
    BY <1>1, <1>4, <2>2, <2>3
  <2>5. Atomic!GiveObjects(made)
    BY <1>1, <1>2, <2>4 DEF Atomic!GiveObjects
  <2> QED BY <1>2, <2>5 DEF Atomic!Next
<1>5. CASE \E m \in Memories, r \in Resources : Merged = {m, r}
  <2>1. Atomic!Combine(args, made)
    BY <1>1, <1>2, <1>3, <1>5 DEF Atomic!Combine, Merged
  <2> QED BY <1>2, <1>3, <2>1 DEF Atomic!Next
<1> QED BY <1>1, <1>4, <1>5, MergedFacts

LEMMA StepAtomic ==
  ASSUME IInv, Next
  PROVE  Atomic!Next \/ UNCHANGED Atomic!vars
<1>1. made \subseteq Atomic!Unborn /\ made \in SUBSET Atomic!Handles
  BY MadeUnborn, UnbornTyped
<1>2. CASE (\E a \in Apis, s \in Created \cup Combining :
              \E A \in SUBSET objects, n \in (0 .. MaxSize) \X (0 .. MaxSize) \X (0 .. MaxSize) :
                Call(a, s, A, n))
           \/ RejectCall \/ AcceptCall \/ CallNative \/ ThrowResult \/ CheckResult
           \/ Wrap \/ ConvertNone \/ Reserve \/ Fill
  <2>1. UNCHANGED world
    BY <1>2 DEF Call, RejectCall, AcceptCall, CallNative, ThrowResult, CheckResult, Wrap,
                ConvertNone, Reserve, Fill
  <2> QED BY <2>1 DEF world, Atomic!vars
<1>3. CASE ReturnPlain
  <2>1. Atomic!GivePlain(made)
    BY <1>1, <1>3 DEF ReturnPlain, Atomic!GivePlain
  <2> QED BY <1>1, <2>1 DEF Atomic!Next
<1>4. CASE ReturnUnique
  <2>1. Atomic!GiveObjects(made)
    BY <1>1, <1>4 DEF ReturnUnique, Atomic!GiveObjects
  <2> QED BY <1>1, <2>1 DEF Atomic!Next
<1>5. CASE Convert
  BY <1>5, ConvertAtomic
<1>6. CASE ReserveThrows
  <2>1. made \subseteq Memories
    BY <1>6 DEF ReserveThrows, AtVector, IInv, LocalsFit
  <2>2. Atomic!Lose(made)
    BY <1>1, <1>6, <2>1 DEF ReserveThrows, Atomic!Lose
  <2> QED BY <1>1, <2>2 DEF Atomic!Next
<1>7. CASE ReturnVector
  <2> DEFINE S == UNION built
  <2>1. S \subseteq Atomic!Unborn /\ S \in SUBSET Atomic!Handles
    BY MadeUnborn, UnbornTyped
  <2>2. built = {{h} : h \in S}
    BY Singles DEF IInv, TypeOK
  <2>3. objects' = objects \cup built /\ client' = client /\ dead' = dead /\ lost' = lost
    BY <1>7 DEF ReturnVector
  <2> HIDE DEF S
  <2>4. Atomic!GiveObjects(S)
    BY <2>1, <2>2, <2>3 DEF Atomic!GiveObjects
  <2> QED BY <2>1, <2>4 DEF Atomic!Next
<1>8. CASE \E o \in objects : DestroyObject(o)
  BY <1>8 DEF DestroyObject, Atomic!DestroyObject, Atomic!Next
<1>9. CASE \E h \in client : FreePlain(h)
  BY <1>9 DEF FreePlain, Atomic!FreePlain, Atomic!Next
<1> QED BY <1>2, <1>3, <1>4, <1>5, <1>6, <1>7, <1>8, <1>9 DEF Next

(* A creating call, with its checks, native call, comma, conversion and    *)
(* every way to fail in between, looks to its caller like one that happens *)
(* at once or changes nothing, but for a result vector without memory.     *)
THEOREM CallsAreAtomic == Spec => AtomicSpec
<1>1. Init => Atomic!Init
  BY DEF Init, Atomic!Init
<1>2. IInv /\ [Next]_vars => [Atomic!Next]_(Atomic!vars)
  <2>1. CASE UNCHANGED vars
    BY <2>1 DEF vars, Atomic!vars
  <2> QED BY <2>1, StepAtomic
<1> QED BY <1>1, <1>2, Invariant, PTL DEF Spec, AtomicSpec, Atomic!Spec

=============================================================================
