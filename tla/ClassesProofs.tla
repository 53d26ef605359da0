---------------------------- MODULE ClassesProofs ----------------------------
(***************************************************************************)
(* For every hierarchy of classes a program builds, with any fields,       *)
(* methods, primitives and libraries.                                      *)
(***************************************************************************)
EXTENDS Classes, FiniteSetTheorems, WellFoundedInduction, TLAPS

-----------------------------------------------------------------------------
(***************************************************************************)
(* Least numbers.                                                          *)
(***************************************************************************)

\* The order of the natural numbers is contained in a well-founded relation.
LEMMA OrderWellFounded ==
  \E R : IsWellFoundedOn(R, Nat) /\ \A x, y \in Nat : x < y => <<x, y>> \in R
<1>1. \A x, y \in Nat : x < y => <<x, y>> \in OpToRel(<, Nat)
  BY Zenon DEF OpToRel
<1> QED BY <1>1, NatLessThanWellFounded, Zenon

\* A set of natural numbers that is not empty has a least element.
LEMMA Least ==
  ASSUME NEW T, T \subseteq Nat, T # {}
  PROVE  \E x \in T : \A y \in T : x <= y
<1>1. PICK R : IsWellFoundedOn(R, Nat) /\ \A x, y \in Nat : x < y => <<x, y>> \in R
  BY OrderWellFounded, Zenon
<1>2. IsWellFoundedOn(R, Nat)
  BY <1>1, Zenon
<1>3. \E x \in T : \A y \in T : ~ (<<y, x>> \in R)
  BY <1>2, WFMin, Zenon
<1>4. PICK x \in T : \A y \in T : ~ (<<y, x>> \in R)
  BY <1>3, Zenon
<1>5. ASSUME NEW y \in T
      PROVE  x <= y
  <2>1. ~ (y < x)
    BY <1>1, <1>4
  <2> QED BY <2>1
<1>6. QED
  BY <1>5

\* Min is that element.
LEMMA MinIsLeast ==
  ASSUME NEW T, T \subseteq Nat, T # {}
  PROVE  Min(T) \in T /\ \A y \in T : Min(T) <= y
<1>1. \E x \in T : \A y \in T : x <= y
  BY Least, Zenon
<1>2. QED
  BY <1>1, Zenon DEF Min

-----------------------------------------------------------------------------
(***************************************************************************)
(* Hierarchies.  Superclasses have smaller indices, but for the knot that  *)
(* InitializeGlobals ties: Object class inherits from Class.  Rank orders  *)
(* those two the other way round.                                          *)
(***************************************************************************)
\* The prover does not know that a literal is a STRING.
FieldName == Range(ClassFields) \cup {"class", "method", "context"} \cup STRING
ClassName == {"Object", "Class", "Block", "BlockN"} \cup STRING

ClassRecord == [name : ClassName, super : Nat, class : Nat,
                fields : Seq(FieldName), table : Seq(Nat), size : Nat]

Rank(k) == IF k = Object THEN 0 ELSE IF k = Class THEN 1 ELSE k

Ranked(cs) ==
  /\ cs \in Seq(ClassRecord)
  /\ Len(cs) >= Block
  /\ \A k \in 1 .. Len(cs) : HasSuperClass(cs, k) =>
       cs[k].super \in 1 .. Len(cs) /\ Rank(cs[k].super) < Rank(k)

LEMMA RankNat ==
  ASSUME NEW k \in Nat \ {0}
  PROVE  Rank(k) \in Nat /\ Rank(k) <= k
BY DEF Rank, Object, Class

\* f obeys the recursion along the superclasses, for the classes of rank < n.
ChainTo(f, cs, base, step, n) ==
  \A k \in 1 .. Len(cs) : Rank(k) < n =>
    f[k] = IF HasSuperClass(cs, k) THEN step[k][f[cs[k].super]] ELSE step[k][base]

ChainSolution(f, cs, V, base, step) ==
  /\ f \in [1 .. Len(cs) -> V]
  /\ \A k \in 1 .. Len(cs) :
       f[k] = IF HasSuperClass(cs, k) THEN step[k][f[cs[k].super]] ELSE step[k][base]

\* A recursion along the superclasses has a solution.
LEMMA ChainFunction ==
  ASSUME NEW cs, Ranked(cs), NEW V, NEW base \in V,
         NEW step \in [1 .. Len(cs) -> [V -> V]]
  PROVE  \E f : ChainSolution(f, cs, V, base, step)
<1> DEFINE C == 1 .. Len(cs)
           Bad == {n \in Nat : ~ \E f \in [C -> V] : ChainTo(f, cs, base, step, n)}
<1>0. Len(cs) \in Nat
  BY DEF Ranked
<1>1. Bad = {}
  <2> SUFFICES ASSUME Bad # {}
               PROVE  FALSE
    OBVIOUS
  <2>1. PICK n \in Bad : \A y \in Bad : n <= y
    <3>1. Bad \subseteq Nat
      OBVIOUS
    <3> HIDE DEF Bad
    <3> QED BY <3>1, Least
  <2>2. n # 0
    <3>1. ChainTo([k \in C |-> base], cs, base, step, 0)
      BY RankNat DEF ChainTo
    <3> QED BY <3>1
  <2>3. n \in Nat /\ n - 1 \in Nat /\ n - 1 \notin Bad
    BY <2>1, <2>2
  <2>4. PICK g \in [C -> V] : ChainTo(g, cs, base, step, n - 1)
    BY <2>3
  <2> DEFINE new(k) == IF HasSuperClass(cs, k) THEN step[k][g[cs[k].super]]
                       ELSE step[k][base]
             f == [k \in C |-> IF Rank(k) = n - 1 THEN new(k) ELSE g[k]]
  <2>5. ASSUME NEW k \in C
        PROVE  new(k) \in V
    BY DEF Ranked
  <2>6. f \in [C -> V]
    BY <2>5
  <2>7. ASSUME NEW k \in C, Rank(k) < n
        PROVE  f[k] = IF HasSuperClass(cs, k) THEN step[k][f[cs[k].super]]
                      ELSE step[k][base]
    <3>1. Rank(k) \in Nat
      BY RankNat
    <3>2. f[k] = new(k)
      BY <2>3, <2>4, <2>7, <3>1 DEF ChainTo
    <3>3. CASE HasSuperClass(cs, k)
      <4>1. cs[k].super \in C /\ Rank(cs[k].super) < Rank(k)
        BY <3>3 DEF Ranked
      <4>2. Rank(cs[k].super) \in Nat
        BY <4>1, RankNat
      <4>3. Rank(cs[k].super) # n - 1
        BY <2>3, <2>7, <3>1, <4>1, <4>2
      <4>4. f[cs[k].super] = g[cs[k].super]
        BY <4>1, <4>3
      <4> QED BY <3>2, <3>3, <4>4
    <3>4. CASE ~HasSuperClass(cs, k)
      BY <3>2, <3>4
    <3> QED BY <3>3, <3>4
  <2>8. ChainTo(f, cs, base, step, n)
    <3> HIDE DEF f
    <3> QED BY <2>7 DEF ChainTo
  <2> QED BY <2>1, <2>6, <2>8
<1>2. PICK f \in [C -> V] : ChainTo(f, cs, base, step, Len(cs) + 1)
  BY <1>0, <1>1
<1>3. ASSUME NEW k \in C
      PROVE  Rank(k) < Len(cs) + 1
  BY <1>0, RankNat
<1> QED BY <1>2, <1>3 DEF ChainTo, ChainSolution

\* Induction along the superclasses.
LEMMA ChainInduction ==
  ASSUME NEW cs, Ranked(cs), NEW S,
         \A k \in 1 .. Len(cs) : (HasSuperClass(cs, k) => cs[k].super \in S) => k \in S
  PROVE  1 .. Len(cs) \subseteq S
<1> DEFINE Bad == {Rank(k) : k \in (1 .. Len(cs)) \ S}
<1> SUFFICES ASSUME Bad # {}
             PROVE  FALSE
  OBVIOUS
<1>0. Len(cs) \in Nat
  BY DEF Ranked
<1>1. PICK n \in Bad : \A y \in Bad : n <= y
  <2>1. Bad \subseteq Nat
    BY <1>0, RankNat
  <2> HIDE DEF Bad
  <2> QED BY <2>1, Least
<1>2. PICK k \in 1 .. Len(cs) : k \notin S /\ n = Rank(k)
  BY <1>1
<1>3. HasSuperClass(cs, k) /\ cs[k].super \notin S
  BY <1>2
<1>4. cs[k].super \in 1 .. Len(cs) /\ Rank(cs[k].super) < Rank(k)
  BY <1>3 DEF Ranked
<1>5. Rank(cs[k].super) \in Nat /\ Rank(k) \in Nat
  BY <1>0, <1>4, RankNat
<1>6. n <= Rank(cs[k].super)
  BY <1>1, <1>3, <1>4
<1> QED BY <1>2, <1>4, <1>5, <1>6

\* FieldNames obeys its definition.
LEMMA FieldNamesDefined ==
  ASSUME NEW cs, Ranked(cs)
  PROVE  /\ FieldNames(cs) \in [1 .. Len(cs) -> Seq(FieldName)]
         /\ \A k \in 1 .. Len(cs) :
              FieldNames(cs)[k] = (IF HasSuperClass(cs, k) THEN FieldNames(cs)[cs[k].super]
                                   ELSE <<>>) \o cs[k].fields
<1> DEFINE C == 1 .. Len(cs)
           V == Seq(FieldName)
           step == [k \in C |-> [v \in V |-> v \o cs[k].fields]]
<1>1. ASSUME NEW k \in C
      PROVE  cs[k].fields \in V
  <2>1. cs[k] \in ClassRecord
    BY DEF Ranked
  <2> QED BY <2>1 DEF ClassRecord
<1>2. step \in [C -> [V -> V]]
  <2>1. ASSUME NEW k \in C, NEW v \in V
        PROVE  v \o cs[k].fields \in V
    BY <1>1
  <2> QED BY <2>1
<1>3. PICK f \in [C -> V] : \A k \in C :
        f[k] = IF HasSuperClass(cs, k) THEN step[k][f[cs[k].super]] ELSE step[k][<<>>]
  <2>1. <<>> \in V
    OBVIOUS
  <2> HIDE DEF V, step
  <2>2. PICK f : ChainSolution(f, cs, V, <<>>, step)
    BY <1>2, <2>1, ChainFunction
  <2> QED BY <2>2 DEF ChainSolution
<1>4. ASSUME NEW k \in C
      PROVE  f[k] = (IF HasSuperClass(cs, k) THEN f[cs[k].super] ELSE <<>>) \o cs[k].fields
  <2>1. CASE HasSuperClass(cs, k)
    <3>1. cs[k].super \in C
      BY <2>1 DEF Ranked
    <3>2. f[cs[k].super] \in V
      BY <3>1
    <3> QED BY <1>3, <2>1, <3>2
  <2>2. CASE ~HasSuperClass(cs, k)
    <3>1. <<>> \in V
      OBVIOUS
    <3> QED BY <1>3, <2>2, <3>1
  <2> QED BY <2>1, <2>2
<1>5. f = [k \in C |-> (IF HasSuperClass(cs, k) THEN f[cs[k].super] ELSE <<>>)
                       \o cs[k].fields]
  <2>1. f = [k \in C |-> f[k]]
    OBVIOUS
  <2> QED BY <1>4, <2>1, Zenon
<1>6. FieldNames(cs) = [k \in C |-> (IF HasSuperClass(cs, k) THEN FieldNames(cs)[cs[k].super]
                                     ELSE <<>>) \o cs[k].fields]
  BY <1>5, Zenon DEF FieldNames
<1> DEFINE F == FieldNames(cs)
<1>7. /\ F = [k \in C |-> F[k]]
      /\ \A k \in C : F[k] = (IF HasSuperClass(cs, k) THEN F[cs[k].super]
                                     ELSE <<>>) \o cs[k].fields
  <2> HIDE DEF F
  <2>1. F = [k \in C |-> (IF HasSuperClass(cs, k) THEN F[cs[k].super]
                                     ELSE <<>>) \o cs[k].fields]
    BY <1>6 DEF F
  <2> QED BY <2>1
<1> HIDE DEF F
<1>8. ASSUME NEW k \in C
      PROVE  F[k] \in V
  <2> DEFINE S == {j \in C : F[j] \in V}
  <2>1. ASSUME NEW j \in C, HasSuperClass(cs, j) => cs[j].super \in S
        PROVE  j \in S
    <3>1. F[j] = (IF HasSuperClass(cs, j) THEN F[cs[j].super] ELSE <<>>) \o cs[j].fields
      BY <1>7
    <3>2. cs[j].fields \in V
      BY <1>1
    <3>3. (IF HasSuperClass(cs, j) THEN F[cs[j].super] ELSE <<>>) \in V
      BY <2>1
    <3>4. F[j] \in V
      BY <3>1, <3>2, <3>3
    <3> QED BY <3>4
  <2> HIDE DEF S
  <2>2. C \subseteq S
    BY <2>1, ChainInduction
  <2> QED BY <2>2 DEF S
<1> QED BY <1>7, <1>8 DEF F

\* Chains obeys its definition.
LEMMA ChainsDefined ==
  ASSUME NEW cs, Ranked(cs)
  PROVE  /\ Chains(cs) \in [1 .. Len(cs) -> SUBSET (1 .. Len(cs))]
         /\ \A k \in 1 .. Len(cs) :
              Chains(cs)[k] = {k} \cup (IF HasSuperClass(cs, k)
                                        THEN Chains(cs)[cs[k].super] ELSE {})
<1> DEFINE C == 1 .. Len(cs)
           V == SUBSET C
           step == [k \in C |-> [v \in V |-> {k} \cup v]]
<1>2. step \in [C -> [V -> V]]
  <2>1. ASSUME NEW k \in C, NEW v \in V
        PROVE  {k} \cup v \in V
    OBVIOUS
  <2> QED BY <2>1
<1>3. PICK f \in [C -> V] : \A k \in C :
        f[k] = IF HasSuperClass(cs, k) THEN step[k][f[cs[k].super]] ELSE step[k][{}]
  <2> DEFINE base == {}
  <2>1. base \in V
    OBVIOUS
  <2> HIDE DEF V, step, base
  <2>2. PICK f : ChainSolution(f, cs, V, base, step)
    BY <1>2, <2>1, ChainFunction
  <2> QED BY <2>2 DEF ChainSolution, base
<1>4. ASSUME NEW k \in C
      PROVE  f[k] = {k} \cup (IF HasSuperClass(cs, k) THEN f[cs[k].super] ELSE {})
  <2>1. CASE HasSuperClass(cs, k)
    <3>1. cs[k].super \in C
      BY <2>1 DEF Ranked
    <3>2. f[cs[k].super] \in V
      BY <3>1
    <3> QED BY <1>3, <2>1, <3>2
  <2>2. CASE ~HasSuperClass(cs, k)
    <3>1. {} \in V
      OBVIOUS
    <3> QED BY <1>3, <2>2, <3>1
  <2> QED BY <2>1, <2>2
<1>5. f = [k \in C |-> {k} \cup (IF HasSuperClass(cs, k) THEN f[cs[k].super] ELSE {})]
  <2>1. f = [k \in C |-> f[k]]
    OBVIOUS
  <2> QED BY <1>4, <2>1, Zenon
<1>6. Chains(cs) = [k \in C |-> {k} \cup (IF HasSuperClass(cs, k)
                                          THEN Chains(cs)[cs[k].super] ELSE {})]
  BY <1>5, Zenon DEF Chains
<1> DEFINE F == Chains(cs)
<1>7. /\ F = [k \in C |-> F[k]]
      /\ \A k \in C : F[k] = {k} \cup (IF HasSuperClass(cs, k) THEN F[cs[k].super] ELSE {})
  <2> HIDE DEF F
  <2>1. F = [k \in C |-> {k} \cup (IF HasSuperClass(cs, k) THEN F[cs[k].super] ELSE {})]
    BY <1>6 DEF F
  <2> QED BY <2>1
<1> HIDE DEF F
<1>8. ASSUME NEW k \in C
      PROVE  F[k] \in V
  <2> DEFINE S == {j \in C : F[j] \in V}
  <2>1. ASSUME NEW j \in C, HasSuperClass(cs, j) => cs[j].super \in S
        PROVE  j \in S
    <3>1. F[j] = {j} \cup (IF HasSuperClass(cs, j) THEN F[cs[j].super] ELSE {})
      BY <1>7
    <3> QED BY <2>1, <3>1
  <2> HIDE DEF S
  <2>2. C \subseteq S
    BY <2>1, ChainInduction
  <2> QED BY <2>2 DEF S
<1> QED BY <1>7, <1>8 DEF F

\* Where the own table of class k has the signature.
Own(cs, is, sig, k) == {i \in DOMAIN cs[k].table : is[cs[k].table[i]].sig = sig}

\* What the own table of class k gives.
LEMMA OwnEntry ==
  ASSUME NEW cs, Ranked(cs), NEW is, NEW sig, NEW k \in 1 .. Len(cs),
         Own(cs, is, sig, k) # {}
  PROVE  LET i == Min(Own(cs, is, sig, k))
         IN /\ i \in DOMAIN cs[k].table
            /\ is[cs[k].table[i]].sig = sig
            /\ \A j \in DOMAIN cs[k].table : is[cs[k].table[j]].sig = sig => i <= j
            /\ cs[k].table[i] \in Nat
<1>1. cs[k] \in ClassRecord
  BY DEF Ranked
<1>2. cs[k].table \in Seq(Nat)
  BY <1>1 DEF ClassRecord
<1>3. Own(cs, is, sig, k) \subseteq Nat
  BY <1>2 DEF Own
<1>4. PICK i : i = Min(Own(cs, is, sig, k))
  OBVIOUS
<1>5. i \in Own(cs, is, sig, k) /\ \A y \in Own(cs, is, sig, k) : i <= y
  BY <1>3, <1>4, MinIsLeast
<1>6. i \in DOMAIN cs[k].table /\ is[cs[k].table[i]].sig = sig
  BY <1>5 DEF Own
<1>7. \A j \in DOMAIN cs[k].table : is[cs[k].table[j]].sig = sig => i <= j
  BY <1>5 DEF Own
<1>8. cs[k].table[i] \in Nat
  BY <1>2, <1>6
<1> QED BY <1>4, <1>6, <1>7, <1>8

\* Lookups obeys its definition.
LEMMA LookupsDefined ==
  ASSUME NEW cs, Ranked(cs), NEW is, NEW sig
  PROVE  \A k \in 1 .. Len(cs) :
           Lookups(cs, is, sig)[k] =
             IF Own(cs, is, sig, k) # {} THEN cs[k].table[Min(Own(cs, is, sig, k))]
             ELSE IF HasSuperClass(cs, k) THEN Lookups(cs, is, sig)[cs[k].super] ELSE Nil
<1> DEFINE C == 1 .. Len(cs)
           V == Nat
           own(k) == Own(cs, is, sig, k)
           entry(k) == cs[k].table[Min(own(k))]
           step == [k \in C |-> [v \in V |-> IF own(k) # {} THEN entry(k) ELSE v]]
<1>1. ASSUME NEW k \in C, own(k) # {}
      PROVE  entry(k) \in Nat
  BY <1>1, OwnEntry
<1>2. step \in [C -> [V -> V]]
  <2>1. ASSUME NEW k \in C, NEW v \in V
        PROVE  (IF own(k) # {} THEN entry(k) ELSE v) \in V
    BY <1>1
  <2> HIDE DEF entry, own
  <2> QED BY <2>1
<1>3. PICK f : ChainSolution(f, cs, V, Nil, step)
  <2>1. Nil \in V
    BY DEF Nil
  <2> HIDE DEF V, step
  <2> QED BY <1>2, <2>1, ChainFunction
<1> HIDE DEF own, entry
<1>4. ASSUME NEW k \in C
      PROVE  f[k] = IF own(k) # {} THEN entry(k)
                    ELSE IF HasSuperClass(cs, k) THEN f[cs[k].super] ELSE Nil
  <2>1. CASE HasSuperClass(cs, k)
    <3>1. cs[k].super \in C
      BY <2>1 DEF Ranked
    <3>2. f[cs[k].super] \in V
      BY <1>3, <3>1 DEF ChainSolution
    <3> QED BY <1>3, <2>1, <3>2 DEF ChainSolution
  <2>2. CASE ~HasSuperClass(cs, k)
    <3>1. Nil \in V
      BY DEF Nil
    <3> QED BY <1>3, <2>2, <3>1 DEF ChainSolution
  <2> QED BY <2>1, <2>2
<1>5. f = [k \in C |-> IF own(k) # {} THEN entry(k)
                       ELSE IF HasSuperClass(cs, k) THEN f[cs[k].super] ELSE Nil]
  <2>1. f = [k \in C |-> f[k]]
    BY <1>3 DEF ChainSolution
  <2> QED BY <1>4, <2>1, Zenon
<1>6. PICK F : F = Lookups(cs, is, sig)
  OBVIOUS
<1>7. F = [k \in C |-> IF own(k) # {} THEN entry(k)
                       ELSE IF HasSuperClass(cs, k) THEN F[cs[k].super] ELSE Nil]
  BY <1>5, <1>6, Zenon DEF Lookups, own, entry, Own
<1>8. ASSUME NEW k \in C
      PROVE  F[k] = IF own(k) # {} THEN entry(k)
                    ELSE IF HasSuperClass(cs, k) THEN F[cs[k].super] ELSE Nil
  BY <1>7
<1> QED BY <1>6, <1>8 DEF own, entry

\* A class is in its own chain; the rest is the chain of its superclass.
LEMMA ChainCases ==
  ASSUME NEW cs, Ranked(cs), NEW c \in 1 .. Len(cs), NEW k \in Chains(cs)[c]
  PROVE  /\ k \in 1 .. Len(cs)
         /\ \/ k = c
            \/ /\ HasSuperClass(cs, c)
               /\ cs[c].super \in 1 .. Len(cs)
               /\ k \in Chains(cs)[cs[c].super]
<1>1. Chains(cs)[c] = {c} \cup (IF HasSuperClass(cs, c) THEN Chains(cs)[cs[c].super] ELSE {})
  BY ChainsDefined
<1>2. Chains(cs)[c] \in SUBSET (1 .. Len(cs))
  BY ChainsDefined
<1>3. HasSuperClass(cs, c) => cs[c].super \in 1 .. Len(cs)
  BY DEF Ranked
<1> QED BY <1>1, <1>2, <1>3

\* Ranks do not grow along a chain.
LEMMA ChainDescends ==
  ASSUME NEW cs, Ranked(cs), NEW c \in 1 .. Len(cs), NEW k \in Chains(cs)[c]
  PROVE  Rank(k) <= Rank(c)
<1> DEFINE C == 1 .. Len(cs)
           S == {j \in C : \A i \in Chains(cs)[j] : Rank(i) <= Rank(j)}
<1>1. ASSUME NEW j \in C, HasSuperClass(cs, j) => cs[j].super \in S,
             NEW i \in Chains(cs)[j]
      PROVE  Rank(i) <= Rank(j)
  <2>1. i \in C /\ Rank(i) \in Nat /\ Rank(j) \in Nat
    <3>1. i \in C
      BY ChainCases
    <3> QED BY <3>1, RankNat
  <2>2. CASE i = j
    BY <2>1, <2>2
  <2>3. CASE i # j
    <3>1. /\ HasSuperClass(cs, j) /\ cs[j].super \in C
          /\ i \in Chains(cs)[cs[j].super]
      BY <2>3, ChainCases
    <3>2. Rank(i) <= Rank(cs[j].super)
      BY <1>1, <3>1
    <3>3. Rank(cs[j].super) < Rank(j)
      BY <3>1 DEF Ranked
    <3>4. Rank(cs[j].super) \in Nat
      BY <3>1, RankNat
    <3> QED BY <2>1, <3>2, <3>3, <3>4
  <2> QED BY <2>2, <2>3
<1>2. ASSUME NEW j \in C, HasSuperClass(cs, j) => cs[j].super \in S
      PROVE  j \in S
  BY <1>1, <1>2
<1> HIDE DEF S
<1>3. C \subseteq S
  BY <1>2, ChainInduction
<1> QED BY <1>3 DEF S

\* The chain of a superclass does not come back to the class.
LEMMA ChainAscends ==
  ASSUME NEW cs, Ranked(cs), NEW c \in 1 .. Len(cs), HasSuperClass(cs, c),
         NEW k \in Chains(cs)[cs[c].super]
  PROVE  k \in Chains(cs)[c] \ {c}
<1>1. cs[c].super \in 1 .. Len(cs) /\ Rank(cs[c].super) < Rank(c)
  BY DEF Ranked
<1>2. Rank(k) <= Rank(cs[c].super)
  BY <1>1, ChainDescends
<1>3. Rank(k) \in Nat /\ Rank(c) \in Nat /\ Rank(cs[c].super) \in Nat
  <2>1. k \in 1 .. Len(cs)
    BY <1>1, ChainCases
  <2> QED BY <1>1, <2>1, RankNat
<1>4. k # c
  BY <1>1, <1>2, <1>3
<1>5. Chains(cs)[c] = {c} \cup (IF HasSuperClass(cs, c) THEN Chains(cs)[cs[c].super] ELSE {})
  BY ChainsDefined
<1> QED BY <1>4, <1>5

\* What a lookup finds is in the table of a class of the chain.
LEMMA LookupInChain ==
  ASSUME NEW cs, Ranked(cs), NEW is, NEW sig, NEW c \in 1 .. Len(cs),
         Lookups(cs, is, sig)[c] # Nil
  PROVE  \E k \in Chains(cs)[c] : \E i \in DOMAIN cs[k].table :
           Lookups(cs, is, sig)[c] = cs[k].table[i]
<1> DEFINE C == 1 .. Len(cs)
           F == Lookups(cs, is, sig)
           Found(j) == \E k \in Chains(cs)[j] : \E i \in DOMAIN cs[k].table :
                         F[j] = cs[k].table[i]
           S == {j \in C : F[j] # Nil => Found(j)}
<1>1. ASSUME NEW j \in C, HasSuperClass(cs, j) => cs[j].super \in S, F[j] # Nil
      PROVE  Found(j)
  <2>1. Chains(cs)[j] = {j} \cup (IF HasSuperClass(cs, j) THEN Chains(cs)[cs[j].super] ELSE {})
    BY ChainsDefined
  <2>2. F[j] = IF Own(cs, is, sig, j) # {} THEN cs[j].table[Min(Own(cs, is, sig, j))]
               ELSE IF HasSuperClass(cs, j) THEN F[cs[j].super] ELSE Nil
    BY LookupsDefined
  <2> HIDE DEF F
  <2>3. CASE Own(cs, is, sig, j) # {}
    <3>1. Min(Own(cs, is, sig, j)) \in DOMAIN cs[j].table
      BY <2>3, OwnEntry
    <3> QED BY <2>1, <2>2, <2>3, <3>1
  <2>4. CASE Own(cs, is, sig, j) = {}
    <3>1. HasSuperClass(cs, j) /\ F[j] = F[cs[j].super]
      BY <1>1, <2>2, <2>4
    <3>2. Found(cs[j].super)
      BY <1>1, <3>1
    <3> QED BY <2>1, <3>1, <3>2
  <2> QED BY <2>3, <2>4
<1>2. ASSUME NEW j \in C, HasSuperClass(cs, j) => cs[j].super \in S
      PROVE  j \in S
  BY <1>1, <1>2
<1> HIDE DEF S, F
<1>3. C \subseteq S
  BY <1>2, ChainInduction
<1> QED BY <1>3 DEF S, F

\* The field names of a class begin with those of each class of its chain.
LEMMA FieldsPrefix ==
  ASSUME NEW cs, Ranked(cs), NEW c \in 1 .. Len(cs), NEW k \in Chains(cs)[c]
  PROVE  LET F == FieldNames(cs)
         IN Len(F[k]) <= Len(F[c]) /\ \A i \in 1 .. Len(F[k]) : F[c][i] = F[k][i]
<1> DEFINE C == 1 .. Len(cs)
           F == FieldNames(cs)
           Begins(j, i) == /\ Len(F[i]) <= Len(F[j])
                           /\ \A x \in 1 .. Len(F[i]) : F[j][x] = F[i][x]
           S == {j \in C : \A i \in Chains(cs)[j] : Begins(j, i)}
<1>0. \A j \in C : F[j] \in Seq(FieldName)
  BY FieldNamesDefined
<1>1. ASSUME NEW j \in C, HasSuperClass(cs, j) => cs[j].super \in S,
             NEW i \in Chains(cs)[j]
      PROVE  Begins(j, i)
  <2>0. i \in C
    BY ChainCases
  <2>1. CASE i = j
    <3> HIDE DEF F
    <3>1. Len(F[j]) \in Nat
      BY <1>0
    <3> QED BY <2>1, <3>1
  <2>2. CASE i # j
    <3>1. /\ HasSuperClass(cs, j) /\ cs[j].super \in C
          /\ i \in Chains(cs)[cs[j].super]
      BY <2>2, ChainCases
    <3>2. Begins(cs[j].super, i)
      BY <1>1, <3>1
    <3>3. F[j] = F[cs[j].super] \o cs[j].fields
      BY <3>1, FieldNamesDefined
    <3>4. cs[j].fields \in Seq(FieldName)
      <4>1. cs[j] \in ClassRecord
        BY DEF Ranked
      <4> QED BY <4>1 DEF ClassRecord
    <3>5. F[cs[j].super] \in Seq(FieldName) /\ F[i] \in Seq(FieldName)
      BY <1>0, <2>0, <3>1
    <3> HIDE DEF F
    <3>6. /\ Len(F[j]) >= Len(F[cs[j].super])
          /\ \A x \in 1 .. Len(F[cs[j].super]) : F[j][x] = F[cs[j].super][x]
      <4>1. PICK s, g, t : s = F[cs[j].super] /\ g = cs[j].fields /\ t = F[j]
        OBVIOUS
      <4>2. s \in Seq(FieldName) /\ g \in Seq(FieldName) /\ t = s \o g
        BY <3>3, <3>4, <3>5, <4>1
      <4>3. Len(t) >= Len(s)
        BY <4>2
      <4>4. ASSUME NEW x \in 1 .. Len(s)
            PROVE  t[x] = s[x]
        BY <4>2
      <4> QED BY <4>1, <4>3, <4>4
    <3>7. Len(F[j]) \in Nat /\ Len(F[cs[j].super]) \in Nat /\ Len(F[i]) \in Nat
      BY <1>0, <3>5
    <3> QED BY <3>2, <3>6, <3>7
  <2> QED BY <2>1, <2>2
<1>2. ASSUME NEW j \in C, HasSuperClass(cs, j) => cs[j].super \in S
      PROVE  j \in S
  BY <1>1, <1>2
<1> HIDE DEF S
<1>3. C \subseteq S
  BY <1>2, ChainInduction
<1> QED BY <1>3 DEF S

\* A field a class declares is one of its field names.
LEMMA OwnFieldNamed ==
  ASSUME NEW cs, Ranked(cs), NEW k \in 1 .. Len(cs), NEW f \in Range(cs[k].fields)
  PROVE  \E i \in 1 .. Len(FieldNames(cs)[k]) : FieldNames(cs)[k][i] = f
<1>1. PICK s, g : /\ s = IF HasSuperClass(cs, k) THEN FieldNames(cs)[cs[k].super] ELSE <<>>
                  /\ g = cs[k].fields
  OBVIOUS
<1>2. s \in Seq(FieldName)
  <2>1. HasSuperClass(cs, k) => cs[k].super \in 1 .. Len(cs)
    BY DEF Ranked
  <2>2. CASE HasSuperClass(cs, k)
    BY <1>1, <2>1, <2>2, FieldNamesDefined
  <2>3. CASE ~HasSuperClass(cs, k)
    BY <1>1, <2>3
  <2> QED BY <2>2, <2>3
<1>3. g \in Seq(FieldName)
  <2>1. cs[k] \in ClassRecord
    BY DEF Ranked
  <2> QED BY <1>1, <2>1 DEF ClassRecord
<1>4. FieldNames(cs)[k] = s \o g
  BY <1>1, FieldNamesDefined
<1>5. PICK x \in 1 .. Len(g) : g[x] = f
  BY <1>1, <1>3 DEF Range
<1>6. Len(s) + x \in 1 .. Len(s \o g) /\ (s \o g)[Len(s) + x] = f
  BY <1>2, <1>3, <1>5
<1> QED BY <1>4, <1>6

\* Classes added later change no field names.
LEMMA FieldNamesStable ==
  ASSUME NEW cs, NEW ds, Ranked(cs), Ranked(ds), Len(cs) <= Len(ds),
         \A k \in 1 .. Len(cs) : ds[k].super = cs[k].super /\ ds[k].fields = cs[k].fields
  PROVE  \A k \in 1 .. Len(cs) : FieldNames(ds)[k] = FieldNames(cs)[k]
<1> DEFINE C == 1 .. Len(cs)
           S == {j \in C : FieldNames(ds)[j] = FieldNames(cs)[j]}
<1>1. ASSUME NEW j \in C, HasSuperClass(cs, j) => cs[j].super \in S
      PROVE  j \in S
  <2>0. Len(cs) \in Nat /\ Len(ds) \in Nat
    BY DEF Ranked
  <2>1. j \in 1 .. Len(ds)
    BY <2>0
  <2>2. FieldNames(ds)[j] = (IF HasSuperClass(ds, j) THEN FieldNames(ds)[ds[j].super]
                             ELSE <<>>) \o ds[j].fields
    BY <2>1, FieldNamesDefined
  <2>3. FieldNames(cs)[j] = (IF HasSuperClass(cs, j) THEN FieldNames(cs)[cs[j].super]
                             ELSE <<>>) \o cs[j].fields
    BY FieldNamesDefined
  <2>4. HasSuperClass(ds, j) = HasSuperClass(cs, j)
    BY DEF HasSuperClass
  <2> QED BY <1>1, <2>2, <2>3, <2>4
<1> HIDE DEF S
<1>2. C \subseteq S
  BY <1>1, ChainInduction
<1> QED BY <1>2 DEF S

-----------------------------------------------------------------------------
(***************************************************************************)
(* Field indices.                                                          *)
(***************************************************************************)

\* A field that a class of the chain declares is found within the names of
\* that class, and at the same index from every class below.
LEMMA FieldIndex ==
  ASSUME Ranked(classes), NEW c \in ClassId, NEW k \in Ancestors(c),
         NEW f \in Range(classes[k].fields)
  PROVE  /\ LookupFieldIndex(c, f) = LookupFieldIndex(k, f)
         /\ LookupFieldIndex(c, f) \in 0 .. Len(InstanceFields(c)) - 1
<1>1. PICK s, t : s = InstanceFields(k) /\ t = InstanceFields(c)
  OBVIOUS
<1>2. k \in ClassId
  BY ChainCases DEF Ancestors, ClassId
<1>3. s \in Seq(FieldName) /\ t \in Seq(FieldName)
  BY <1>1, <1>2, FieldNamesDefined DEF InstanceFields, ClassId
<1>4. Len(s) <= Len(t) /\ \A i \in 1 .. Len(s) : t[i] = s[i]
  BY <1>1, FieldsPrefix DEF InstanceFields, ClassId, Ancestors
<1>5. PICK x \in 1 .. Len(s) : s[x] = f
  <2>1. \E x \in 1 .. Len(FieldNames(classes)[k]) : FieldNames(classes)[k][x] = f
    BY <1>2, OwnFieldNamed DEF ClassId
  <2> QED BY <1>1, <2>1 DEF InstanceFields
<1> DEFINE atS == {i \in DOMAIN s : s[i] = f}
           atT == {i \in DOMAIN t : t[i] = f}
<1>6. x \in atS /\ x \in atT
  BY <1>3, <1>4, <1>5
<1>7. atS \subseteq Nat /\ atT \subseteq Nat /\ atS \subseteq atT
  BY <1>3, <1>4
<1>8. PICK m, n : m = Min(atS) /\ n = Min(atT)
  OBVIOUS
<1>9. /\ LookupFieldIndex(k, f) = m - 1
      /\ LookupFieldIndex(c, f) = n - 1
  BY <1>1, <1>6, <1>8 DEF LookupFieldIndex
<1>10. /\ m \in atS /\ \A y \in atS : m <= y
       /\ n \in atT /\ \A y \in atT : n <= y
  <2>1. atS # {} /\ atT # {}
    BY <1>6
  <2> HIDE DEF atS, atT
  <2> QED BY <1>7, <1>8, <2>1, MinIsLeast
<1>11. n <= m /\ n \in Nat /\ m \in Nat
  BY <1>7, <1>10
<1>12. n \in atS
  <2>1. n \in 1 .. Len(s)
    BY <1>3, <1>10, <1>11
  <2> QED BY <1>3, <1>4, <1>10, <2>1
<1>13. n = m
  BY <1>10, <1>11, <1>12
<1>14. n \in 1 .. Len(t)
  BY <1>3, <1>10
<1> QED BY <1>1, <1>3, <1>9, <1>13, <1>14

-----------------------------------------------------------------------------
(***************************************************************************)
(* The invariant, over a list of classes and a list of invokables.         *)
(***************************************************************************)
RoutineName == {Empty, <<>>, <<"evaluationRoutine">>}
                 \cup {Routine(n, s) : n \in ClassName, s \in Selector}

LibraryRecord == {NoLibrary} \cup UNION Disks

InvokableRecord ==
  [sig : Selector, kind : {"method", "primitive", "evaluation"},
   routine : RoutineName, lib : LibraryRecord, holder : Nat, argc : Nat]

\* A class object has room for the fields of its metaclass.
Layout(cs) ==
  /\ Ranked(cs)
  /\ cs[Block].class # Nil
  /\ \A c \in 1 .. Len(cs) :
       /\ cs[c].class \in 0 .. Len(cs)
       /\ cs[c].class # Nil => Len(FieldNames(cs)[cs[c].class]) <= cs[c].size

\* The invokables of a class's table are held by it.
Tables(cs, is) ==
  /\ is \in Seq(InvokableRecord)
  /\ \A i \in 1 .. Len(is) : is[i].holder \in 1 .. Len(cs)
  /\ \A c \in 1 .. Len(cs) : \A i \in DOMAIN cs[c].table :
       cs[c].table[i] \in 1 .. Len(is) /\ is[cs[c].table[i]].holder = c

\* Classes and invokables are only added.
Grown(cs, is, ds, js) ==
  /\ Len(cs) <= Len(ds) /\ \A k \in 1 .. Len(cs) : ds[k] = cs[k]
  /\ Len(is) <= Len(js) /\ \A i \in 1 .. Len(is) : js[i] = is[i]

\* The types of a class's parts.
LEMMA ClassType ==
  ASSUME NEW cs, Ranked(cs), NEW c \in 1 .. Len(cs)
  PROVE  /\ cs[c] \in ClassRecord /\ cs[c].name \in ClassName
         /\ cs[c].super \in Nat /\ cs[c].class \in Nat /\ cs[c].size \in Nat
         /\ cs[c].fields \in Seq(FieldName) /\ cs[c].table \in Seq(Nat)
<1>1. cs[c] \in ClassRecord
  BY DEF Ranked
<1> QED BY <1>1 DEF ClassRecord

\* The invokables of a list.
LEMMA ListHeld ==
  ASSUME NEW list \in Source, NEW c \in Nat
  PROVE  /\ SetInstanceInvokables(list, c) \in Seq(InvokableRecord)
         /\ Len(SetInstanceInvokables(list, c)) = Len(list)
         /\ \A i \in 1 .. Len(list) :
              /\ SetInstanceInvokables(list, c)[i].sig = list[i].sig
              /\ SetInstanceInvokables(list, c)[i].kind # "method" => list[i].primitive
              /\ SetInstanceInvokables(list, c)[i].holder = c
              /\ SetInstanceInvokables(list, c)[i].kind \in {"method", "primitive"}
<1>1. list \in Seq([sig : Selector, primitive : BOOLEAN])
  BY DEF Source
<1>2. DOMAIN list = 1 .. Len(list) /\ Len(list) \in Nat
  BY <1>1
<1>3. ASSUME NEW i \in 1 .. Len(list)
      PROVE  LET v == [NewInvokable(list[i]) EXCEPT !.holder = c]
             IN /\ v \in InvokableRecord
                /\ v.sig = list[i].sig /\ v.holder = c
                /\ v.kind \in {"method", "primitive"}
                /\ v.kind # "method" => list[i].primitive
  <2>1. list[i] \in [sig : Selector, primitive : BOOLEAN]
    <3>1. PICK R : R = [sig : Selector, primitive : BOOLEAN]
      OBVIOUS
    <3>2. list \in Seq(R)
      BY <1>1, <3>1, Zenon
    <3>3. list[i] \in R
      BY <3>2
    <3> QED BY <3>1, <3>3, Zenon
  <2>2. list[i].sig \in Selector
    BY <2>1
  <2>3. PICK r : r = IF list[i].primitive THEN Empty ELSE <<>>
    OBVIOUS
  <2>4. r \in RoutineName
    BY <2>3 DEF RoutineName
  <2>5. PICK k : k = IF list[i].primitive THEN "primitive" ELSE "method"
    OBVIOUS
  <2>6. k \in {"method", "primitive"}
    BY <2>5
  <2>7. [NewInvokable(list[i]) EXCEPT !.holder = c]
          = [sig |-> list[i].sig, kind |-> k, routine |-> r, lib |-> NoLibrary,
             holder |-> c, argc |-> 0]
    BY <2>3, <2>5 DEF NewInvokable
  <2>8. NoLibrary \in LibraryRecord
    BY DEF LibraryRecord
  <2>9. k # "method" => list[i].primitive
    BY <2>5
  <2> QED BY <2>2, <2>4, <2>6, <2>7, <2>8, <2>9 DEF InvokableRecord
<1>4. PICK s : s = SetInstanceInvokables(list, c)
  OBVIOUS
<1>5. s = [i \in 1 .. Len(list) |-> [NewInvokable(list[i]) EXCEPT !.holder = c]]
  BY <1>2, <1>4 DEF SetInstanceInvokables
<1>6. s \in [1 .. Len(list) -> InvokableRecord]
  BY <1>3, <1>5
<1>7. s \in Seq(InvokableRecord) /\ Len(s) = Len(list)
  BY <1>2, <1>6
<1>8. ASSUME NEW i \in 1 .. Len(list)
      PROVE  /\ s[i].sig = list[i].sig /\ s[i].holder = c
             /\ s[i].kind \in {"method", "primitive"}
             /\ s[i].kind # "method" => list[i].primitive
  <2>1. s[i] = [NewInvokable(list[i]) EXCEPT !.holder = c]
    BY <1>5
  <2> QED BY <1>3, <2>1
<1> QED BY <1>4, <1>7, <1>8

\* A list of indices.
LEMMA IndicesType ==
  ASSUME NEW k \in Nat, NEW n \in Nat
  PROVE  /\ Indices(k, n) \in Seq(Nat) /\ Len(Indices(k, n)) = n
         /\ DOMAIN Indices(k, n) = 1 .. n
         /\ \A i \in 1 .. n : Indices(k, n)[i] = k + i
<1>1. PICK s : s = Indices(k, n)
  OBVIOUS
<1>2. s = [i \in 1 .. n |-> k + i]
  BY <1>1 DEF Indices
<1>3. s \in [1 .. n -> Nat]
  BY <1>2
<1>4. s \in Seq(Nat) /\ Len(s) = n
  BY <1>3
<1> QED BY <1>1, <1>2, <1>4

\* The names the parser collects are field names.
LEMMA StringsAreNames ==
  ASSUME NEW s \in Seq(STRING)
  PROVE  s \in Seq(FieldName)
<1>1. PICK T : T = STRING
  OBVIOUS
<1>2. PICK U : U = FieldName
  OBVIOUS
<1>3. s \in Seq(T)
  BY <1>1, Zenon
<1>4. T \subseteq U
  BY <1>1, <1>2, Zenon DEF FieldName
<1>5. s \in Seq(U)
  BY <1>3, <1>4
<1> QED BY <1>2, <1>5

\* A list of two classes more is ranked when the new superclasses are old
\* ones, or the first of the two.
LEMMA RankedGrows ==
  ASSUME NEW cs, Ranked(cs), NEW a \in ClassRecord, NEW b \in ClassRecord,
         a.super \in 1 .. Len(cs), b.super \in 1 .. Len(cs)
  PROVE  /\ Ranked(cs \o <<a, b>>)
         /\ Len(cs \o <<a, b>>) = Len(cs) + 2
         /\ \A k \in 1 .. Len(cs) : (cs \o <<a, b>>)[k] = cs[k]
         /\ (cs \o <<a, b>>)[Len(cs) + 1] = a
         /\ (cs \o <<a, b>>)[Len(cs) + 2] = b
<1>1. PICK ds : ds = cs \o <<a, b>>
  OBVIOUS
<1>2. cs \in Seq(ClassRecord) /\ Len(cs) \in Nat /\ Len(cs) >= 6
  BY DEF Ranked, Block
<1>3. <<a, b>> \in Seq(ClassRecord)
  OBVIOUS
<1>4. ds \in Seq(ClassRecord) /\ Len(ds) = Len(cs) + 2
  BY <1>1, <1>2, <1>3
<1>5. \A k \in 1 .. Len(cs) : ds[k] = cs[k]
  BY <1>1, <1>2, <1>3
<1>6. ds[Len(cs) + 1] = a /\ ds[Len(cs) + 2] = b
  BY <1>1, <1>2, <1>3
<1>7. ASSUME NEW k \in 1 .. Len(ds), HasSuperClass(ds, k)
      PROVE  ds[k].super \in 1 .. Len(ds) /\ Rank(ds[k].super) < Rank(k)
  <2>1. CASE k \in 1 .. Len(cs)
    <3>1. HasSuperClass(cs, k)
      BY <1>5, <1>7, <2>1 DEF HasSuperClass
    <3>2. cs[k].super \in 1 .. Len(cs) /\ Rank(cs[k].super) < Rank(k)
      BY <2>1, <3>1 DEF Ranked
    <3> QED BY <1>2, <1>4, <1>5, <2>1, <3>2
  <2>2. CASE k \notin 1 .. Len(cs)
    <3>1. k \in {Len(cs) + 1, Len(cs) + 2}
      BY <1>2, <1>4, <2>2
    <3>2. ds[k].super \in 1 .. Len(cs)
      BY <1>6, <3>1
    <3>3. Rank(ds[k].super) <= Len(cs) /\ Rank(ds[k].super) \in Nat
      <4>1. ds[k].super \in Nat \ {0} /\ ds[k].super <= Len(cs)
        BY <1>2, <3>2
      <4>2. Rank(ds[k].super) \in Nat /\ Rank(ds[k].super) <= ds[k].super
        BY <4>1, RankNat
      <4> QED BY <1>2, <4>1, <4>2
    <3>4. Rank(k) = k
      BY <1>2, <3>1 DEF Rank, Object, Class
    <3> QED BY <1>2, <1>4, <3>1, <3>2, <3>3, <3>4
  <2> QED BY <2>1, <2>2
<1>8. Ranked(ds)
  BY <1>2, <1>4, <1>7 DEF Ranked, Block
<1> QED BY <1>1, <1>4, <1>5, <1>6, <1>8

\* Concatenation of two lists.
LEMMA ConcatType ==
  ASSUME NEW S, NEW s \in Seq(S), NEW t \in Seq(S)
  PROVE  s \o t \in Seq(S) /\ Len(s \o t) = Len(s) + Len(t)
OBVIOUS

\* The elements of the second list.
LEMMA ConcatSecond ==
  ASSUME NEW S, NEW s \in Seq(S), NEW t \in Seq(S), NEW i \in 1 .. Len(t)
  PROVE  (s \o t)[Len(s) + i] = t[i]
OBVIOUS

\* ds and js have two classes more, whose invokables are new.
NewPair(cs, is, name, def, ds, js) ==
  /\ Layout(ds) /\ Tables(ds, js) /\ Grown(cs, is, ds, js)
  /\ Len(ds) = Len(cs) + 2
  /\ ds[Len(ds)].class = Len(cs) + 1 /\ ds[Len(cs) + 1].class = Nil
  /\ ds[Len(ds)].name = name /\ ds[Len(cs) + 1].name = name
  /\ \A i \in DOMAIN def.table : \E j \in DOMAIN ds[Len(ds)].table :
       js[ds[Len(ds)].table[j]].sig = def.table[i].sig

\* That is what Assemble leaves.
LEMMA Assembled ==
  ASSUME Layout(classes), Tables(classes, invs), NEW name \in ClassName,
         NEW super \in ClassId, classes[super].class # Nil, NEW def,
         def.fields \in Seq(STRING), def.metaFields \in Seq(STRING),
         def.table \in Source, def.metaTable \in Source,
         NEW ds, NEW js, ds = Assemble(name, super, def).classes,
         js = Assemble(name, super, def).invs
  PROVE  NewPair(classes, invs, name, def, ds, js)
<1>1. PICK L, K, n, t : /\ L = Len(classes) /\ K = Len(invs)
                        /\ n = Len(def.metaTable) /\ t = Len(def.table)
  OBVIOUS
<1>2. L \in Nat /\ L >= 6 /\ K \in Nat /\ invs \in Seq(InvokableRecord)
      /\ Ranked(classes) /\ classes \in Seq(ClassRecord)
  BY <1>1 DEF Layout, Ranked, Tables, Block
<1>3. n \in Nat /\ t \in Nat /\ DOMAIN def.table = 1 .. t
  BY <1>1 DEF Source
<1>4. PICK ms : ms = classes[super].class
  OBVIOUS
<1>5. ms \in 1 .. L /\ super \in 1 .. L
  <2>1. super \in 1 .. Len(classes)
    BY DEF ClassId
  <2>2. classes[super].class \in 0 .. Len(classes)
    BY <2>1 DEF Layout
  <2> QED BY <1>1, <1>2, <1>4, <2>1, <2>2 DEF Nil
<1>6. PICK c3, sm : /\ c3 = Len(FieldNames(classes)[Class])
                    /\ sm = Len(FieldNames(classes)[ms])
  OBVIOUS
<1>7. c3 \in Nat /\ sm \in Nat
  <2>1. Class \in 1 .. L
    BY <1>2 DEF Class
  <2>2. FieldNames(classes)[Class] \in Seq(FieldName) /\ FieldNames(classes)[ms] \in Seq(FieldName)
    BY <1>1, <1>2, <1>5, <2>1, FieldNamesDefined
  <2> QED BY <1>6, <2>2
<1>8. /\ def.fields \in Seq(FieldName) /\ def.metaFields \in Seq(FieldName)
  BY StringsAreNames
<1>9. PICK mf : mf = Len(def.metaFields)
  OBVIOUS
<1>10. mf \in Nat
  BY <1>8, <1>9
<1>11. PICK a, b :
        /\ a = [name |-> name, super |-> ms, class |-> Nil, fields |-> def.metaFields,
                table |-> Indices(K, n), size |-> c3 + 4 + 1]
        /\ b = [name |-> name, super |-> super, class |-> L + 1, fields |-> def.fields,
                table |-> Indices(K + n, t), size |-> mf + sm + 4 + 1]
  OBVIOUS
<1>12. PICK x, y : /\ x = SetInstanceInvokables(def.metaTable, L + 1)
                   /\ y = SetInstanceInvokables(def.table, L + 1 + 1)
  OBVIOUS
<1>13. ds = classes \o <<a, b>> /\ js = invs \o x \o y
  BY <1>1, <1>4, <1>6, <1>9, <1>11, <1>12
     DEF Assemble, GetNumberOfInstanceFields, InstanceFields, VMClassNumberOfFields
<1>14. a \in ClassRecord /\ b \in ClassRecord
  <2>0. K + n \in Nat
    BY <1>2, <1>3
  <2>1. Indices(K, n) \in Seq(Nat) /\ Indices(K + n, t) \in Seq(Nat)
    BY <1>2, <1>3, <2>0, IndicesType
  <2>2. c3 + 4 + 1 \in Nat /\ mf + sm + 4 + 1 \in Nat /\ super \in Nat /\ ms \in Nat
        /\ L + 1 \in Nat /\ Nil \in Nat
    BY <1>2, <1>5, <1>7, <1>10 DEF Nil
  <2>3. a \in ClassRecord
    BY <1>8, <1>11, <2>1, <2>2 DEF ClassRecord
  <2>4. b \in ClassRecord
    BY <1>8, <1>11, <2>1, <2>2 DEF ClassRecord
  <2> QED BY <2>3, <2>4
<1>15. a.super \in 1 .. L /\ b.super \in 1 .. L
  BY <1>5, <1>11
<1>16. /\ Ranked(ds) /\ Len(ds) = L + 2
       /\ \A k \in 1 .. L : ds[k] = classes[k]
       /\ ds[L + 1] = a /\ ds[L + 2] = b
  BY <1>1, <1>2, <1>13, <1>14, <1>15, RankedGrows
<1>17. /\ x \in Seq(InvokableRecord) /\ Len(x) = n
       /\ \A i \in 1 .. n : x[i].holder = L + 1 /\ x[i].kind \in {"method", "primitive"}
  BY <1>1, <1>2, <1>12, ListHeld
<1>18. /\ y \in Seq(InvokableRecord) /\ Len(y) = t
       /\ \A i \in 1 .. t : /\ y[i].holder = L + 2 /\ y[i].kind \in {"method", "primitive"}
                            /\ y[i].sig = def.table[i].sig
  <2>1. L + 1 + 1 = L + 2 /\ L + 2 \in Nat
    BY <1>2
  <2> QED BY <1>1, <1>12, <2>1, ListHeld
<1>19. /\ js \in Seq(InvokableRecord) /\ Len(js) = K + n + t
       /\ \A i \in 1 .. K : js[i] = invs[i]
       /\ \A i \in 1 .. n : js[K + i] = x[i]
       /\ \A i \in 1 .. t : js[K + n + i] = y[i]
  <2>1. PICK s : s = invs \o x
    OBVIOUS
  <2>2. s \in Seq(InvokableRecord) /\ Len(s) = K + n
    <3>1. invs \in Seq(InvokableRecord) /\ x \in Seq(InvokableRecord)
      BY <1>2, <1>17
    <3>2. Len(invs) = K /\ Len(x) = n
      BY <1>1, <1>17
    <3>3. invs \o x \in Seq(InvokableRecord)
      BY <3>1, ConcatType
    <3>4. Len(invs \o x) = Len(invs) + Len(x)
      BY <3>1, ConcatType
    <3> QED BY <2>1, <3>2, <3>3, <3>4
  <2>3. ASSUME NEW i \in 1 .. K
        PROVE  s[i] = invs[i]
    BY <1>1, <1>2, <1>17, <2>1
  <2>4. ASSUME NEW i \in 1 .. n
        PROVE  s[K + i] = x[i]
    BY <1>1, <1>2, <1>17, <2>1
  <2>5. js \in Seq(InvokableRecord) /\ Len(js) = K + n + t
    <3>1. js = s \o y
      BY <1>13, <2>1
    <3>2. y \in Seq(InvokableRecord) /\ Len(y) = t
      BY <1>18
    <3>3. s \o y \in Seq(InvokableRecord)
      BY <2>2, <3>2, ConcatType
    <3>4. Len(s \o y) = Len(s) + Len(y)
      BY <2>2, <3>2, ConcatType
    <3> QED BY <2>2, <3>1, <3>2, <3>3, <3>4
  <2>6. ASSUME NEW i \in 1 .. K + n
        PROVE  js[i] = s[i]
    BY <1>13, <1>18, <2>1, <2>2
  <2>7. ASSUME NEW i \in 1 .. t
        PROVE  js[K + n + i] = y[i]
    <3>1. js = s \o y
      BY <1>13, <2>1
    <3>2. y \in Seq(InvokableRecord) /\ i \in 1 .. Len(y)
      BY <1>18
    <3>3. (s \o y)[Len(s) + i] = y[i]
      BY <2>2, <3>2, ConcatSecond
    <3> QED BY <2>2, <3>1, <3>3
  <2>8. ASSUME NEW i \in 1 .. K
        PROVE  js[i] = invs[i]
    BY <1>2, <1>3, <2>3, <2>6
  <2>9. ASSUME NEW i \in 1 .. n
        PROVE  js[K + i] = x[i]
    <3>1. K + i \in 1 .. K + n
      BY <1>2, <1>3
    <3> QED BY <2>4, <2>6, <3>1
  <2> QED BY <2>5, <2>7, <2>8, <2>9
<1>22. ASSUME NEW i \in K + 1 .. K + n + t
       PROVE  \/ \E j \in 1 .. n : i = K + j
              \/ \E j \in 1 .. t : i = K + n + j
  <2>1. CASE i <= K + n
    <3>1. i - K \in 1 .. n /\ i = K + (i - K)
      BY <1>2, <1>3, <2>1
    <3> QED BY <3>1
  <2>2. CASE ~ (i <= K + n)
    <3>1. i - (K + n) \in 1 .. t /\ i = K + n + (i - (K + n))
      BY <1>2, <1>3, <2>2
    <3> QED BY <3>1
  <2> QED BY <2>1, <2>2
<1>23. ASSUME NEW i \in K + 1 .. Len(js)
       PROVE  js[i].kind \in {"method", "primitive"} /\ js[i].holder \in {L + 1, L + 2}
  BY <1>17, <1>18, <1>19, <1>22
<1>24. Grown(classes, invs, ds, js)
  <2>1. L <= L + 2 /\ K <= K + n + t
    BY <1>2, <1>3
  <2> QED BY <1>1, <1>16, <1>19, <2>1 DEF Grown
<1>25. Layout(ds)
  <2>1. \A k \in 1 .. L : FieldNames(ds)[k] = FieldNames(classes)[k]
    <3>1. Len(classes) <= Len(ds)
      BY <1>1, <1>2, <1>16
    <3>2. \A k \in 1 .. Len(classes) :
            ds[k].super = classes[k].super /\ ds[k].fields = classes[k].fields
      BY <1>1, <1>16
    <3> QED BY <1>1, <1>2, <1>16, <3>1, <3>2, FieldNamesStable
  <2>2. ASSUME NEW c \in 1 .. L
        PROVE  /\ ds[c].class \in 0 .. Len(ds)
               /\ ds[c].class # Nil => Len(FieldNames(ds)[ds[c].class]) <= ds[c].size
    <3>1. /\ classes[c].class \in 0 .. L
          /\ classes[c].class # Nil => Len(FieldNames(classes)[classes[c].class]) <= classes[c].size
      BY <1>1 DEF Layout
    <3>2. ds[c] = classes[c]
      BY <1>16
    <3>3. classes[c].class # Nil => classes[c].class \in 1 .. L
      BY <1>2, <3>1 DEF Nil
    <3> QED BY <1>2, <1>16, <2>1, <3>1, <3>2, <3>3
  <2>3. Len(FieldNames(ds)[L + 1]) = sm + mf
    <3>1. L + 1 \in 1 .. Len(ds) /\ HasSuperClass(ds, L + 1) /\ ds[L + 1].super = ms
          /\ ds[L + 1].fields = def.metaFields
      BY <1>2, <1>5, <1>11, <1>16 DEF HasSuperClass, Nil
    <3>2. FieldNames(ds)[L + 1] = FieldNames(ds)[ms] \o def.metaFields
      BY <1>16, <3>1, FieldNamesDefined
    <3>3. FieldNames(ds)[ms] = FieldNames(classes)[ms]
      BY <1>5, <2>1
    <3>4. FieldNames(classes)[ms] \in Seq(FieldName)
      BY <1>1, <1>2, <1>5, FieldNamesDefined
    <3> QED BY <1>6, <1>8, <1>9, <3>2, <3>3, <3>4
  <2>4. ds[L + 1].class = Nil
    BY <1>11, <1>16
  <2>5. ds[L + 2].class = L + 1 /\ ds[L + 2].size = mf + sm + 4 + 1
    BY <1>11, <1>16
  <2>6. ASSUME NEW c \in 1 .. Len(ds)
        PROVE  /\ ds[c].class \in 0 .. Len(ds)
               /\ ds[c].class # Nil => Len(FieldNames(ds)[ds[c].class]) <= ds[c].size
    <3>1. c \in 1 .. L \/ c = L + 1 \/ c = L + 2
      BY <1>2, <1>16
    <3>2. CASE c = L + 1
      BY <1>2, <1>16, <2>4, <3>2 DEF Nil
    <3>3. CASE c = L + 2
      <4>1. ds[c].class = L + 1 /\ ds[c].size = mf + sm + 4 + 1
        BY <2>5, <3>3
      <4>2. L + 1 \in 0 .. Len(ds)
        BY <1>2, <1>16
      <4>3. Len(FieldNames(ds)[ds[c].class]) = sm + mf
        BY <2>3, <4>1
      <4>4. sm + mf <= mf + sm + 4 + 1
        BY <1>7, <1>10
      <4> QED BY <4>1, <4>2, <4>3, <4>4
    <3> QED BY <2>2, <3>1, <3>2, <3>3
  <2>7. ds[Block].class # Nil
    <3>1. Block \in 1 .. L
      BY <1>2 DEF Block
    <3> QED BY <1>16, <3>1 DEF Layout
  <2> QED BY <1>16, <2>6, <2>7 DEF Layout
<1>26. /\ DOMAIN ds[L + 1].table = 1 .. n /\ \A i \in 1 .. n : ds[L + 1].table[i] = K + i
       /\ DOMAIN ds[L + 2].table = 1 .. t /\ \A i \in 1 .. t : ds[L + 2].table[i] = K + n + i
  <2>1. K + n \in Nat /\ ds[L + 1].table = Indices(K, n) /\ ds[L + 2].table = Indices(K + n, t)
    BY <1>2, <1>3, <1>11, <1>16
  <2>2. DOMAIN Indices(K, n) = 1 .. n /\ \A i \in 1 .. n : Indices(K, n)[i] = K + i
    BY <1>2, <1>3, IndicesType
  <2>3. /\ DOMAIN Indices(K + n, t) = 1 .. t
        /\ \A i \in 1 .. t : Indices(K + n, t)[i] = K + n + i
    BY <1>3, <2>1, IndicesType
  <2> QED BY <2>1, <2>2, <2>3
<1>27. Tables(ds, js)
  <2>1. ASSUME NEW i \in 1 .. Len(js)
        PROVE  js[i].holder \in 1 .. Len(ds)
    <3>1. CASE i \in 1 .. K
      <4>1. invs[i].holder \in 1 .. L
        BY <1>1, <3>1 DEF Tables
      <4>2. js[i] = invs[i]
        BY <1>19, <3>1
      <4>3. Len(ds) = L + 2
        BY <1>16
      <4> QED BY <1>2, <4>1, <4>2, <4>3
    <3>2. CASE i \notin 1 .. K
      <4>1. i \in K + 1 .. Len(js)
        BY <1>2, <1>3, <1>19, <3>2
      <4>2. js[i].holder \in {L + 1, L + 2}
        BY <1>23, <4>1
      <4> QED BY <1>2, <1>16, <4>2
    <3> QED BY <3>1, <3>2
  <2>2. Len(js) = K + n + t
    BY <1>19
  <2>3. K \in Nat /\ n \in Nat /\ t \in Nat
    BY <1>2, <1>3
  <2>4. ASSUME NEW c \in 1 .. Len(ds), NEW i \in DOMAIN ds[c].table
        PROVE  ds[c].table[i] \in 1 .. Len(js) /\ js[ds[c].table[i]].holder = c
    <3>1. c \in 1 .. L \/ c = L + 1 \/ c = L + 2
      BY <1>2, <1>16
    <3>2. CASE c \in 1 .. L
      <4>1. ds[c] = classes[c]
        BY <1>16, <3>2
      <4>2. classes[c].table[i] \in 1 .. K /\ invs[classes[c].table[i]].holder = c
        BY <1>1, <2>4, <3>2, <4>1 DEF Tables
      <4>3. PICK e : e = classes[c].table[i]
        OBVIOUS
      <4>4. e \in 1 .. K /\ e \in 1 .. Len(js)
        BY <1>2, <1>3, <1>19, <4>2, <4>3
      <4> QED BY <1>19, <4>1, <4>2, <4>3, <4>4
    <3>3. CASE c = L + 1
      <4>1. i \in 1 .. n /\ ds[c].table[i] = K + i
        BY <1>26, <2>4, <3>3
      <4>2. i \in 1 .. n
        BY <4>1
      <4>3. K + i \in 1 .. Len(js)
        BY <2>2, <2>3, <4>2
      <4> QED BY <1>17, <1>19, <3>3, <4>1, <4>3
    <3>4. CASE c = L + 2
      <4>1. i \in 1 .. t /\ ds[c].table[i] = K + n + i
        BY <1>26, <2>4, <3>4
      <4>2. i \in 1 .. t
        BY <4>1
      <4>3. K + n + i \in 1 .. Len(js)
        BY <2>2, <2>3, <4>2
      <4> QED BY <1>18, <1>19, <3>4, <4>1, <4>3
    <3> QED BY <3>1, <3>2, <3>3, <3>4
  <2> QED BY <1>19, <2>1, <2>4 DEF Tables
<1>28. ASSUME NEW i \in DOMAIN def.table
       PROVE  \E j \in DOMAIN ds[Len(ds)].table :
                js[ds[Len(ds)].table[j]].sig = def.table[i].sig
  <2>1. i \in 1 .. t
    BY <1>3
  <2>2. ds[L + 2].table[i] = K + n + i /\ i \in DOMAIN ds[L + 2].table
    BY <1>26, <2>1
  <2>3. js[K + n + i] = y[i] /\ y[i].sig = def.table[i].sig
    BY <1>18, <1>19, <2>1
  <2>4. js[ds[L + 2].table[i]].sig = def.table[i].sig /\ i \in DOMAIN ds[L + 2].table
    BY <2>2, <2>3
  <2> QED BY <1>16, <2>4
<1>29. /\ ds[Len(ds)].class = L + 1 /\ ds[L + 1].class = Nil
       /\ ds[Len(ds)].name = name /\ ds[L + 1].name = name
  BY <1>11, <1>16
<1> QED BY <1>1, <1>16, <1>24, <1>25, <1>27, <1>28, <1>29 DEF NewPair

\* js is is, but that the primitives of the table have their routines from lib.
RoutinesSet(is, table, cname, lib, js) ==
  /\ js \in Seq(InvokableRecord) /\ Len(js) = Len(is)
  /\ \A i \in 1 .. Len(is) :
       /\ js[i].sig = is[i].sig /\ js[i].kind = is[i].kind
       /\ js[i].holder = is[i].holder /\ js[i].argc = is[i].argc
       /\ \/ js[i].routine = is[i].routine /\ js[i].lib = is[i].lib
          \/ js[i].routine = Routine(cname, is[i].sig) /\ js[i].lib = lib
       /\ ~(\E j \in DOMAIN table : table[j] = i) => js[i] = is[i]
       /\ (\E j \in DOMAIN table : table[j] = i) /\ is[i].kind # "method"
            => js[i].routine = Routine(cname, is[i].sig) /\ js[i].lib = lib

\* That is what setPrimitives does.
LEMMA SetPrimitivesGives ==
  ASSUME NEW is \in Seq(InvokableRecord), NEW table, NEW cname \in ClassName,
         NEW lib \in LibraryRecord, NEW js, js = setPrimitives(is, table, cname, lib)
  PROVE  RoutinesSet(is, table, cname, lib, js)
<1>1. DOMAIN is = 1 .. Len(is) /\ Len(is) \in Nat
  OBVIOUS
<1> DEFINE hit(i) == \E j \in DOMAIN table : table[j] = i /\ IsPrimitive(is[i])
           new(i) == [is[i] EXCEPT !.routine = Routine(cname, is[i].sig), !.lib = lib]
<1>2. js = [i \in 1 .. Len(is) |-> IF hit(i) THEN new(i) ELSE is[i]]
  BY <1>1 DEF setPrimitives
<1>3. ASSUME NEW i \in 1 .. Len(is)
      PROVE  /\ is[i] \in InvokableRecord /\ new(i) \in InvokableRecord
             /\ new(i).sig = is[i].sig /\ new(i).kind = is[i].kind
             /\ new(i).holder = is[i].holder /\ new(i).argc = is[i].argc
             /\ new(i).routine = Routine(cname, is[i].sig) /\ new(i).lib = lib
  <2>1. is[i] \in InvokableRecord
    OBVIOUS
  <2>2. is[i].sig \in Selector
    BY <2>1 DEF InvokableRecord
  <2>3. Routine(cname, is[i].sig) \in RoutineName
    BY <2>2 DEF RoutineName
  <2>4. new(i) \in InvokableRecord
    BY <2>1, <2>3 DEF InvokableRecord
  <2>5. new(i).sig = is[i].sig /\ new(i).kind = is[i].kind
        /\ new(i).holder = is[i].holder /\ new(i).argc = is[i].argc
        /\ new(i).routine = Routine(cname, is[i].sig) /\ new(i).lib = lib
    BY <2>1 DEF InvokableRecord
  <2> QED BY <2>1, <2>4, <2>5
<1>4. ASSUME NEW i \in 1 .. Len(is)
      PROVE  js[i] = IF hit(i) THEN new(i) ELSE is[i]
  <2> HIDE DEF hit, new
  <2> QED BY <1>2
<1>5. ASSUME NEW i \in 1 .. Len(is)
      PROVE  hit(i) <=> (\E j \in DOMAIN table : table[j] = i) /\ is[i].kind # "method"
  BY DEF IsPrimitive
<1> HIDE DEF hit, new
<1>6. js \in [1 .. Len(is) -> InvokableRecord]
  BY <1>2, <1>3
<1>7. js \in Seq(InvokableRecord) /\ Len(js) = Len(is)
  BY <1>1, <1>6
<1>8. ASSUME NEW i \in 1 .. Len(is)
      PROVE  /\ js[i].sig = is[i].sig /\ js[i].kind = is[i].kind
             /\ js[i].holder = is[i].holder /\ js[i].argc = is[i].argc
             /\ \/ js[i].routine = is[i].routine /\ js[i].lib = is[i].lib
                \/ js[i].routine = Routine(cname, is[i].sig) /\ js[i].lib = lib
             /\ ~(\E j \in DOMAIN table : table[j] = i) => js[i] = is[i]
             /\ (\E j \in DOMAIN table : table[j] = i) /\ is[i].kind # "method"
                  => js[i].routine = Routine(cname, is[i].sig) /\ js[i].lib = lib
  <2>1. CASE hit(i)
    <3>1. js[i] = new(i)
      BY <1>4, <2>1
    <3> QED BY <1>3, <1>5, <2>1, <3>1
  <2>2. CASE ~hit(i)
    <3>1. js[i] = is[i]
      BY <1>4, <2>2
    <3> QED BY <1>5, <2>2, <3>1
  <2> QED BY <2>1, <2>2
<1> QED BY <1>7, <1>8 DEF RoutinesSet

\* No primitive of the class c or its metaclass is without its routine of the
\* library lib in ks, and no invokable of another class is touched.
Loads(ds, js, c, lib, ks) ==
  /\ Tables(ds, ks) /\ Len(ks) = Len(js)
  /\ \A i \in 1 .. Len(js) : /\ js[i].holder \notin {c, ds[c].class} => ks[i] = js[i]
                             /\ ks[i].kind = js[i].kind /\ ks[i].sig = js[i].sig
  /\ \A d \in {c, ds[c].class} : \A j \in DOMAIN ds[d].table :
       ks[ds[d].table[j]].kind # "method" =>
         /\ ks[ds[d].table[j]].routine = Routine(ds[c].name, ks[ds[d].table[j]].sig)
         /\ ks[ds[d].table[j]].lib = lib

\* That is what LoadPrimitives does.
LEMMA Loaded ==
  ASSUME NEW ds, NEW js, Layout(ds), Tables(ds, js), NEW c \in 1 .. Len(ds),
         ds[c].class # Nil, NEW lib \in LibraryRecord,
         NEW ks, ks = LoadPrimitives(ds, js, c, lib)
  PROVE  Loads(ds, js, c, lib, ks)
<1>1. PICK m, t, u, n : /\ m = ds[c].class /\ t = ds[c].table /\ u = ds[m].table
                        /\ n = ds[c].name
  OBVIOUS
<1>2. m \in 1 .. Len(ds) /\ n \in ClassName
  <2>1. ds[c].class \in 0 .. Len(ds) /\ Ranked(ds)
    BY DEF Layout
  <2>2. Len(ds) \in Nat
    BY <2>1 DEF Ranked
  <2>3. n \in ClassName
    BY <1>1, <2>1, ClassType
  <2> QED BY <1>1, <2>1, <2>2, <2>3 DEF Nil
<1>3. PICK hs : hs = setPrimitives(js, t, n, lib)
  OBVIOUS
<1>4. ks = setPrimitives(hs, u, n, lib)
  BY <1>1, <1>3 DEF LoadPrimitives
<1>5. js \in Seq(InvokableRecord)
  BY DEF Tables
<1>6. /\ hs \in Seq(InvokableRecord) /\ Len(hs) = Len(js)
      /\ \A i \in 1 .. Len(js) :
              /\ hs[i].sig = js[i].sig /\ hs[i].kind = js[i].kind
              /\ hs[i].holder = js[i].holder /\ hs[i].argc = js[i].argc
              /\ \/ hs[i].routine = js[i].routine /\ hs[i].lib = js[i].lib
                 \/ hs[i].routine = Routine(n, js[i].sig) /\ hs[i].lib = lib
              /\ ~(\E j \in DOMAIN t : t[j] = i) => hs[i] = js[i]
              /\ (\E j \in DOMAIN t : t[j] = i) /\ js[i].kind # "method"
                   => hs[i].routine = Routine(n, js[i].sig) /\ hs[i].lib = lib
  <2>1. RoutinesSet(js, t, n, lib, hs)
    BY <1>2, <1>3, <1>5, SetPrimitivesGives
  <2> QED BY <2>1 DEF RoutinesSet
<1>7. /\ ks \in Seq(InvokableRecord) /\ Len(ks) = Len(hs)
      /\ \A i \in 1 .. Len(hs) :
              /\ ks[i].sig = hs[i].sig /\ ks[i].kind = hs[i].kind
              /\ ks[i].holder = hs[i].holder /\ ks[i].argc = hs[i].argc
              /\ \/ ks[i].routine = hs[i].routine /\ ks[i].lib = hs[i].lib
                 \/ ks[i].routine = Routine(n, hs[i].sig) /\ ks[i].lib = lib
              /\ ~(\E j \in DOMAIN u : u[j] = i) => ks[i] = hs[i]
              /\ (\E j \in DOMAIN u : u[j] = i) /\ hs[i].kind # "method"
                   => ks[i].routine = Routine(n, hs[i].sig) /\ ks[i].lib = lib
  <2>1. RoutinesSet(hs, u, n, lib, ks)
    BY <1>2, <1>4, <1>6, SetPrimitivesGives
  <2> QED BY <2>1 DEF RoutinesSet
<1>8. ASSUME NEW i \in 1 .. Len(js)
      PROVE  /\ ks[i].kind = js[i].kind /\ ks[i].sig = js[i].sig
             /\ ks[i].argc = js[i].argc /\ ks[i].holder = js[i].holder
  BY <1>6, <1>7
<1>9. ASSUME NEW i \in 1 .. Len(js), js[i].holder \notin {c, m}
      PROVE  ks[i] = js[i]
  <2>1. ASSUME NEW j \in DOMAIN t
        PROVE  t[j] # i
    BY <1>1, <1>9 DEF Tables
  <2>2. ASSUME NEW j \in DOMAIN u
        PROVE  u[j] # i
    BY <1>1, <1>2, <1>9 DEF Tables
  <2> QED BY <1>6, <1>7, <2>1, <2>2
<1>10. ASSUME NEW d \in {c, m}, NEW j \in DOMAIN ds[d].table
       PROVE  LET v == ks[ds[d].table[j]]
              IN v.kind # "method" => v.routine = Routine(n, v.sig) /\ v.lib = lib
  <2>1. PICK e : e = ds[d].table[j]
    OBVIOUS
  <2>2. e \in 1 .. Len(js)
    BY <1>2, <2>1 DEF Tables
  <2>3. (\E l \in DOMAIN t : t[l] = e) \/ (\E l \in DOMAIN u : u[l] = e)
    BY <1>1, <2>1
  <2>4. /\ hs[e].sig = js[e].sig /\ hs[e].kind = js[e].kind
        /\ (\E l \in DOMAIN t : t[l] = e) /\ js[e].kind # "method"
             => hs[e].routine = Routine(n, js[e].sig) /\ hs[e].lib = lib
    BY <1>6, <2>2
  <2>5. /\ ks[e].sig = hs[e].sig /\ ks[e].kind = hs[e].kind
        /\ \/ ks[e].routine = hs[e].routine /\ ks[e].lib = hs[e].lib
           \/ ks[e].routine = Routine(n, hs[e].sig) /\ ks[e].lib = lib
        /\ (\E l \in DOMAIN u : u[l] = e) /\ hs[e].kind # "method"
             => ks[e].routine = Routine(n, hs[e].sig) /\ ks[e].lib = lib
    BY <1>6, <1>7, <2>2
  <2> QED BY <2>1, <2>3, <2>4, <2>5
<1>11. Tables(ds, ks)
  <2>1. Len(ks) = Len(js)
    BY <1>6, <1>7
  <2>2. ASSUME NEW i \in 1 .. Len(ks)
        PROVE  ks[i].holder \in 1 .. Len(ds)
    BY <1>8, <2>1 DEF Tables
  <2>3. ASSUME NEW d \in 1 .. Len(ds), NEW i \in DOMAIN ds[d].table
        PROVE  ds[d].table[i] \in 1 .. Len(ks) /\ ks[ds[d].table[i]].holder = d
    <3>1. ds[d].table[i] \in 1 .. Len(js) /\ js[ds[d].table[i]].holder = d
      BY DEF Tables
    <3> QED BY <1>8, <2>1, <3>1
  <2> QED BY <1>7, <2>2, <2>3 DEF Tables
<1> QED BY <1>1, <1>6, <1>7, <1>8, <1>9, <1>10, <1>11 DEF Loads

\* A primitive of a class of this name has its routine, from a library of D that
\* supports the class.
BoundFrom(v, name, D) ==
  /\ v.routine = Routine(name, v.sig)
  /\ v.lib \in D /\ v.lib.format /\ name \in v.lib.supports
  /\ v.routine \in v.lib.routines

\* PrimitivesBound for class c.
BoundAt(cs, is, D, c) ==
  cs[c].name # "BlockN" =>
    \A i \in DOMAIN cs[c].table :
      is[cs[c].table[i]].kind = "primitive" => BoundFrom(is[cs[c].table[i]], cs[c].name, D)

Bound(cs, is, D) == \A c \in 1 .. Len(cs) : BoundAt(cs, is, D, c)

\* In the table of a block's class the evaluation primitive comes before
\* any other invokable of its signature.
EvaluatedBy(cs, is, c, n) ==
  \E i \in DOMAIN cs[c].table :
    /\ is[cs[c].table[i]].sig = computeSignatureString(n)
    /\ is[cs[c].table[i]].kind = "evaluation" /\ is[cs[c].table[i]].argc = n
    /\ \A j \in DOMAIN cs[c].table :
         is[cs[c].table[j]].sig = computeSignatureString(n) => i <= j

Evaluated(cs, is, bs) ==
  /\ bs \in [BlockArgs -> Nat]
  /\ \A n \in BlockArgs : bs[n] # Nil =>
       bs[n] \in 1 .. Len(cs) /\ EvaluatedBy(cs, is, bs[n], n)

\* Instances have room for their fields.
Placed(cs, os) ==
  /\ os \in Seq([class : Nat, size : Nat])
  /\ \A o \in 1 .. Len(os) :
       os[o].class \in 1 .. Len(cs) /\ os[o].size = Len(FieldNames(cs)[os[o].class])

\* The running method is an invokable.
Running(is, a) ==
  /\ a \in [self : Nat, inv : Nat]
  /\ a # NoAct => a.inv \in 1 .. Len(is)

IInv ==
  /\ disk \in Disks
  /\ Layout(classes)
  /\ Tables(classes, invs)
  /\ Bound(classes, invs, disk)
  /\ Evaluated(classes, invs, blocks)
  /\ Placed(classes, objects)
  /\ Running(invs, act)

\* What holds of old classes still does when others are added.
LEMMA GrownKeeps ==
  ASSUME NEW cs, NEW is, NEW ds, NEW js, Layout(cs), Layout(ds), Tables(cs, is),
         Tables(ds, js), Grown(cs, is, ds, js)
  PROVE  /\ \A D : Bound(cs, is, D) => \A c \in 1 .. Len(cs) : BoundAt(ds, js, D, c)
         /\ \A c \in 1 .. Len(cs) : \A n :
              EvaluatedBy(cs, is, c, n) => EvaluatedBy(ds, js, c, n)
         /\ \A os : Placed(cs, os) => Placed(ds, os)
         /\ \A a : Running(is, a) => Running(js, a)
<1>1. Ranked(cs) /\ Ranked(ds) /\ Len(cs) \in Nat /\ Len(ds) \in Nat
      /\ Len(is) \in Nat /\ Len(js) \in Nat
  BY DEF Layout, Ranked, Tables
<1>2. ASSUME NEW c \in 1 .. Len(cs)
      PROVE  /\ ds[c] = cs[c]
             /\ \A i \in DOMAIN cs[c].table : js[cs[c].table[i]] = is[cs[c].table[i]]
  BY DEF Grown, Tables
<1>4. ASSUME NEW D, Bound(cs, is, D), NEW c \in 1 .. Len(cs)
      PROVE  BoundAt(ds, js, D, c)
  <2>1. BoundAt(cs, is, D, c)
    BY <1>4 DEF Bound
  <2> QED BY <1>2, <2>1 DEF BoundAt
<1>5. ASSUME NEW c \in 1 .. Len(cs), NEW n, EvaluatedBy(cs, is, c, n)
      PROVE  EvaluatedBy(ds, js, c, n)
  BY <1>2, <1>5 DEF EvaluatedBy
<1>6. ASSUME NEW os, Placed(cs, os)
      PROVE  Placed(ds, os)
  <2>1. \A k \in 1 .. Len(cs) : FieldNames(ds)[k] = FieldNames(cs)[k]
    <3>1. \A k \in 1 .. Len(cs) : ds[k].super = cs[k].super /\ ds[k].fields = cs[k].fields
      BY <1>2
    <3>2. Len(cs) <= Len(ds)
      BY DEF Grown
    <3> QED BY <1>1, <3>1, <3>2, FieldNamesStable
  <2>2. ASSUME NEW o \in 1 .. Len(os)
        PROVE  os[o].class \in 1 .. Len(ds) /\ os[o].size = Len(FieldNames(ds)[os[o].class])
    <3>1. os[o].class \in 1 .. Len(cs) /\ os[o].size = Len(FieldNames(cs)[os[o].class])
      BY <1>6 DEF Placed
    <3>2. Len(cs) <= Len(ds)
      BY DEF Grown
    <3> QED BY <1>1, <2>1, <3>1, <3>2
  <2> QED BY <1>6, <2>2 DEF Placed
<1>7. ASSUME NEW a, Running(is, a)
      PROVE  Running(js, a)
  BY <1>1, <1>7 DEF Running, Grown
<1> QED BY <1>4, <1>5, <1>6, <1>7

\* A library that LoadPrimitives accepts is on the class path, has the
\* right format and says it supports the class.
LEMMA LibraryIsResponsible ==
  ASSUME NEW cname, NEW lib, lib = SearchLibrary(cname), lib \notin {NoLibrary, LibraryError}
  PROVE  lib \in disk /\ lib.format /\ cname \in lib.supports
<1>1. PICK p : lib = LibraryAt(p, cname)
  BY DEF SearchLibrary
<1>2. ASSUME NEW file, loadLib(p, file) # NoLibrary
      PROVE  loadLib(p, file) \in disk
  BY <1>2 DEF loadLib
<1>3. PICK core, own : core = loadLib(p, "SOMCore") /\ own = loadLib(p, cname)
  OBVIOUS
<1>4. \/ lib = core /\ core # NoLibrary /\ core.format /\ cname \in core.supports
      \/ lib = own /\ own # NoLibrary /\ own.format /\ cname \in own.supports
  BY <1>1, <1>3 DEF LibraryAt
<1> QED BY <1>2, <1>3, <1>4

-----------------------------------------------------------------------------
(***************************************************************************)
(* The actions keep the invariant.                                         *)
(***************************************************************************)

\* Steps that leave the objects alone.
LEMMA StopKeeps ==
  ASSUME IInv, UNCHANGED <<disk, classes, invs, blocks, objects, act>>
  PROVE  IInv'
BY DEF IInv

\* The invariant after two classes more and, perhaps, a new block class.
LEMMA GrownInv ==
  ASSUME IInv, NEW ds, NEW js, classes' = ds, invs' = js, UNCHANGED <<disk, objects, act>>,
         Layout(ds), Tables(ds, js), Grown(classes, invs, ds, js),
         \A c \in Len(classes) + 1 .. Len(ds) : BoundAt(ds, js, disk, c),
         blocks' \in [BlockArgs -> Nat],
         \A n \in BlockArgs : blocks'[n] # blocks[n] =>
           blocks'[n] \in 1 .. Len(ds) /\ EvaluatedBy(ds, js, blocks'[n], n)
  PROVE  IInv'
<1>1. Layout(classes) /\ Tables(classes, invs) /\ Bound(classes, invs, disk)
      /\ Evaluated(classes, invs, blocks) /\ Placed(classes, objects) /\ Running(invs, act)
  BY DEF IInv
<1>2. Placed(ds, objects) /\ Running(js, act)
  BY <1>1, GrownKeeps
<1>3. Len(classes) \in Nat /\ Len(ds) \in Nat /\ Len(classes) <= Len(ds)
  BY <1>1 DEF Layout, Ranked, Grown
<1>4. Bound(ds, js, disk)
  <2>1. ASSUME NEW c \in 1 .. Len(ds)
        PROVE  BoundAt(ds, js, disk, c)
    <3>1. CASE c \in 1 .. Len(classes)
      BY <1>1, <3>1, GrownKeeps
    <3>2. CASE c \notin 1 .. Len(classes)
      <4>1. c \in Len(classes) + 1 .. Len(ds)
        BY <1>3, <3>2
      <4> QED BY <4>1
    <3> QED BY <3>1, <3>2
  <2> QED BY <2>1 DEF Bound
<1>5. Evaluated(ds, js, blocks')
  <2>1. ASSUME NEW n \in BlockArgs, blocks'[n] # Nil
        PROVE  blocks'[n] \in 1 .. Len(ds) /\ EvaluatedBy(ds, js, blocks'[n], n)
    <3>1. CASE blocks'[n] = blocks[n]
      <4>1. blocks[n] \in 1 .. Len(classes) /\ EvaluatedBy(classes, invs, blocks[n], n)
        BY <1>1, <2>1, <3>1 DEF Evaluated
      <4>2. EvaluatedBy(ds, js, blocks[n], n)
        BY <1>1, <4>1, GrownKeeps
      <4> QED BY <1>3, <3>1, <4>1, <4>2
    <3> QED BY <3>1
  <2> QED BY <2>1 DEF Evaluated
<1>6. disk' \in Disks
  BY DEF IInv
<1> QED BY <1>1, <1>2, <1>4, <1>5, <1>6 DEF IInv

\* UserCount is a number.
LEMMA UserCountType ==
  ASSUME Layout(classes)
  PROVE  UserCount \in Nat
<1>1. Len(classes) \in Nat
  BY DEF Layout, Ranked
<1>2. IsFiniteSet(ClassId)
  BY <1>1, FS_Interval DEF ClassId
<1>3. IsFiniteSet({c \in ClassId :
        classes[c].class # Nil /\ Contains(UserClass, classes[c].name)})
  BY <1>2, FS_Subset
<1> QED BY <1>3, FS_CardinalityType DEF UserCount

LEMMA LoadClassKeeps ==
  ASSUME IInv, NEW super \in ClassId, NEW def \in Definitions, LoadClass(super, def)
  PROVE  IInv'
<1>1. Layout(classes) /\ Tables(classes, invs) /\ Bound(classes, invs, disk)
      /\ Evaluated(classes, invs, blocks)
  BY DEF IInv
<1>2. PICK name : name = UserClass[UserCount + 1]
  OBVIOUS
<1>3. name \in ClassName
  <2>1. UserCount \in Nat /\ UserCount < Len(UserClass)
    BY <1>1, UserCountType DEF LoadClass
  <2>2. PICK T : T = STRING
    OBVIOUS
  <2>3. UserClass \in Seq(T)
    BY <2>2, UserClassAssumption
  <2>4. UserClass[UserCount + 1] \in T
    BY <2>1, <2>3
  <2> QED BY <1>2, <2>2, <2>4 DEF ClassName
<1>4. PICK ds, js : ds = Assemble(name, super, def).classes /\ js = Assemble(name, super, def).invs
  OBVIOUS
<1>5. PICK L : L = Len(classes)
  OBVIOUS
<1>6. /\ def.fields \in Seq(STRING) /\ def.metaFields \in Seq(STRING)
      /\ def.table \in Source /\ def.metaTable \in Source
  BY ClassesAssumption
<1>7. /\ Layout(ds) /\ Tables(ds, js) /\ Grown(classes, invs, ds, js)
      /\ Len(ds) = L + 2
      /\ ds[Len(ds)].class = L + 1 /\ ds[L + 1].class = Nil
      /\ ds[Len(ds)].name = name /\ ds[L + 1].name = name
  <2>1. NewPair(classes, invs, name, def, ds, js)
    BY <1>1, <1>3, <1>4, <1>6, Assembled DEF LoadClass
  <2> QED BY <1>5, <2>1 DEF NewPair
<1>8. L \in Nat /\ L + 1 \in 1 .. Len(ds) /\ L + 2 \in 1 .. Len(ds)
  BY <1>1, <1>5, <1>7 DEF Layout, Ranked
<1>9. PICK c : c = Len(ds)
  OBVIOUS
<1>10. c = L + 2 /\ ds[c].class = L + 1
  BY <1>7, <1>9
<1>11. PICK lib : lib = SearchLibrary(name)
  OBVIOUS
<1>12. \/ /\ ~HasPrimitives(ds, js, c) /\ ~HasPrimitives(ds, js, ds[c].class)
          /\ classes' = ds /\ invs' = js /\ UNCHANGED <<disk, blocks, objects, act, status>>
       \/ /\ lib \notin {NoLibrary, LibraryError}
          /\ HasRoutines(lib, ds, js, c)
          /\ classes' = ds /\ invs' = LoadPrimitives(ds, js, c, lib)
          /\ UNCHANGED <<disk, blocks, objects, act, status>>
       \/ Stop("quit")
  BY <1>2, <1>4, <1>9, <1>11 DEF LoadClass
<1>13. blocks \in [BlockArgs -> Nat]
  BY <1>1 DEF Evaluated
<1>14. CASE /\ ~HasPrimitives(ds, js, c) /\ ~HasPrimitives(ds, js, ds[c].class)
            /\ classes' = ds /\ invs' = js /\ UNCHANGED <<disk, blocks, objects, act, status>>
  <2>1. ASSUME NEW d \in L + 1 .. Len(ds)
        PROVE  BoundAt(ds, js, disk, d)
    <3>1. d = L + 1 \/ d = c
      BY <1>8, <1>7, <1>10
    <3>2. ~HasPrimitives(ds, js, d)
      BY <1>10, <1>14, <3>1
    <3>3. \A i \in DOMAIN ds[d].table : js[ds[d].table[i]].kind = "method"
      BY <3>2 DEF HasPrimitives, IsPrimitive
    <3> QED BY <3>3 DEF BoundAt
  <2>2. \A d \in Len(classes) + 1 .. Len(ds) : BoundAt(ds, js, disk, d)
    BY <1>5, <2>1
  <2>3. Layout(ds) /\ Tables(ds, js) /\ Grown(classes, invs, ds, js)
    BY <1>7
  <2>4. /\ blocks' \in [BlockArgs -> Nat]
        /\ \A n \in BlockArgs : blocks'[n] # blocks[n] =>
             blocks'[n] \in 1 .. Len(ds) /\ EvaluatedBy(ds, js, blocks'[n], n)
    BY <1>13, <1>14
  <2>5. classes' = ds /\ invs' = js /\ UNCHANGED <<disk, objects, act>>
    BY <1>14
  <2> QED BY <2>2, <2>3, <2>4, <2>5, GrownInv
<1>15. CASE /\ lib \notin {NoLibrary, LibraryError}
            /\ HasRoutines(lib, ds, js, c)
            /\ classes' = ds /\ invs' = LoadPrimitives(ds, js, c, lib)
            /\ UNCHANGED <<disk, blocks, objects, act, status>>
  <2>0. /\ lib \in disk /\ lib.format /\ name \in lib.supports
        /\ lib \in LibraryRecord
    <3>1. lib \in disk /\ lib.format /\ name \in lib.supports
      BY <1>11, <1>15, LibraryIsResponsible
    <3> QED BY <3>1 DEF IInv, LibraryRecord
  <2>1. PICK ks : ks = LoadPrimitives(ds, js, c, lib)
    OBVIOUS
  <2>2. ds[c].class # Nil /\ c \in 1 .. Len(ds)
    BY <1>8, <1>10 DEF Nil
  <2>3. Loads(ds, js, c, lib, ks)
    BY <1>7, <2>0, <2>1, <2>2, Loaded
  <2>4. Grown(classes, invs, ds, ks)
    <3>1. ASSUME NEW i \in 1 .. Len(invs)
          PROVE  ks[i] = invs[i]
      <4>1. invs[i].holder \in 1 .. L
        BY <1>1, <1>5 DEF Tables
      <4>2. js[i] = invs[i] /\ Len(invs) <= Len(js)
        BY <1>7 DEF Grown
      <4>3. Len(invs) \in Nat /\ Len(js) \in Nat
        BY <1>1, <1>7 DEF Tables
      <4>4. i \in 1 .. Len(js)
        BY <4>2, <4>3
      <4>5. js[i].holder \notin {c, ds[c].class}
        BY <1>8, <1>10, <4>1, <4>2
      <4> QED BY <2>3, <4>2, <4>4, <4>5 DEF Loads
    <3> QED BY <1>7, <2>3, <3>1 DEF Grown, Loads
  <2>6. ASSUME NEW d \in L + 1 .. Len(ds)
        PROVE  BoundAt(ds, ks, disk, d)
    <3>1. d = L + 1 \/ d = c
      BY <1>8, <1>7, <1>10
    <3>2. /\ ds[d].name = name /\ ds[c].name = name /\ d \in {c, ds[c].class}
          /\ d \in 1 .. Len(ds)
      BY <1>7, <1>8, <1>9, <1>10, <3>1
    <3>3. ASSUME NEW j \in DOMAIN ds[d].table, ks[ds[d].table[j]].kind = "primitive"
          PROVE  BoundFrom(ks[ds[d].table[j]], name, disk)
      <4>1. PICK e : e = ds[d].table[j]
        OBVIOUS
      <4>2. e \in 1 .. Len(js)
        BY <1>7, <3>2, <4>1 DEF Tables
      <4>3. ks[e].kind = "primitive" /\ ks[e].kind = js[e].kind /\ ks[e].sig = js[e].sig
        <5>1. ks[e].kind = "primitive"
          BY <3>3, <4>1
        <5>2. ks[e].kind = js[e].kind /\ ks[e].sig = js[e].sig
          BY <2>3, <4>2 DEF Loads
        <5> QED BY <5>1, <5>2
      <4>4. ks[e].routine = Routine(name, ks[e].sig) /\ ks[e].lib = lib
        BY <2>3, <3>2, <4>1, <4>3 DEF Loads
      <4>5. Routine(name, js[e].sig) \in lib.routines
        BY <1>15, <3>2, <4>1, <4>3 DEF HasRoutines, IsPrimitive
      <4> QED BY <2>0, <4>1, <4>3, <4>4, <4>5 DEF BoundFrom
    <3> QED BY <3>2, <3>3 DEF BoundAt
  <2>7. \A d \in Len(classes) + 1 .. Len(ds) : BoundAt(ds, ks, disk, d)
    BY <1>5, <2>6
  <2>8. Layout(ds) /\ Tables(ds, ks)
    BY <1>7, <2>3 DEF Loads
  <2>9. /\ blocks' \in [BlockArgs -> Nat]
        /\ \A n \in BlockArgs : blocks'[n] # blocks[n] =>
             blocks'[n] \in 1 .. Len(ds) /\ EvaluatedBy(ds, ks, blocks'[n], n)
    BY <1>13, <1>15
  <2>10. classes' = ds /\ invs' = ks /\ UNCHANGED <<disk, objects, act>>
    BY <1>15, <2>1
  <2> QED BY <2>4, <2>7, <2>8, <2>9, <2>10, GrownInv
<1>16. CASE Stop("quit")
  BY <1>16, StopKeeps DEF Stop
<1> QED BY <1>12, <1>14, <1>15, <1>16

\* A table is no part of the layout.
LEMMA LayoutSame ==
  ASSUME NEW ds, Layout(ds), NEW es \in Seq(ClassRecord), Len(es) = Len(ds),
         \A k \in 1 .. Len(ds) : /\ es[k].super = ds[k].super /\ es[k].fields = ds[k].fields
                                 /\ es[k].class = ds[k].class /\ es[k].size = ds[k].size
  PROVE  Layout(es)
<1>1. Ranked(ds) /\ Len(ds) \in Nat
  BY DEF Layout, Ranked
<1>2. ASSUME NEW k \in 1 .. Len(es), HasSuperClass(es, k)
      PROVE  es[k].super \in 1 .. Len(es) /\ Rank(es[k].super) < Rank(k)
  BY <1>1, <1>2 DEF Ranked, HasSuperClass
<1>3. Ranked(es)
  BY <1>1, <1>2 DEF Ranked
<1>4. \A k \in 1 .. Len(ds) : FieldNames(es)[k] = FieldNames(ds)[k]
  <2>1. Len(ds) <= Len(es)
    BY <1>1
  <2> QED BY <1>1, <1>3, <2>1, FieldNamesStable
<1>5. ASSUME NEW c \in 1 .. Len(es)
      PROVE  /\ es[c].class \in 0 .. Len(es)
             /\ es[c].class # Nil => Len(FieldNames(es)[es[c].class]) <= es[c].size
  <2>1. /\ ds[c].class \in 0 .. Len(ds)
        /\ ds[c].class # Nil => Len(FieldNames(ds)[ds[c].class]) <= ds[c].size
    BY DEF Layout
  <2>2. ds[c].class # Nil => ds[c].class \in 1 .. Len(ds)
    BY <1>1, <2>1 DEF Nil
  <2> QED BY <1>4, <2>1, <2>2
<1>6. es[Block].class # Nil
  <2>1. Block \in 1 .. Len(ds)
    BY <1>1 DEF Ranked, Block
  <2> QED BY <2>1 DEF Layout
<1> QED BY <1>3, <1>5, <1>6 DEF Layout

\* The class file of a block declares its evaluation primitive.
LEMMA BlockDeclares ==
  ASSUME NEW n \in BlockArgs
  PROVE  /\ BlockTable[n] \in Source
         /\ \E i \in DOMAIN BlockTable[n] : BlockTable[n][i].sig = computeSignatureString(n)
         /\ computeSignatureString(n) \in Selector
<1>1. /\ BlockTable[n] \in Source
      /\ \E i \in DOMAIN BlockTable[n] : BlockTable[n][i].sig = computeSignatureString(n)
  BY BlockTableAssumption
<1>2. PICK i \in DOMAIN BlockTable[n] : BlockTable[n][i].sig = computeSignatureString(n)
  BY <1>1
<1>3. BlockTable[n][i].sig \in Selector
  <2>1. PICK R : R = [sig : Selector, primitive : BOOLEAN]
    OBVIOUS
  <2>2. BlockTable[n] \in Seq(R)
    BY <1>1, <2>1, Zenon DEF Source
  <2>3. BlockTable[n][i] \in R
    BY <1>2, <2>2
  <2>4. BlockTable[n][i] \in [sig : Selector, primitive : BOOLEAN]
    BY <2>1, <2>3, Zenon
  <2> QED BY <2>4
<1> QED BY <1>1, <1>2, <1>3

LEMMA GetBlockClassWithArgsKeeps ==
  ASSUME IInv, NEW n \in BlockArgs, GetBlockClassWithArgs(n)
  PROVE  IInv'
<1>1. Layout(classes) /\ Tables(classes, invs) /\ Bound(classes, invs, disk)
      /\ Evaluated(classes, invs, blocks)
  BY DEF IInv
<1>2. PICK def : def = BlockDefinition(n)
  OBVIOUS
<1>3. PICK ds, js : /\ ds = Assemble("BlockN", Block, def).classes
                    /\ js = Assemble("BlockN", Block, def).invs
  OBVIOUS
<1>4. PICK L, K : L = Len(classes) /\ K = Len(invs)
  OBVIOUS
<1>5. /\ def.fields \in Seq(STRING) /\ def.metaFields \in Seq(STRING)
      /\ def.table \in Source /\ def.metaTable \in Source
      /\ def.table = BlockTable[n]
  <2>1. def.fields = <<>> /\ def.metaFields = <<>> /\ def.metaTable = <<>>
        /\ def.table = BlockTable[n]
    BY <1>2 DEF BlockDefinition
  <2>2. <<>> \in Source /\ <<>> \in Seq(STRING)
    BY DEF Source
  <2> QED BY <2>1, <2>2, BlockDeclares
<1>6. "BlockN" \in ClassName
  BY DEF ClassName
<1>7. Block \in ClassId /\ classes[Block].class # Nil
  <2>1. Block \in ClassId
    BY <1>1 DEF Layout, Ranked, ClassId, Block
  <2> QED BY <1>1, <2>1 DEF Layout
<1>8. /\ Layout(ds) /\ Tables(ds, js) /\ Grown(classes, invs, ds, js)
      /\ Len(ds) = L + 2
      /\ ds[Len(ds)].class = L + 1 /\ ds[L + 1].class = Nil
      /\ ds[Len(ds)].name = "BlockN" /\ ds[L + 1].name = "BlockN"
      /\ \A i \in DOMAIN def.table : \E j \in DOMAIN ds[Len(ds)].table :
           js[ds[Len(ds)].table[j]].sig = def.table[i].sig
  <2>1. PICK bn : bn = "BlockN"
    OBVIOUS
  <2>2. ds = Assemble(bn, Block, def).classes /\ js = Assemble(bn, Block, def).invs
    BY <1>3, <2>1
  <2>3. bn \in ClassName
    BY <1>6, <2>1
  <2>4. NewPair(classes, invs, bn, def, ds, js)
    BY <1>1, <1>5, <1>7, <2>2, <2>3, Assembled
  <2> QED BY <1>4, <2>1, <2>4 DEF NewPair
<1>9. /\ L \in Nat /\ Ranked(ds) /\ ds \in Seq(ClassRecord)
      /\ js \in Seq(InvokableRecord) /\ Len(js) \in Nat
  BY <1>1, <1>4, <1>8 DEF Layout, Ranked, Tables
<1>10. PICK c, sig, N : c = L + 2 /\ sig = computeSignatureString(n) /\ N = Len(js) + 1
  OBVIOUS
<1>11. c \in 1 .. Len(ds) /\ c = Len(ds) /\ N \in Nat
  BY <1>8, <1>9, <1>10
<1>12. PICK t : t = ds[c].table
  OBVIOUS
<1>13. t \in Seq(Nat)
  BY <1>9, <1>11, <1>12, ClassType
<1>14. PICK same : same = Own(ds, js, sig, c)
  OBVIOUS
<1>15. same # {}
  <2>1. PICK i \in DOMAIN def.table : def.table[i].sig = sig
    BY <1>5, <1>10, BlockDeclares
  <2>2. PICK j \in DOMAIN t : js[t[j]].sig = sig
    BY <1>8, <1>11, <1>12, <2>1
  <2> QED BY <1>12, <1>14, <2>2 DEF Own
<1>16. PICK i : i = Min(same)
  OBVIOUS
<1>17. /\ i \in DOMAIN t /\ js[t[i]].sig = sig
       /\ \A j \in DOMAIN t : js[t[j]].sig = sig => i <= j
  BY <1>9, <1>11, <1>12, <1>14, <1>15, <1>16, OwnEntry
<1>18. PICK v, es, ks : /\ v = [VMEvaluationPrimitive(n) EXCEPT !.holder = c]
                        /\ es = [ds EXCEPT ![c].table[i] = N]
                        /\ ks = Append(js, v)
  OBVIOUS
<1>19. classes' = es /\ invs' = ks /\ blocks' = [blocks EXCEPT ![n] = c]
       /\ UNCHANGED <<disk, objects, act, status>>
  <2>1. VMEvaluationPrimitive(n).sig = sig
    BY <1>10 DEF VMEvaluationPrimitive
  <2>2. same = {k \in DOMAIN ds[c].table : js[ds[c].table[k]].sig = VMEvaluationPrimitive(n).sig}
    BY <1>14, <2>1 DEF Own
  <2>3. AddInstanceInvokable(ds, js, c, VMEvaluationPrimitive(n))
          = [classes |-> es, invs |-> ks]
    BY <1>10, <1>15, <1>16, <1>18, <2>2 DEF AddInstanceInvokable
  <2> QED BY <1>2, <1>3, <1>11, <2>3 DEF GetBlockClassWithArgs
<1>20. /\ v \in InvokableRecord /\ v.holder = c /\ v.sig = sig
       /\ v.kind = "evaluation" /\ v.argc = n
  <2>1. n \in Nat
    BY ClassesAssumption
  <2>2. sig \in Selector
    BY <1>10, BlockDeclares
  <2>3. v = [sig |-> sig, kind |-> "evaluation", routine |-> <<"evaluationRoutine">>,
             lib |-> NoLibrary, holder |-> c, argc |-> n]
    BY <1>10, <1>18 DEF VMEvaluationPrimitive
  <2>4. <<"evaluationRoutine">> \in RoutineName
    BY DEF RoutineName
  <2>5. c \in Nat
    BY <1>9, <1>10
  <2>6. NoLibrary \in LibraryRecord
    BY DEF LibraryRecord
  <2> QED BY <2>1, <2>2, <2>3, <2>4, <2>5, <2>6 DEF InvokableRecord
<1>21. /\ ks \in Seq(InvokableRecord) /\ Len(ks) = N
       /\ \A j \in 1 .. Len(js) : ks[j] = js[j]
       /\ ks[N] = v
  BY <1>9, <1>10, <1>18, <1>20
<1>22. PICK u : u = [t EXCEPT ![i] = N]
  OBVIOUS
<1>23. /\ u \in Seq(Nat) /\ DOMAIN u = DOMAIN t /\ u[i] = N
       /\ \A j \in DOMAIN t : j # i => u[j] = t[j]
  BY <1>11, <1>13, <1>17, <1>22
<1>24. ds[c] \in ClassRecord
  BY <1>9, <1>11
<1>25. es = [ds EXCEPT ![c] = [ds[c] EXCEPT !.table = u]]
  BY <1>12, <1>18, <1>22
<1>26. /\ [ds[c] EXCEPT !.table = u] \in ClassRecord
       /\ es \in Seq(ClassRecord) /\ Len(es) = Len(ds)
       /\ \A k \in 1 .. Len(ds) : k # c => es[k] = ds[k]
       /\ es[c] = [ds[c] EXCEPT !.table = u]
  <2>1. [ds[c] EXCEPT !.table = u] \in ClassRecord
    BY <1>23, <1>24 DEF ClassRecord
  <2> QED BY <1>9, <1>11, <1>25, <2>1
<1>27. /\ es[c].super = ds[c].super /\ es[c].fields = ds[c].fields /\ es[c].name = ds[c].name
       /\ es[c].class = ds[c].class /\ es[c].size = ds[c].size /\ es[c].table = u
  BY <1>24, <1>26 DEF ClassRecord
<1>28. Layout(es)
  <2>1. \A k \in 1 .. Len(ds) : /\ es[k].super = ds[k].super /\ es[k].fields = ds[k].fields
                                /\ es[k].class = ds[k].class /\ es[k].size = ds[k].size
    BY <1>26, <1>27
  <2> QED BY <1>8, <1>26, <2>1, LayoutSame
<1>29. ASSUME NEW k \in 1 .. Len(ds), NEW j \in DOMAIN es[k].table
       PROVE  \/ k = c /\ j = i /\ es[k].table[j] = N
              \/ /\ j \in DOMAIN ds[k].table /\ es[k].table[j] = ds[k].table[j]
                 /\ es[k].table[j] \in 1 .. Len(js) /\ js[es[k].table[j]].holder = k
                 /\ ks[es[k].table[j]] = js[es[k].table[j]]
  <2>1. CASE k = c /\ j = i
    BY <1>23, <1>27, <2>1
  <2>2. CASE ~ (k = c /\ j = i)
    <3>1. j \in DOMAIN ds[k].table /\ es[k].table[j] = ds[k].table[j]
      BY <1>12, <1>23, <1>26, <1>27, <1>29, <2>2
    <3>2. ds[k].table[j] \in 1 .. Len(js) /\ js[ds[k].table[j]].holder = k
      BY <1>8, <3>1 DEF Tables
    <3> QED BY <1>21, <3>1, <3>2
  <2> QED BY <2>1, <2>2
<1>30. Tables(es, ks)
  <2>1. ASSUME NEW j \in 1 .. Len(ks)
        PROVE  ks[j].holder \in 1 .. Len(es)
    <3>1. j \in 1 .. Len(js) \/ j = N
      BY <1>9, <1>10, <1>21
    <3>2. CASE j \in 1 .. Len(js)
      BY <1>8, <1>21, <1>26, <3>2 DEF Tables
    <3>3. CASE j = N
      BY <1>11, <1>20, <1>21, <1>26, <3>3
    <3> QED BY <3>1, <3>2, <3>3
  <2>2. ASSUME NEW k \in 1 .. Len(es), NEW j \in DOMAIN es[k].table
        PROVE  es[k].table[j] \in 1 .. Len(ks) /\ ks[es[k].table[j]].holder = k
    <3>1. k \in 1 .. Len(ds)
      BY <1>26
    <3>2. CASE k = c /\ j = i /\ es[k].table[j] = N
      <4>1. N \in 1 .. Len(ks)
        BY <1>9, <1>10, <1>21
      <4> QED BY <1>20, <1>21, <3>2, <4>1
    <3>3. CASE ~ (k = c /\ j = i /\ es[k].table[j] = N)
      <4>1. /\ es[k].table[j] \in 1 .. Len(js) /\ js[es[k].table[j]].holder = k
            /\ ks[es[k].table[j]] = js[es[k].table[j]]
        BY <1>29, <2>2, <3>1, <3>3
      <4>2. PICK e : e = es[k].table[j]
        OBVIOUS
      <4>3. e \in 1 .. Len(ks)
        BY <1>9, <1>10, <1>21, <4>1, <4>2
      <4> QED BY <4>1, <4>2, <4>3
    <3> QED BY <3>2, <3>3
  <2> QED BY <1>21, <2>1, <2>2 DEF Tables
<1>31. Grown(classes, invs, es, ks)
  <2>1. ASSUME NEW k \in 1 .. Len(classes)
        PROVE  es[k] = classes[k]
    <3>1. k \in 1 .. Len(ds) /\ k # c
      BY <1>4, <1>8, <1>9, <1>10
    <3> QED BY <1>8, <1>26, <3>1 DEF Grown
  <2>2. Len(invs) \in Nat /\ Len(invs) <= Len(js)
    BY <1>1, <1>8 DEF Tables, Grown
  <2>3. ASSUME NEW j \in 1 .. Len(invs)
        PROVE  ks[j] = invs[j]
    <3>1. j \in 1 .. Len(js)
      BY <1>9, <2>2
    <3> QED BY <1>8, <1>21, <3>1 DEF Grown
  <2>4. Len(classes) <= Len(es) /\ Len(invs) <= Len(ks)
    BY <1>4, <1>8, <1>9, <1>10, <1>21, <1>26, <2>2
  <2> QED BY <2>1, <2>3, <2>4 DEF Grown
<1>32. ASSUME NEW d \in Len(classes) + 1 .. Len(es)
       PROVE  BoundAt(es, ks, disk, d)
  <2>1. d = L + 1 \/ d = c
    BY <1>4, <1>8, <1>9, <1>10, <1>26
  <2>2. es[d].name = "BlockN"
    <3>1. CASE d = c
      BY <1>8, <1>11, <1>27, <3>1
    <3>2. CASE d # c
      <4>1. L + 1 \in 1 .. Len(ds)
        BY <1>8, <1>9
      <4> QED BY <1>8, <1>26, <2>1, <3>2, <4>1
    <3> QED BY <3>1, <3>2
  <2> QED BY <2>2 DEF BoundAt
<1>33. EvaluatedBy(es, ks, c, n)
  <2>1. i \in DOMAIN es[c].table /\ es[c].table[i] = N
    BY <1>17, <1>23, <1>27
  <2>2. ASSUME NEW j \in DOMAIN es[c].table, ks[es[c].table[j]].sig = sig
        PROVE  i <= j
    <3>0. i \in Nat
      BY <1>13, <1>17
    <3>1. CASE j = i
      BY <3>0, <3>1
    <3>2. CASE j # i
      <4>1. j \in DOMAIN t /\ js[t[j]].sig = sig
        BY <1>11, <1>12, <1>29, <2>2, <3>2
      <4> QED BY <1>17, <4>1
    <3> QED BY <3>1, <3>2
  <2> QED BY <1>10, <1>20, <1>21, <2>1, <2>2 DEF EvaluatedBy
<1>34. /\ blocks' \in [BlockArgs -> Nat]
       /\ \A k \in BlockArgs : blocks'[k] # blocks[k] =>
            blocks'[k] \in 1 .. Len(es) /\ EvaluatedBy(es, ks, blocks'[k], k)
  <2>1. blocks \in [BlockArgs -> Nat] /\ c \in Nat /\ c \in 1 .. Len(es)
    BY <1>1, <1>9, <1>10, <1>11, <1>26 DEF Evaluated
  <2>2. blocks' \in [BlockArgs -> Nat]
    BY <1>19, <2>1
  <2>3. ASSUME NEW k \in BlockArgs, blocks'[k] # blocks[k]
        PROVE  k = n /\ blocks'[k] = c
    BY <1>19, <2>1, <2>3
  <2> QED BY <1>33, <2>1, <2>2, <2>3
<1>35. UNCHANGED <<disk, objects, act>> /\ classes' = es /\ invs' = ks
  BY <1>19
<1> QED BY <1>28, <1>30, <1>31, <1>32, <1>34, <1>35, GrownInv

LEMMA NewInstanceKeeps ==
  ASSUME IInv, NEW c \in ClassId, NewInstance(c)
  PROVE  IInv'
<1>1. Layout(classes) /\ Placed(classes, objects)
  BY DEF IInv
<1>2. PICK n : n = Len(FieldNames(classes)[c])
  OBVIOUS
<1>3. n \in Nat /\ c \in Nat /\ c \in 1 .. Len(classes)
  <2>1. FieldNames(classes)[c] \in Seq(FieldName)
    BY <1>1, FieldNamesDefined DEF Layout, ClassId
  <2>2. Len(classes) \in Nat
    BY <1>1 DEF Layout, Ranked
  <2> QED BY <1>2, <2>1, <2>2 DEF ClassId
<1>4. objects' = Append(objects, [class |-> c, size |-> n])
  <2>1. n - 1 + 1 = n
    BY <1>3
  <2> QED BY <1>2, <2>1 DEF NewInstance, GetNumberOfInstanceFields, InstanceFields
<1>5. [class |-> c, size |-> n] \in [class : Nat, size : Nat]
  BY <1>3
<1>6. objects \in Seq([class : Nat, size : Nat])
  BY <1>1 DEF Placed
<1>7. /\ objects' \in Seq([class : Nat, size : Nat])
      /\ Len(objects') = Len(objects) + 1 /\ Len(objects) \in Nat
      /\ \A o \in 1 .. Len(objects) : objects'[o] = objects[o]
      /\ objects'[Len(objects) + 1] = [class |-> c, size |-> n]
  BY <1>4, <1>5, <1>6
<1>8. ASSUME NEW o \in 1 .. Len(objects')
      PROVE  /\ objects'[o].class \in 1 .. Len(classes)
             /\ objects'[o].size = Len(FieldNames(classes)[objects'[o].class])
  <2>1. CASE o \in 1 .. Len(objects)
    BY <1>1, <1>7, <2>1 DEF Placed
  <2>2. CASE o = Len(objects) + 1
    BY <1>2, <1>3, <1>7, <2>2
  <2> QED BY <1>7, <2>1, <2>2
<1>9. Placed(classes, objects')
  BY <1>7, <1>8 DEF Placed
<1>10. UNCHANGED <<disk, classes, invs, blocks, act>>
  BY DEF NewInstance
<1> QED BY <1>9, <1>10 DEF IInv

\* What a lookup finds is an invokable held by a class of the chain.
LEMMA LookupFinds ==
  ASSUME IInv, NEW c \in ClassId, NEW sig, LookupInvokable(c, sig) # Nil
  PROVE  /\ LookupInvokable(c, sig) \in 1 .. Len(invs)
         /\ invs[LookupInvokable(c, sig)].holder \in Ancestors(c)
<1>1. Ranked(classes) /\ Tables(classes, invs) /\ c \in 1 .. Len(classes)
  BY DEF IInv, Layout, ClassId
<1>2. PICK v : v = LookupInvokable(c, sig)
  OBVIOUS
<1>3. PICK k \in Chains(classes)[c] : \E i \in DOMAIN classes[k].table :
        v = classes[k].table[i]
  BY <1>1, <1>2, LookupInChain DEF LookupInvokable
<1>4. k \in 1 .. Len(classes)
  BY <1>1, ChainCases
<1>5. v \in 1 .. Len(invs) /\ invs[v].holder = k
  BY <1>1, <1>3, <1>4 DEF Tables
<1> QED BY <1>2, <1>3, <1>5 DEF Ancestors

LEMMA sendKeeps ==
  ASSUME IInv, NEW o \in DOMAIN objects, NEW sig, send(o, sig)
  PROVE  IInv'
<1>1. objects[o].class \in ClassId /\ o \in Nat
  <2>1. objects \in Seq([class : Nat, size : Nat])
    BY DEF IInv, Placed
  <2>2. o \in 1 .. Len(objects) /\ Len(objects) \in Nat
    BY <2>1
  <2> QED BY <2>2 DEF IInv, Placed, ClassId
<1>2. PICK v : v = LookupInvokable(objects[o].class, sig)
  OBVIOUS
<1>3. v # Nil /\ act' = [self |-> o, inv |-> v]
      /\ UNCHANGED <<disk, classes, invs, blocks, objects, status>>
  BY <1>2 DEF send
<1>4. v \in 1 .. Len(invs) /\ Len(invs) \in Nat
  BY <1>1, <1>2, <1>3, LookupFinds DEF IInv, Tables
<1>5. Running(invs, act')
  BY <1>1, <1>3, <1>4 DEF Running
<1> QED BY <1>3, <1>5 DEF IInv

\* The holder of the running method is a class.
LEMMA HolderIsClass ==
  ASSUME IInv, act # NoAct
  PROVE  act.inv \in 1 .. Len(invs) /\ invs[act.inv].holder \in ClassId
<1>1. act.inv \in 1 .. Len(invs)
  BY DEF IInv, Running
<1> QED BY <1>1 DEF IInv, Tables, ClassId

\* A super send finds its method above the holder of the running one.
LEMMA SuperSendFinds ==
  ASSUME IInv, NEW sig, doSuperSend(sig), SuperStart # Nil
  PROVE  LET v == LookupInvokable(SuperStart, sig)
         IN /\ act' = [act EXCEPT !.inv = v]
            /\ v \in 1 .. Len(invs)
            /\ invs[v].holder \in Ancestors(invs[act.inv].holder) \ {invs[act.inv].holder}
<1>1. PICK h : h = invs[act.inv].holder
  OBVIOUS
<1>2. h \in 1 .. Len(classes)
  BY <1>1, HolderIsClass DEF doSuperSend, ClassId
<1>3. Ranked(classes)
  BY DEF IInv, Layout
<1>4. SuperStart = classes[h].super /\ HasSuperClass(classes, h)
  BY <1>1 DEF SuperStart, HasSuperClass
<1>5. SuperStart \in ClassId
  BY <1>2, <1>3, <1>4 DEF Ranked, ClassId
<1>6. PICK v : v = LookupInvokable(SuperStart, sig)
  OBVIOUS
<1>7. v # Nil /\ act' = [act EXCEPT !.inv = v]
  BY <1>6 DEF doSuperSend
<1>8. v \in 1 .. Len(invs) /\ invs[v].holder \in Ancestors(SuperStart)
  BY <1>5, <1>6, <1>7, LookupFinds
<1>9. invs[v].holder \in Ancestors(h) \ {h}
  BY <1>2, <1>3, <1>4, <1>8, ChainAscends DEF Ancestors
<1> QED BY <1>1, <1>6, <1>7, <1>8, <1>9

LEMMA doSuperSendKeeps ==
  ASSUME IInv, NEW sig, doSuperSend(sig)
  PROVE  IInv'
<1>1. CASE SuperStart = Nil
  BY <1>1, StopKeeps DEF doSuperSend, Stop
<1>2. CASE SuperStart # Nil
  <2>1. PICK v : v = LookupInvokable(SuperStart, sig)
    OBVIOUS
  <2>2. act' = [act EXCEPT !.inv = v] /\ v \in 1 .. Len(invs)
    BY <1>2, <2>1, SuperSendFinds
  <2>3. UNCHANGED <<disk, classes, invs, blocks, objects, status>>
    BY <1>2 DEF doSuperSend
  <2>4. act \in [self : Nat, inv : Nat] /\ Len(invs) \in Nat
    BY DEF IInv, Running, Tables
  <2>5. act' \in [self : Nat, inv : Nat] /\ act'.inv = v
    BY <2>2, <2>4
  <2>6. Running(invs, act')
    BY <2>2, <2>5 DEF Running
  <2> QED BY <2>3, <2>6 DEF IInv
<1> QED BY <1>1, <1>2

-----------------------------------------------------------------------------
(***************************************************************************)
(* The initial state.                                                      *)
(***************************************************************************)
SystemClasses(k, n) ==
  << SystemClass("Object", Nil, ObjectClass, <<"class">>, Indices(0, k), 5),
     SystemClass("Object", Class, Nil, <<>>, <<>>, 5),
     SystemClass("Class", Object, ClassClass, ClassFields, Indices(k, n), 5),
     SystemClass("Class", ObjectClass, Nil, <<>>, <<>>, 5),
     SystemClass("Block", ObjectClass, Nil, <<>>, <<>>, 10),
     SystemClass("Block", Object, BlockClass, <<"method", "context">>,
                 Indices(k + n, 1), 10) >>

\* The invokables of a system class have their routines.
LEMMA ListBound ==
  ASSUME disk \in Disks, NEW list \in Source, NEW c \in Nat, NEW name \in ClassName,
         SystemLibrary(list, name), NEW b, b = LoadSystemClass(list, c, name)
  PROVE  /\ b \in Seq(InvokableRecord) /\ Len(b) = Len(list)
         /\ \A i \in 1 .. Len(b) :
              /\ b[i].holder = c
              /\ b[i].kind # "method" => BoundFrom(b[i], name, disk)
<1>1. PICK a, t, lib : /\ a = SetInstanceInvokables(list, c) /\ t = Indices(0, Len(list))
                       /\ lib = SearchLibrary(name)
  OBVIOUS
<1>2. Len(list) \in Nat /\ DOMAIN list = 1 .. Len(list)
  BY DEF Source
<1>3. /\ a \in Seq(InvokableRecord) /\ Len(a) = Len(list)
      /\ \A i \in 1 .. Len(list) : /\ a[i].holder = c /\ a[i].sig = list[i].sig
                                   /\ a[i].kind # "method" => list[i].primitive
  BY <1>1, ListHeld
<1>4. DOMAIN t = 1 .. Len(list) /\ \A i \in 1 .. Len(list) : t[i] = 0 + i
  BY <1>1, <1>2, IndicesType
<1>5. /\ lib \in disk /\ lib.format /\ name \in lib.supports
      /\ lib \in LibraryRecord
  <2>1. lib \in disk /\ lib.format /\ name \in lib.supports
    BY <1>1, LibraryIsResponsible DEF SystemLibrary
  <2> QED BY <2>1 DEF LibraryRecord
<1>6. /\ b \in Seq(InvokableRecord) /\ Len(b) = Len(a)
      /\ \A i \in 1 .. Len(a) :
           /\ b[i].sig = a[i].sig /\ b[i].kind = a[i].kind
           /\ b[i].holder = a[i].holder
           /\ (\E j \in DOMAIN t : t[j] = i) /\ a[i].kind # "method"
                => b[i].routine = Routine(name, a[i].sig) /\ b[i].lib = lib
  <2>1. b = setPrimitives(a, t, name, lib)
    BY <1>1 DEF LoadSystemClass
  <2>2. RoutinesSet(a, t, name, lib, b)
    BY <1>3, <1>5, <2>1, SetPrimitivesGives
  <2> QED BY <2>2 DEF RoutinesSet
<1>7. ASSUME NEW i \in 1 .. Len(b)
      PROVE  b[i].holder = c /\ (b[i].kind # "method" => BoundFrom(b[i], name, disk))
  <2>1. i \in 1 .. Len(list) /\ i \in 1 .. Len(a)
    BY <1>3, <1>6
  <2>2. t[i] = i /\ i \in DOMAIN t
    BY <1>2, <1>4, <2>1
  <2>3. b[i].holder = c /\ b[i].sig = list[i].sig
    BY <1>3, <1>6, <2>1
  <2>4. ASSUME b[i].kind # "method"
        PROVE  BoundFrom(b[i], name, disk)
    <3>1. b[i].routine = Routine(name, b[i].sig) /\ b[i].lib = lib /\ list[i].primitive
      BY <1>3, <1>6, <2>1, <2>2, <2>4
    <3>2. Routine(name, list[i].sig) \in lib.routines
      BY <1>1, <1>2, <2>1, <3>1 DEF SystemLibrary
    <3> QED BY <1>5, <2>3, <3>1, <3>2 DEF BoundFrom
  <2> QED BY <2>3, <2>4
<1> QED BY <1>3, <1>6, <1>7

\* What the proofs use of them.
SystemFacts(cs, k, n) ==
  /\ Layout(cs) /\ Len(cs) = 6
  /\ cs[1].table = Indices(0, k) /\ cs[3].table = Indices(k, n)
  /\ cs[6].table = Indices(k + n, 1)
  /\ \A c \in {2, 4, 5} : cs[c].table = <<>>
  /\ cs[1].name = "Object" /\ cs[3].name = "Class" /\ cs[6].name = "Block"
  /\ \A c \in 1 .. 6 : cs[c].name \in {"Object", "Class", "Block"}

\* The system classes are laid out as the invariant says.
LEMMA SystemLayout ==
  ASSUME NEW k \in Nat, NEW n \in Nat, NEW cs, cs = SystemClasses(k, n)
  PROVE  SystemFacts(cs, k, n)
<1> USE DEF Object, ObjectClass, Class, ClassClass, BlockClass, Block, Nil
<1>1. /\ Indices(0, k) \in Seq(Nat) /\ Indices(k, n) \in Seq(Nat)
      /\ Indices(k + n, 1) \in Seq(Nat)
  <2>1. k + n \in Nat
    OBVIOUS
  <2> QED BY <2>1, IndicesType
<1>2. /\ <<"class">> \in Seq(FieldName) /\ <<"method", "context">> \in Seq(FieldName)
      /\ ClassFields \in Seq(FieldName) /\ <<>> \in Seq(FieldName) /\ <<>> \in Seq(Nat)
  <2>1. {"class", "method", "context"} \subseteq FieldName
    BY DEF FieldName
  <2>2. <<"class">> \in Seq(FieldName) /\ <<"method", "context">> \in Seq(FieldName)
    BY <2>1
  <2>3. \A i \in DOMAIN ClassFields : ClassFields[i] \in FieldName
    BY DEF FieldName, Range
  <2>4. DOMAIN ClassFields = 1 .. 4
    BY DEF ClassFields
  <2>5. ClassFields[1] \in FieldName /\ ClassFields[2] \in FieldName
        /\ ClassFields[3] \in FieldName /\ ClassFields[4] \in FieldName
    BY <2>3, <2>4
  <2>6. ClassFields \in Seq(FieldName)
    BY <2>5 DEF ClassFields
  <2> QED BY <2>2, <2>6
<1>3. {"Object", "Class", "Block"} \subseteq ClassName
  BY DEF ClassName
<1>4. PICK a, b, c, d, e, f :
        /\ a = SystemClass("Object", Nil, ObjectClass, <<"class">>, Indices(0, k), 5)
        /\ b = SystemClass("Object", Class, Nil, <<>>, <<>>, 5)
        /\ c = SystemClass("Class", Object, ClassClass, ClassFields, Indices(k, n), 5)
        /\ d = SystemClass("Class", ObjectClass, Nil, <<>>, <<>>, 5)
        /\ e = SystemClass("Block", ObjectClass, Nil, <<>>, <<>>, 10)
        /\ f = SystemClass("Block", Object, BlockClass, <<"method", "context">>,
                           Indices(k + n, 1), 10)
  OBVIOUS
<1>5. cs = <<a, b, c, d, e, f>>
  BY <1>4 DEF SystemClasses
<1>6. a \in ClassRecord /\ b \in ClassRecord
  BY <1>1, <1>2, <1>3, <1>4 DEF SystemClass, ClassRecord
<1>7. c \in ClassRecord /\ d \in ClassRecord
  BY <1>1, <1>2, <1>3, <1>4 DEF SystemClass, ClassRecord
<1>8. e \in ClassRecord /\ f \in ClassRecord
  BY <1>1, <1>2, <1>3, <1>4 DEF SystemClass, ClassRecord
<1>9. cs \in Seq(ClassRecord) /\ Len(cs) = 6
  BY <1>5, <1>6, <1>7, <1>8
<1>10. cs[1] = a /\ cs[2] = b /\ cs[3] = c /\ cs[4] = d /\ cs[5] = e /\ cs[6] = f
  BY <1>5
<1>11. /\ cs[1].super = 0 /\ cs[2].super = 3 /\ cs[3].super = 1 /\ cs[4].super = 2
       /\ cs[5].super = 2 /\ cs[6].super = 1
  BY <1>4, <1>10 DEF SystemClass
<1>12. /\ cs[1].class = 2 /\ cs[2].class = 0 /\ cs[3].class = 4 /\ cs[4].class = 0
       /\ cs[5].class = 0 /\ cs[6].class = 5
       /\ cs[1].size = 5 /\ cs[3].size = 5 /\ cs[6].size = 10
  BY <1>4, <1>10 DEF SystemClass
<1>13. /\ cs[1].fields = <<"class">> /\ cs[2].fields = <<>> /\ cs[3].fields = ClassFields
       /\ cs[4].fields = <<>> /\ cs[5].fields = <<>>
  BY <1>4, <1>10 DEF SystemClass
<1>14. /\ cs[1].table = Indices(0, k) /\ cs[3].table = Indices(k, n)
       /\ cs[6].table = Indices(k + n, 1)
       /\ cs[2].table = <<>> /\ cs[4].table = <<>> /\ cs[5].table = <<>>
  BY <1>4, <1>10 DEF SystemClass
<1>15. /\ cs[1].name = "Object" /\ cs[2].name = "Object" /\ cs[3].name = "Class"
       /\ cs[4].name = "Class" /\ cs[5].name = "Block" /\ cs[6].name = "Block"
  BY <1>4, <1>10 DEF SystemClass
<1>16. ASSUME NEW j \in 1 .. 6
       PROVE  j \in {1, 2, 3, 4, 5, 6}
  OBVIOUS
<1>17. Ranked(cs)
  <2>1. ASSUME NEW j \in 1 .. Len(cs), HasSuperClass(cs, j)
        PROVE  cs[j].super \in 1 .. Len(cs) /\ Rank(cs[j].super) < Rank(j)
    <3>1. j \in {1, 2, 3, 4, 5, 6}
      BY <1>9, <1>16
    <3>2. j # 1
      BY <1>11, <2>1 DEF HasSuperClass
    <3> QED BY <1>9, <1>11, <3>1, <3>2 DEF Rank
  <2> QED BY <1>9, <2>1 DEF Ranked
<1>18. PICK F : F = FieldNames(cs)
  OBVIOUS
<1>19. ASSUME NEW j \in 1 .. 6
       PROVE  /\ F[j] \in Seq(FieldName)
              /\ F[j] = (IF cs[j].super # 0 THEN F[cs[j].super] ELSE <<>>) \o cs[j].fields
  BY <1>9, <1>17, <1>18, FieldNamesDefined DEF HasSuperClass
<1>20. ASSUME NEW j \in 1 .. 6, NEW i, cs[j].super = i, i # 0
        PROVE  F[j] = F[i] \o cs[j].fields
  <2>1. F[j] = (IF cs[j].super # 0 THEN F[cs[j].super] ELSE <<>>) \o cs[j].fields
    BY <1>19
  <2> QED BY <1>20, <2>1, Zenon
<1>21. Len(F[1]) = 1
  <2>0. 1 \in 1 .. 6
    OBVIOUS
  <2>1. F[1] = <<>> \o <<"class">>
    BY <1>11, <1>13, <1>19, <2>0
  <2> QED BY <2>1
<1>22. Len(F[3]) = 5
  <2>0. 3 \in 1 .. 6 /\ 1 \in 1 .. 6
    OBVIOUS
  <2>1. F[3] = F[1] \o ClassFields
    <3>1. 1 # 0 /\ 2 # 0 /\ 3 # 0
      OBVIOUS
    <3> QED BY <1>11, <1>13, <1>20, <2>0, <3>1, Zenon
  <2>2. F[1] \in Seq(FieldName)
    BY <1>19, <2>0
  <2>3. Len(ClassFields) = 4
    BY DEF ClassFields
  <2>4. Len(F[1] \o ClassFields) = Len(F[1]) + Len(ClassFields)
    BY <1>2, <2>2, ConcatType
  <2> QED BY <1>21, <2>1, <2>3, <2>4
<1>23. Len(F[2]) = 5
  <2>0. 2 \in 1 .. 6 /\ 3 \in 1 .. 6
    OBVIOUS
  <2>1. F[2] = F[3] \o <<>>
    <3>1. 1 # 0 /\ 2 # 0 /\ 3 # 0
      OBVIOUS
    <3> QED BY <1>11, <1>13, <1>20, <2>0, <3>1, Zenon
  <2>2. F[3] \in Seq(FieldName)
    BY <1>19, <2>0
  <2> QED BY <1>22, <2>1, <2>2
<1>24. Len(F[4]) = 5 /\ Len(F[5]) = 5
  <2>0. 2 \in 1 .. 6 /\ 4 \in 1 .. 6 /\ 5 \in 1 .. 6
    OBVIOUS
  <2>1. F[4] = F[2] \o <<>> /\ F[5] = F[2] \o <<>>
    <3>1. 1 # 0 /\ 2 # 0 /\ 3 # 0
      OBVIOUS
    <3> QED BY <1>11, <1>13, <1>20, <2>0, <3>1, Zenon
  <2>2. F[2] \in Seq(FieldName)
    BY <1>19, <2>0
  <2> QED BY <1>23, <2>1, <2>2
<1>25. Layout(cs)
  <2>1. ASSUME NEW j \in 1 .. Len(cs)
        PROVE  /\ cs[j].class \in 0 .. Len(cs)
               /\ cs[j].class # Nil => Len(F[cs[j].class]) <= cs[j].size
    <3>1. j \in {1, 2, 3, 4, 5, 6}
      BY <1>9, <1>16
    <3>2. CASE j \in {2, 4, 5}
      BY <1>9, <1>12, <3>2
    <3>3. CASE j = 1
      <4>1. F[cs[j].class] = F[2] /\ cs[j].class = 2 /\ cs[j].size = 5
        BY <1>12, <3>3, Zenon
      <4>2. Len(F[cs[j].class]) = 5
        BY <1>23, <4>1, Zenon
      <4> QED BY <1>9, <4>1, <4>2
    <3>4. CASE j = 3
      <4>1. F[cs[j].class] = F[4] /\ cs[j].class = 4 /\ cs[j].size = 5
        BY <1>12, <3>4, Zenon
      <4>2. Len(F[cs[j].class]) = 5
        BY <1>24, <4>1, Zenon
      <4> QED BY <1>9, <4>1, <4>2
    <3>5. CASE j = 6
      <4>1. F[cs[j].class] = F[5] /\ cs[j].class = 5 /\ cs[j].size = 10
        BY <1>12, <3>5, Zenon
      <4>2. Len(F[cs[j].class]) = 5
        BY <1>24, <4>1, Zenon
      <4> QED BY <1>9, <4>1, <4>2
    <3> QED BY <3>1, <3>2, <3>3, <3>4, <3>5
  <2> QED BY <1>12, <1>17, <1>18, <2>1 DEF Layout
<1>26. \A j \in {2, 4, 5} : cs[j].table = <<>>
  BY <1>14
<1>27. \A j \in 1 .. 6 : cs[j].name \in {"Object", "Class", "Block"}
  BY <1>15, <1>16
<1> QED BY <1>9, <1>14, <1>15, <1>25, <1>26, <1>27 DEF SystemFacts

LEMMA BlockSourceType == BlockSource \in Source /\ Len(BlockSource) = 1
<1>1. PICK R : R = [sig : Selector, primitive : BOOLEAN]
  OBVIOUS
<1>2. PICK r : r = [sig |-> "value", primitive |-> TRUE]
  OBVIOUS
<1>3. r \in R
  <2>1. "value" \in Selector
    BY BlockTableAssumption
  <2> QED BY <1>1, <1>2, <2>1, Zenon
<1>4. <<r>> \in Seq(R) /\ Len(<<r>>) = 1
  BY <1>3
<1> QED BY <1>1, <1>2, <1>4, Zenon DEF BlockSource, Source

LEMMA InitInv == Init => IInv
<1> SUFFICES ASSUME Init
             PROVE  IInv
  OBVIOUS
<1>1. PICK k, n : k = Len(ObjectTable) /\ n = Len(ClassTable)
  OBVIOUS
<1>2. ObjectTable \in Source /\ ClassTable \in Source /\ k \in Nat /\ n \in Nat
  <2>1. ObjectTable \in Source /\ ClassTable \in Source
    BY ClassesAssumption
  <2> QED BY <1>1, <2>1 DEF Source
<1>3. PICK a, b, c : /\ a = LoadSystemClass(ObjectTable, Object, "Object")
                     /\ b = LoadSystemClass(ClassTable, Class, "Class")
                     /\ c = LoadSystemClass(BlockSource, Block, "Block")
  OBVIOUS
<1>4. classes = SystemClasses(k, n) /\ invs = a \o b \o c
  BY <1>1, <1>3 DEF Init, SystemClasses
<1>5. /\ Layout(classes) /\ Len(classes) = 6
      /\ classes[1].table = Indices(0, k) /\ classes[3].table = Indices(k, n)
      /\ classes[6].table = Indices(k + n, 1)
      /\ \A d \in {2, 4, 5} : classes[d].table = <<>>
      /\ classes[1].name = "Object" /\ classes[3].name = "Class" /\ classes[6].name = "Block"
      /\ \A d \in 1 .. 6 : classes[d].name \in {"Object", "Class", "Block"}
  <2>1. SystemFacts(classes, k, n)
    BY <1>2, <1>4, SystemLayout
  <2> QED BY <2>1 DEF SystemFacts
<1>6. {"Object", "Class", "Block"} \subseteq ClassName
  BY DEF ClassName
<1>7. /\ a \in Seq(InvokableRecord) /\ Len(a) = k
      /\ \A i \in 1 .. k : /\ a[i].holder = 1
                           /\ a[i].kind # "method" => BoundFrom(a[i], "Object", disk)
  <2>1. PICK name : name = "Object"
    OBVIOUS
  <2>2. /\ name \in ClassName /\ a = LoadSystemClass(ObjectTable, 1, name)
        /\ SystemLibrary(ObjectTable, name) /\ disk \in Disks
    BY <1>3, <1>6, <2>1 DEF Object, Init
  <2>3. /\ a \in Seq(InvokableRecord) /\ Len(a) = Len(ObjectTable)
        /\ \A i \in 1 .. Len(a) : /\ a[i].holder = 1
                                  /\ a[i].kind # "method" => BoundFrom(a[i], name, disk)
    BY <1>2, <2>2, ListBound
  <2> QED BY <1>1, <2>1, <2>3
<1>8. /\ b \in Seq(InvokableRecord) /\ Len(b) = n
      /\ \A i \in 1 .. n : /\ b[i].holder = 3
                           /\ b[i].kind # "method" => BoundFrom(b[i], "Class", disk)
  <2>1. PICK name : name = "Class"
    OBVIOUS
  <2>2. /\ name \in ClassName /\ b = LoadSystemClass(ClassTable, 3, name)
        /\ SystemLibrary(ClassTable, name) /\ disk \in Disks
    BY <1>3, <1>6, <2>1 DEF Class, Init
  <2>3. /\ b \in Seq(InvokableRecord) /\ Len(b) = Len(ClassTable)
        /\ \A i \in 1 .. Len(b) : /\ b[i].holder = 3
                                  /\ b[i].kind # "method" => BoundFrom(b[i], name, disk)
    BY <1>2, <2>2, ListBound
  <2> QED BY <1>1, <2>1, <2>3
<1>9. /\ c \in Seq(InvokableRecord) /\ Len(c) = 1
      /\ \A i \in 1 .. 1 : /\ c[i].holder = 6
                           /\ c[i].kind # "method" => BoundFrom(c[i], "Block", disk)
  <2>1. PICK name : name = "Block"
    OBVIOUS
  <2>2. /\ name \in ClassName /\ c = LoadSystemClass(BlockSource, 6, name)
        /\ SystemLibrary(BlockSource, name) /\ disk \in Disks
    BY <1>3, <1>6, <2>1 DEF Block, Init
  <2>3. /\ c \in Seq(InvokableRecord) /\ Len(c) = Len(BlockSource)
        /\ \A i \in 1 .. Len(c) : /\ c[i].holder = 6
                                  /\ c[i].kind # "method" => BoundFrom(c[i], name, disk)
    BY <2>2, ListBound, BlockSourceType
  <2> QED BY <2>1, <2>3, BlockSourceType
<1>10. /\ invs \in Seq(InvokableRecord) /\ Len(invs) = k + n + 1
       /\ \A i \in 1 .. k : invs[i] = a[i]
       /\ \A i \in 1 .. n : invs[k + i] = b[i]
       /\ invs[k + n + 1] = c[1]
  <2>1. PICK s : s = a \o b
    OBVIOUS
  <2>2. s \in Seq(InvokableRecord)
    BY <1>7, <1>8, <2>1, ConcatType
  <2>3. Len(a \o b) = Len(a) + Len(b)
    BY <1>7, <1>8, ConcatType
  <2>4. Len(s) = k + n
    BY <1>7, <1>8, <2>1, <2>3
  <2>5. ASSUME NEW i \in 1 .. k
        PROVE  s[i] = a[i]
    BY <1>7, <1>8, <2>1
  <2>6. ASSUME NEW i \in 1 .. n
        PROVE  s[k + i] = b[i]
    BY <1>2, <1>7, <1>8, <2>1
  <2>7. invs = s \o c
    BY <1>4, <2>1
  <2>8. invs \in Seq(InvokableRecord)
    BY <1>9, <2>2, <2>7, ConcatType
  <2>9. Len(s \o c) = Len(s) + Len(c)
    BY <1>9, <2>2, ConcatType
  <2>10. Len(invs) = k + n + 1
    BY <1>9, <2>4, <2>7, <2>9
  <2>11. ASSUME NEW i \in 1 .. k + n
         PROVE  invs[i] = s[i]
    BY <1>9, <2>2, <2>4, <2>7
  <2>12. invs[k + n + 1] = c[1]
    <3>1. c \in Seq(InvokableRecord) /\ 1 \in 1 .. Len(c)
      BY <1>9
    <3>2. (s \o c)[Len(s) + 1] = c[1]
      BY <2>2, <3>1, ConcatSecond
    <3> QED BY <2>4, <2>7, <3>2
  <2>13. ASSUME NEW i \in 1 .. k
         PROVE  invs[i] = a[i]
    BY <1>2, <2>5, <2>11
  <2>14. ASSUME NEW i \in 1 .. n
         PROVE  invs[k + i] = b[i]
    <3>1. k + i \in 1 .. k + n
      BY <1>2
    <3> QED BY <2>6, <2>11, <3>1
  <2> QED BY <2>8, <2>10, <2>12, <2>13, <2>14
<1>11. /\ DOMAIN classes[1].table = 1 .. k /\ \A i \in 1 .. k : classes[1].table[i] = i
       /\ DOMAIN classes[3].table = 1 .. n /\ \A i \in 1 .. n : classes[3].table[i] = k + i
       /\ DOMAIN classes[6].table = 1 .. 1 /\ classes[6].table[1] = k + n + 1
  <2>1. DOMAIN Indices(0, k) = 1 .. k /\ \A i \in 1 .. k : Indices(0, k)[i] = 0 + i
    BY <1>2, IndicesType
  <2>2. DOMAIN Indices(k, n) = 1 .. n /\ \A i \in 1 .. n : Indices(k, n)[i] = k + i
    BY <1>2, IndicesType
  <2>3. k + n \in Nat /\ 1 \in Nat
    BY <1>2
  <2>4. DOMAIN Indices(k + n, 1) = 1 .. 1 /\ \A i \in 1 .. 1 : Indices(k + n, 1)[i] = k + n + i
    BY <2>3, IndicesType
  <2>5. \A i \in 1 .. k : 0 + i = i
    BY <1>2
  <2>6. 1 \in 1 .. 1
    OBVIOUS
  <2> QED BY <1>5, <2>1, <2>2, <2>4, <2>5, <2>6
<1>12. ASSUME NEW d \in 1 .. 6, NEW i \in DOMAIN classes[d].table
       PROVE  \/ d = 1 /\ i \in 1 .. k /\ classes[d].table[i] = i /\ invs[i] = a[i]
              \/ d = 3 /\ i \in 1 .. n /\ classes[d].table[i] = k + i /\ invs[k + i] = b[i]
              \/ d = 6 /\ i = 1 /\ classes[d].table[i] = k + n + 1 /\ invs[k + n + 1] = c[1]
  <2>1. d \in {1, 2, 3, 4, 5, 6}
    OBVIOUS
  <2>2. d \notin {2, 4, 5}
    <3>1. DOMAIN <<>> = {}
      OBVIOUS
    <3> QED BY <1>5, <1>12, <3>1
  <2>3. CASE d = 1
    BY <1>10, <1>11, <1>12, <2>3
  <2>4. CASE d = 3
    BY <1>10, <1>11, <1>12, <2>4
  <2>5. CASE d = 6
    BY <1>10, <1>11, <1>12, <2>5
  <2> QED BY <2>1, <2>2, <2>3, <2>4, <2>5
<1>13. Tables(classes, invs)
  <2>1. ASSUME NEW i \in 1 .. Len(invs)
        PROVE  invs[i].holder \in 1 .. Len(classes)
    <3>1. CASE i \in 1 .. k
      BY <1>5, <1>7, <1>10, <3>1
    <3>2. CASE i \in k + 1 .. k + n
      <4>1. PICK j : j = i - k
        OBVIOUS
      <4>2. j \in 1 .. n /\ i = k + j
        BY <1>2, <3>2, <4>1
      <4> QED BY <1>5, <1>8, <1>10, <4>2
    <3>3. CASE i = k + n + 1
      BY <1>5, <1>9, <1>10, <3>3
    <3> QED BY <1>2, <1>10, <3>1, <3>2, <3>3
  <2>2. ASSUME NEW d \in 1 .. Len(classes), NEW i \in DOMAIN classes[d].table
        PROVE  /\ classes[d].table[i] \in 1 .. Len(invs)
               /\ invs[classes[d].table[i]].holder = d
    <3>1. d \in 1 .. 6
      BY <1>5
    <3>2. CASE d = 1 /\ i \in 1 .. k /\ classes[d].table[i] = i /\ invs[i] = a[i]
      <4>1. i \in 1 .. Len(invs)
        BY <1>2, <1>10, <3>2
      <4> QED BY <1>7, <3>2, <4>1
    <3>3. CASE d = 3 /\ i \in 1 .. n /\ classes[d].table[i] = k + i /\ invs[k + i] = b[i]
      <4>1. k + i \in 1 .. Len(invs)
        BY <1>2, <1>10, <3>3
      <4> QED BY <1>8, <3>3, <4>1
    <3>4. CASE d = 6 /\ i = 1 /\ classes[d].table[i] = k + n + 1 /\ invs[k + n + 1] = c[1]
      <4>1. k + n + 1 \in 1 .. Len(invs)
        BY <1>2, <1>10
      <4> QED BY <1>9, <3>4, <4>1
    <3> QED BY <1>12, <3>1, <3>2, <3>3, <3>4
  <2> QED BY <1>10, <2>1, <2>2 DEF Tables
<1>14. ASSUME NEW d \in 1 .. Len(classes)
       PROVE  BoundAt(classes, invs, disk, d)
  <2>1. d \in 1 .. 6
    BY <1>5
  <2>2. ASSUME NEW i \in DOMAIN classes[d].table, invs[classes[d].table[i]].kind = "primitive"
        PROVE  BoundFrom(invs[classes[d].table[i]], classes[d].name, disk)
    <3>1. invs[classes[d].table[i]].kind # "method"
      BY <2>2
    <3>2. CASE d = 1 /\ i \in 1 .. k /\ classes[d].table[i] = i /\ invs[i] = a[i]
      BY <1>5, <1>7, <3>1, <3>2
    <3>3. CASE d = 3 /\ i \in 1 .. n /\ classes[d].table[i] = k + i /\ invs[k + i] = b[i]
      BY <1>5, <1>8, <3>1, <3>3
    <3>4. CASE d = 6 /\ i = 1 /\ classes[d].table[i] = k + n + 1 /\ invs[k + n + 1] = c[1]
      <4>1. 1 \in 1 .. 1
        OBVIOUS
      <4> QED BY <1>5, <1>9, <3>1, <3>4, <4>1
    <3> QED BY <1>12, <2>1, <2>2, <3>2, <3>3, <3>4
  <2> QED BY <2>2 DEF BoundAt
<1>15. Evaluated(classes, invs, blocks)
  <2>1. blocks = [j \in BlockArgs |-> Nil]
    BY DEF Init
  <2> QED BY <2>1 DEF Evaluated, Nil
<1>16. Placed(classes, objects)
  <2>1. objects = <<>>
    BY DEF Init
  <2> QED BY <2>1 DEF Placed
<1>17. Running(invs, act)
  <2>1. act = NoAct
    BY DEF Init
  <2> QED BY <2>1 DEF Running, NoAct, Nil
<1>18. disk \in Disks
  BY DEF Init
<1> QED BY <1>5, <1>13, <1>14, <1>15, <1>16, <1>17, <1>18 DEF IInv, Bound

-----------------------------------------------------------------------------
(***************************************************************************)
(* The theorems.                                                           *)
(***************************************************************************)
LEMMA NextInv ==
  ASSUME IInv, [Next]_vars
  PROVE  IInv'
<1>1. CASE UNCHANGED vars
  BY <1>1, StopKeeps DEF vars
<1>2. CASE Done
  BY <1>2, StopKeeps DEF Done, vars
<1>3. ASSUME NEW c \in ClassId, NEW d \in Definitions, LoadClass(c, d)
      PROVE  IInv'
  BY <1>3, LoadClassKeeps
<1>4. ASSUME NEW n \in BlockArgs, GetBlockClassWithArgs(n)
      PROVE  IInv'
  BY <1>4, GetBlockClassWithArgsKeeps
<1>5. ASSUME NEW c \in ClassId, NewInstance(c)
      PROVE  IInv'
  BY <1>5, NewInstanceKeeps
<1>6. ASSUME NEW o \in DOMAIN objects, NEW s \in Selector, send(o, s)
      PROVE  IInv'
  BY <1>6, sendKeeps
<1>7. ASSUME NEW s \in Selector, doSuperSend(s)
      PROVE  IInv'
  BY <1>7, doSuperSendKeeps
<1> QED BY <1>1, <1>2, <1>3, <1>4, <1>5, <1>6, <1>7 DEF Next

LEMMA Invariant == Spec => []IInv
<1>1. IInv /\ [Next]_vars => IInv'
  BY NextInv
<1> QED BY <1>1, InitInv, PTL DEF Spec

\* Every field access of a method, on an instance or on a class, stays within
\* the object, whatever class of the chain declares the method and the field:
\* the index LookupFieldIndex gives was not computed for the receiver.
THEOREM FieldsAreInBounds == Spec => []FieldsInBounds
<1>1. IInv => FieldsInBounds
  <2> SUFFICES ASSUME IInv
               PROVE  FieldsInBounds
    OBVIOUS
  <2>1. Layout(classes) /\ Ranked(classes) /\ Placed(classes, objects)
    BY DEF IInv, Layout
  <2>2. ASSUME NEW c \in ClassId
        PROVE  Len(InstanceFields(c)) \in Nat
    <3>1. FieldNames(classes)[c] \in Seq(FieldName)
      BY <2>1, FieldNamesDefined DEF ClassId
    <3> QED BY <3>1 DEF InstanceFields
  <2>3. ASSUME NEW o \in DOMAIN objects, NEW k \in Ancestors(objects[o].class),
               NEW f \in Range(classes[k].fields)
        PROVE  LookupFieldIndex(objects[o].class, f) \in 0 .. objects[o].size - 1
    <3>1. objects \in Seq([class : Nat, size : Nat])
      BY <2>1 DEF Placed
    <3>2. o \in 1 .. Len(objects)
      BY <3>1
    <3>3. /\ objects[o].class \in ClassId
          /\ objects[o].size = Len(InstanceFields(objects[o].class))
      BY <2>1, <3>2 DEF Placed, ClassId, InstanceFields
    <3> QED BY <2>1, <3>3, FieldIndex
  <2>4. ASSUME NEW c \in ClassId, classes[c].class # Nil,
               NEW k \in Ancestors(classes[c].class), NEW f \in Range(classes[k].fields)
        PROVE  LookupFieldIndex(classes[c].class, f) \in 0 .. classes[c].size - 1
    <3>1. /\ classes[c].class \in 0 .. Len(classes)
          /\ Len(InstanceFields(classes[c].class)) <= classes[c].size
      BY <2>1, <2>4 DEF Layout, ClassId, InstanceFields
    <3>2. Len(classes) \in Nat /\ classes[c].size \in Nat
      <4>1. Len(classes) \in Nat
        BY <2>1 DEF Ranked
      <4> QED BY <2>1, <4>1, ClassType DEF ClassId
    <3>3. classes[c].class \in ClassId
      BY <2>4, <3>1, <3>2 DEF ClassId, Nil
    <3>4. LookupFieldIndex(classes[c].class, f)
            \in 0 .. Len(InstanceFields(classes[c].class)) - 1
      BY <2>1, <3>3, FieldIndex
    <3>5. Len(InstanceFields(classes[c].class)) \in Nat
      BY <2>2, <3>3
    <3> QED BY <3>1, <3>2, <3>4, <3>5
  <2> QED BY <2>3, <2>4 DEF FieldsInBounds
<1> QED BY <1>1, Invariant, PTL

\* Methods of different classes of a chain find a field at one index, so
\* that what an inherited method writes an overriding one reads.
THEOREM SlotsAreShared == Spec => []SlotShared
<1>1. IInv => SlotShared
  BY FieldIndex DEF IInv, Layout, SlotShared
<1> QED BY <1>1, Invariant, PTL

\* No class that is loaded, of the system or of the program, has an empty primitive,
\* on either side, or one bound under another class's name; and each routine comes
\* from a library that supports the class, whatever other libraries of the class path
\* have (LoadPrimitives, setPrimitives).
THEOREM PrimitivesAreBound == Spec => []PrimitivesBound
<1>1. IInv => PrimitivesBound
  <2> SUFFICES ASSUME IInv, NEW c \in ClassId, classes[c].name # "BlockN",
                      NEW i \in DOMAIN classes[c].table,
                      invs[classes[c].table[i]].kind = "primitive"
               PROVE  BoundFrom(invs[classes[c].table[i]], classes[c].name, disk)
    BY DEF PrimitivesBound, BoundFrom
  <2>1. BoundAt(classes, invs, disk, c)
    BY DEF IInv, Bound, ClassId
  <2> QED BY <2>1 DEF BoundAt
<1> QED BY <1>1, Invariant, PTL

\* A super send ascends: its method is held by a proper ancestor of the
\* holder of the running one, in every hierarchy, Object class below Class
\* included.
THEOREM SuperSendsAscend == Spec => SuperAscends
<1>1. IInv /\ [Next]_vars =>
        [act' # act /\ act'.self = act.self /\ act # NoAct
           /\ (\E s \in Selector : doSuperSend(s))
           => invs[act'.inv].holder \in Ancestors(invs[act.inv].holder)
                                          \ {invs[act.inv].holder}]_vars
  <2> SUFFICES ASSUME IInv, act' # act, NEW s \in Selector, doSuperSend(s)
               PROVE  invs[act'.inv].holder \in Ancestors(invs[act.inv].holder)
                                                  \ {invs[act.inv].holder}
    OBVIOUS
  <2>1. SuperStart # Nil
    BY DEF doSuperSend, Stop
  <2>2. PICK v : v = LookupInvokable(SuperStart, s)
    OBVIOUS
  <2>3. /\ act' = [act EXCEPT !.inv = v]
        /\ invs[v].holder \in Ancestors(invs[act.inv].holder) \ {invs[act.inv].holder}
    BY <2>1, <2>2, SuperSendFinds
  <2>4. act \in [self : Nat, inv : Nat]
    BY DEF IInv, Running
  <2>5. act'.inv = v
    BY <2>3, <2>4
  <2> QED BY <2>3, <2>5
<1> QED BY <1>1, Invariant, PTL DEF Spec, SuperAscends

\* The signature of an evaluation primitive, as computeSignatureString makes it,
\* finds that primitive in the class of such blocks, past the methods of Block and of
\* the block's own class file, for every number of arguments.
THEOREM EvaluationIsFound == Spec => []EvaluationFound
<1>1. IInv => EvaluationFound
  <2> SUFFICES ASSUME IInv, NEW n \in BlockArgs, blocks[n] # Nil
               PROVE  Evaluates(n, computeSignatureString(n))
    BY DEF EvaluationFound
  <2>1. PICK c, sig, t : c = blocks[n] /\ sig = computeSignatureString(n) /\ t = classes[c].table
    OBVIOUS
  <2>2. Ranked(classes) /\ Tables(classes, invs) /\ c \in 1 .. Len(classes)
        /\ EvaluatedBy(classes, invs, c, n)
    BY <2>1 DEF IInv, Layout, Evaluated
  <2>3. PICK i \in DOMAIN t :
          /\ invs[t[i]].sig = sig
          /\ invs[t[i]].kind = "evaluation" /\ invs[t[i]].argc = n
          /\ \A j \in DOMAIN t : invs[t[j]].sig = sig => i <= j
    BY <2>1, <2>2 DEF EvaluatedBy
  <2>4. Own(classes, invs, sig, c) # {}
    BY <2>1, <2>3 DEF Own
  <2>5. PICK m : m = Min(Own(classes, invs, sig, c))
    OBVIOUS
  <2>6. /\ m \in DOMAIN t /\ invs[t[m]].sig = sig
        /\ \A j \in DOMAIN t : invs[t[j]].sig = sig => m <= j
    BY <2>1, <2>2, <2>4, <2>5, OwnEntry
  <2>7. m = i
    <3>1. t \in Seq(Nat)
      BY <2>1, <2>2, ClassType
    <3>2. m \in Nat /\ i \in Nat
      BY <2>3, <2>6, <3>1
    <3>3. m <= i /\ i <= m
      BY <2>3, <2>6
    <3> QED BY <3>2, <3>3
  <2>8. Lookups(classes, invs, sig)[c] = t[i]
    <3>1. Lookups(classes, invs, sig)[c] = classes[c].table[Min(Own(classes, invs, sig, c))]
      BY <2>2, <2>4, LookupsDefined
    <3> QED BY <2>1, <2>5, <2>7, <3>1
  <2>9. t[i] # Nil
    BY <2>1, <2>2, <2>3 DEF Tables, Nil
  <2> QED BY <2>1, <2>3, <2>8, <2>9 DEF LookupInvokable, Evaluates
<1> QED BY <1>1, Invariant, PTL
=============================================================================
