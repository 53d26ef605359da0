----------------------------- MODULE LexerProofs -----------------------------
(***************************************************************************)
(* For every text, of any length and with any lines, comments and strings, *)
(* the parser gets the symbols of the text in order, each once, and NONE   *)
(* only at its end.                                                        *)
(*                                                                         *)
(* What a text means is the recursive function Modes: after each character *)
(* one is in the code, in a comment or in a string.  The prover has no     *)
(* induction, so that this function exists, and that a run of characters   *)
(* does not change the mode, is proved by looking at the least position    *)
(* that fails (Least).  The lexer holds no mode; the invariant says that   *)
(* the loop it is in tells the mode of the text before bufp, across every  *)
(* end of a line.                                                          *)
(***************************************************************************)
EXTENDS Lexer, WellFoundedInduction, TLAPS

-----------------------------------------------------------------------------
(***************************************************************************)
(* Least numbers.                                                          *)
(***************************************************************************)

\* The order of the natural numbers is contained in a well-founded relation.
LEMMA OrderWellFounded ==
  \E R : IsWellFoundedOn(R, Nat) /\ \A x, y \in Nat : x < y => <<x, y>> \in R
<1>1. \A x, y \in Nat : x < y => <<x, y>> \in OpToRel(<, Nat)
  BY Zenon DEF OpToRel
<1> QED BY <1>1, NatLessThanWellFounded, Zenon

\* A set of natural numbers that is not empty has a least element.
LEMMA Least ==
  ASSUME NEW T, T \subseteq Nat, T # {}
  PROVE  \E x \in T : \A y \in T : x <= y
<1>1. PICK R : IsWellFoundedOn(R, Nat) /\ \A x, y \in Nat : x < y => <<x, y>> \in R
  BY OrderWellFounded, Zenon
<1>2. IsWellFoundedOn(R, Nat)
  BY <1>1, Zenon
<1>3. \E x \in T : \A y \in T : ~ (<<y, x>> \in R)
  BY <1>2, WFMin, Zenon
<1>4. PICK x \in T : \A y \in T : ~ (<<y, x>> \in R)
  BY <1>3, Zenon
<1>5. ASSUME NEW y \in T
      PROVE  x <= y
  <2>1. ~ (y < x)
    BY <1>1, <1>4
  <2> QED BY <2>1
<1>6. QED
  BY <1>5

\* Min is that element.
LEMMA MinIsLeast ==
  ASSUME NEW T, T \subseteq Nat, T # {}
  PROVE  Min(T) \in T /\ \A y \in T : Min(T) <= y
<1>1. \E x \in T : \A y \in T : x <= y
  BY Least, Zenon
<1>2. QED
  BY <1>1, Zenon DEF Min

-----------------------------------------------------------------------------
(***************************************************************************)
(* Modes.                                                                  *)
(***************************************************************************)
ModeName == {"code", "comment", "string"}

\* f gives the mode after each of the first n characters of t.
ModesTo(f, t, n) ==
  /\ f \in [0 .. n -> ModeName]
  /\ f[0] = "code"
  /\ \A i \in 1 .. n : f[i] = After(f[i - 1], t[i])

\* After is a mode.
LEMMA AfterType ==
  ASSUME NEW m \in ModeName, NEW c
  PROVE  After(m, c) \in ModeName
BY DEF After, ModeName

\* There are modes for every beginning of a text.
LEMMA ModesExist ==
  ASSUME NEW t, NEW n \in Nat
  PROVE  \E f : ModesTo(f, t, n)
<1> DEFINE Bad == {k \in Nat : ~ \E f : ModesTo(f, t, k)}
<1> SUFFICES ASSUME Bad # {}
             PROVE  FALSE
  OBVIOUS
<1>1. PICK k \in Bad : \A y \in Bad : k <= y
  <2>1. Bad \subseteq Nat
    OBVIOUS
  <2> HIDE DEF Bad
  <2> QED BY <2>1, Least
<1>2. k # 0
  <2> DEFINE f == [i \in 0 .. 0 |-> "code"]
  <2>1. ModesTo(f, t, 0)
    BY DEF ModesTo, ModeName
  <2> QED BY <2>1
<1>3. k - 1 \in Nat /\ k \in Nat /\ k - 1 \notin Bad
  BY <1>1, <1>2
<1>4. PICK g : ModesTo(g, t, k - 1)
  BY <1>3
<1> DEFINE f == [i \in 0 .. k |-> IF i = k THEN After(g[k - 1], t[k]) ELSE g[i]]
<1>5. ModesTo(f, t, k)
  <2>1. /\ g \in [0 .. k - 1 -> ModeName] /\ g[0] = "code"
        /\ \A i \in 1 .. k - 1 : g[i] = After(g[i - 1], t[i])
    BY <1>4 DEF ModesTo
  <2>2. After(g[k - 1], t[k]) \in ModeName
    BY <1>3, <2>1, AfterType
  <2>3. f \in [0 .. k -> ModeName]
    BY <1>3, <2>1, <2>2
  <2>4. f[0] = "code"
    BY <1>2, <1>3, <2>1
  <2>5. ASSUME NEW i \in 1 .. k
        PROVE  f[i] = After(f[i - 1], t[i])
    <3>1. i - 1 \in 0 .. k /\ i - 1 # k /\ f[i - 1] = g[i - 1]
      BY <1>3
    <3>2. CASE i = k
      BY <1>3, <3>1, <3>2
    <3>3. CASE i # k
      <4>1. i \in 1 .. k - 1 /\ f[i] = g[i]
        BY <1>3, <3>3
      <4> QED BY <2>1, <3>1, <4>1
    <3> QED BY <3>2, <3>3
  <2> HIDE DEF f
  <2> QED BY <2>3, <2>4, <2>5 DEF ModesTo
<1>6. k \notin Bad
  BY <1>5
<1>7. QED
  BY <1>6

\* The recursive definition of Modes defines such a function.
LEMMA ModesDefined ==
  ASSUME NEW t, Len(t) \in Nat
  PROVE  ModesTo(Modes(t), t, Len(t))
<1>1. PICK f : ModesTo(f, t, Len(t))
  BY ModesExist
<1>2. f = [i \in 0 .. Len(t) |-> IF i = 0 THEN "code" ELSE After(f[i - 1], t[i])]
  <2>1. f = [i \in 0 .. Len(t) |-> f[i]]
    BY <1>1 DEF ModesTo
  <2>2. ASSUME NEW i \in 0 .. Len(t)
        PROVE  f[i] = IF i = 0 THEN "code" ELSE After(f[i - 1], t[i])
    BY <1>1 DEF ModesTo
  <2> QED BY <2>1, <2>2, Zenon
<1>3. Modes(t) = [i \in 0 .. Len(t) |->
                    IF i = 0 THEN "code" ELSE After(Modes(t)[i - 1], t[i])]
  BY <1>2, Zenon DEF Modes
<1> DEFINE m == Modes(t)
<1>4. /\ m[0] = "code"
      /\ \A i \in 1 .. Len(t) : m[i] = After(m[i - 1], t[i])
      /\ DOMAIN m = 0 .. Len(t)
  <2> HIDE DEF m
  <2>1. m = [i \in 0 .. Len(t) |-> IF i = 0 THEN "code" ELSE After(m[i - 1], t[i])]
    BY <1>3 DEF m
  <2> QED BY <2>1
<1> HIDE DEF m
<1>5. \A k \in 0 .. Len(t) : m[k] \in ModeName
  <2> DEFINE Bad == {k \in 0 .. Len(t) : m[k] \notin ModeName}
  <2> SUFFICES ASSUME Bad # {}
               PROVE  FALSE
    OBVIOUS
  <2>1. PICK k \in Bad : \A y \in Bad : k <= y
    <3>1. Bad \subseteq Nat
      OBVIOUS
    <3> HIDE DEF Bad
    <3> QED BY <3>1, Least
  <2>2. k # 0
    BY <1>4 DEF ModeName
  <2>3. k - 1 \in 0 .. Len(t) /\ k \in 1 .. Len(t) /\ k - 1 \notin Bad
    BY <2>1, <2>2
  <2>4. m[k - 1] \in ModeName
    BY <2>3
  <2>5. m[k] \in ModeName
    BY <1>4, <2>3, <2>4, AfterType
  <2> QED BY <2>5
<1>6. m \in [0 .. Len(t) -> ModeName]
  <2>1. m = [i \in 0 .. Len(t) |-> m[i]]
    BY <1>3 DEF m
  <2> QED BY <1>5, <2>1
<1>7. QED
  BY <1>4, <1>6 DEF ModesTo, m


\* The text is a sequence of characters.
TextOK == text \in Seq(Char)

\* One character moves the mode by one step.
LEMMA ModeStep ==
  ASSUME TextOK
  PROVE  /\ Len(text) \in Nat
         /\ Mode(0) = "code"
         /\ \A i \in 1 .. Len(text) : Mode(i) = After(Mode(i - 1), text[i])
<1>1. Len(text) \in Nat
  BY DEF TextOK
<1>2. ModesTo(Modes(text), text, Len(text))
  BY <1>1, ModesDefined
<1>3. QED
  BY <1>1, <1>2 DEF ModesTo, Mode

\* A run of characters that are no quotes stays in the code.
LEMMA CodeRun ==
  ASSUME TextOK, NEW i \in Nat \ {0}, NEW j \in Nat, j <= Len(text) + 1,
         Mode(i - 1) = "code",
         \A k \in i .. j - 1 : text[k] \notin {"quote", "dquote"}
  PROVE  \A k \in i - 1 .. j - 1 : Mode(k) = "code"
<1> DEFINE Bad == {k \in i - 1 .. j - 1 : Mode(k) # "code"}
<1> SUFFICES ASSUME Bad # {}
             PROVE  FALSE
  OBVIOUS
<1>0. Len(text) \in Nat
  BY ModeStep
<1>1. PICK k \in Bad : \A y \in Bad : k <= y
  <2>1. Bad \subseteq Nat
    OBVIOUS
  <2> HIDE DEF Bad
  <2> QED BY <2>1, Least
<1>2. /\ k \in Nat /\ k # i - 1 /\ k - 1 \in i - 1 .. j - 1 /\ k - 1 \notin Bad
      /\ k \in i .. j - 1 /\ k \in 1 .. Len(text)
  BY <1>0, <1>1
<1>3. Mode(k - 1) = "code"
  BY <1>2
<1>4. Mode(k) = After("code", text[k])
  BY <1>2, <1>3, ModeStep
<1>5. Mode(k) = "code"
  BY <1>2, <1>4 DEF After
<1>6. QED
  BY <1>5

\* A run of characters in a string, up to the closing quote.
LEMMA StringRun ==
  ASSUME TextOK, NEW i \in Nat \ {0}, NEW j \in Nat, j <= Len(text) + 1, i < j,
         Mode(i) = "string",
         \A k \in i + 1 .. j - 1 : text[k] # "quote"
  PROVE  \A k \in i .. j - 1 : Mode(k) = "string"
<1> DEFINE Bad == {k \in i .. j - 1 : Mode(k) # "string"}
<1> SUFFICES ASSUME Bad # {}
             PROVE  FALSE
  OBVIOUS
<1>0. Len(text) \in Nat
  BY ModeStep
<1>1. PICK k \in Bad : \A y \in Bad : k <= y
  <2>1. Bad \subseteq Nat
    OBVIOUS
  <2> HIDE DEF Bad
  <2> QED BY <2>1, Least
<1>2. /\ k \in Nat /\ k # i /\ k - 1 \in i .. j - 1 /\ k - 1 \notin Bad
      /\ k \in i + 1 .. j - 1 /\ k \in 1 .. Len(text)
  BY <1>0, <1>1
<1>3. Mode(k - 1) = "string"
  BY <1>2
<1>4. Mode(k) = After("string", text[k])
  BY <1>2, <1>3, ModeStep
<1>5. Mode(k) = "string"
  BY <1>2, <1>4 DEF After
<1>6. QED
  BY <1>5

-----------------------------------------------------------------------------
(***************************************************************************)
(* Symbols.                                                                *)
(***************************************************************************)

\* The buffer ends within the text.
LineOK == TextOK /\ end \in Nat /\ end <= Len(text) + 1

\* A character of the buffer is a character of the text, and the zero behind the
\* buffer is none.
LEMMA BufferChar ==
  ASSUME LineOK, NEW i \in Nat, buf(i) # "zero"
  PROVE  i > 0 /\ i < end /\ i \in 1 .. Len(text) /\ buf(i) = text[i] /\ text[i] \in Char
<1>1. Len(text) \in Nat
  BY DEF LineOK, TextOK
<1>2. i > 0 /\ i < end /\ buf(i) = text[i]
  BY DEF buf, LineOK
<1>3. i \in 1 .. Len(text)
  BY <1>1, <1>2 DEF LineOK
<1>4. QED
  BY <1>2, <1>3 DEF LineOK, TextOK

\* A run of characters ends in the buffer, and what comes before its end is in S.
LEMMA RunEndIs ==
  ASSUME LineOK, NEW i \in Nat, i <= end, NEW S, "zero" \notin S
  PROVE  /\ RunEnd(i, S) \in i .. end
         /\ \A k \in i .. RunEnd(i, S) - 1 : buf(k) \in S
<1> DEFINE T == {j \in i .. end : buf(j) \notin S}
<1>1. T \subseteq Nat
  BY DEF LineOK
<1>2. end \in T
  BY DEF LineOK, buf
<1>3. Min(T) \in T /\ \A y \in T : Min(T) <= y
  <2> HIDE DEF T
  <2> QED BY <1>1, <1>2, MinIsLeast
<1>4. RunEnd(i, S) = Min(T)
  BY DEF RunEnd
<1>5. ASSUME NEW k \in i .. Min(T) - 1
      PROVE  buf(k) \in S
  <2>1. k \notin T /\ k \in i .. end
    BY <1>3, <1>1 DEF LineOK
  <2> QED BY <2>1
<1>6. QED
  BY <1>3, <1>4, <1>5

\* What a symbol s found at i is good for: it starts at i, ends in the buffer, no
\* comment reaches into it, and after it the text is in the code again.
Clean(s, i) ==
  /\ s.from = i
  /\ s.to \in i .. end
  /\ \A k \in i .. s.to - 1 : k \in 1 .. Len(text) /\ ~ InComment(k)
  /\ Mode(s.to - 1) = "code"

\* A symbol made of characters that are no quotes is clean.
LEMMA PlainSymbolClean ==
  ASSUME LineOK, NEW i \in Nat \ {0}, Mode(i - 1) = "code",
         NEW n, NEW j \in i .. end,
         \A k \in i .. j - 1 : buf(k) \notin {"zero", "quote", "dquote"}
  PROVE  Clean(Symbol(n, i, j), i)
<1>0. Len(text) \in Nat /\ end \in Nat /\ end <= Len(text) + 1 /\ j \in Nat
  BY DEF LineOK, TextOK
<1>1. ASSUME NEW k \in i .. j - 1
      PROVE  /\ k \in 1 .. Len(text)
             /\ text[k] \notin {"quote", "dquote"}
  <2>1. k \in Nat /\ buf(k) \notin {"zero", "quote", "dquote"}
    BY <1>0
  <2> QED BY <2>1, BufferChar
<1>2. \A k \in i - 1 .. j - 1 : Mode(k) = "code"
  <2>1. TextOK /\ j <= Len(text) + 1
    BY <1>0 DEF LineOK
  <2>2. \A k \in i .. j - 1 : text[k] \notin {"quote", "dquote"}
    BY <1>1
  <2> QED BY <1>0, <2>1, <2>2, CodeRun
<1>3. ASSUME NEW k \in i .. j - 1
      PROVE  ~ InComment(k)
  <2>1. Mode(k - 1) = "code" /\ Mode(k) = "code"
    BY <1>0, <1>2
  <2> QED BY <2>1 DEF InComment
<1>4. Mode(j - 1) = "code"
  BY <1>0, <1>2
<1>5. QED
  BY <1>1, <1>3, <1>4 DEF Clean, Symbol

\* So is a string that is closed on its line.
LEMMA StringClean ==
  ASSUME LineOK, NEW i \in Nat \ {0}, Mode(i - 1) = "code",
         buf(i) = "quote", Closing(i) # {}
  PROVE  Clean(Symbol("STString", i, Min(Closing(i)) + 1), i)
<1> DEFINE c == Min(Closing(i))
<1>0. /\ Len(text) \in Nat /\ end \in Nat /\ end <= Len(text) + 1
      /\ i \in 1 .. Len(text) /\ text[i] = "quote"
  BY BufferChar DEF LineOK, TextOK
<1>1. Closing(i) \subseteq Nat
  BY <1>0 DEF Closing
<1>2. c \in Closing(i) /\ \A y \in Closing(i) : c <= y
  BY <1>1, MinIsLeast
<1> HIDE DEF c
<1>3. c \in i + 1 .. end - 1 /\ text[c] = "quote" /\ c \in 1 .. Len(text)
  BY <1>0, <1>2 DEF Closing
<1>4. ASSUME NEW k \in i + 1 .. c - 1
      PROVE  text[k] # "quote"
  <2>1. k \notin Closing(i) /\ k \in i + 1 .. end - 1
    BY <1>0, <1>2, <1>3
  <2> QED BY <2>1 DEF Closing
<1>5. Mode(i) = "string"
  BY <1>0, ModeStep DEF LineOK, After
<1>6. \A k \in i .. c - 1 : Mode(k) = "string"
  BY <1>0, <1>3, <1>4, <1>5, StringRun DEF LineOK
<1>7. Mode(c) = "code"
  <2>1. Mode(c - 1) = "string"
    BY <1>3, <1>6
  <2> QED BY <1>3, <2>1, ModeStep DEF LineOK, After
<1>8. ASSUME NEW k \in i .. c
      PROVE  k \in 1 .. Len(text) /\ ~ InComment(k)
  <2>1. Mode(k) \in {"string", "code"}
    BY <1>3, <1>6, <1>7
  <2>2. Mode(k - 1) \in {"string", "code"}
    BY <1>3, <1>6
  <2> QED BY <1>3, <2>1, <2>2 DEF InComment
<1>9. QED
  <2>1. c + 1 \in i .. end /\ c + 1 - 1 = c
    BY <1>0, <1>3
  <2>0. PICK s : s = Symbol("STString", i, c + 1)
    OBVIOUS
  <2>2. s.from = i /\ s.to = c + 1
    BY <2>0 DEF Symbol
  <2>6. s.to - 1 = c
    BY <1>3, <2>2
  <2>3. \A k \in i .. s.to - 1 : k \in 1 .. Len(text) /\ ~ InComment(k)
    BY <1>8, <2>6, Zenon
  <2>4. s.to \in i .. end /\ Mode(s.to - 1) = "code"
    BY <1>7, <2>1, <2>2, <2>6, Zenon
  <2>5. Clean(s, i)
    BY <2>2, <2>3, <2>4 DEF Clean
  <2> QED BY <2>0, <2>5 DEF c


\* A run of characters of S, none of them a quote, is a clean symbol, after any
\* prefix that is.
LEMMA RunClean ==
  ASSUME LineOK, NEW i \in Nat \ {0}, Mode(i - 1) = "code", NEW n,
         NEW j \in i .. end, NEW S,
         \A k \in i .. j - 1 : buf(k) \notin {"zero", "quote", "dquote"},
         \A c \in S : c \notin {"zero", "quote", "dquote"}
  PROVE  Clean(Symbol(n, i, RunEnd(j, S)), i)
<1>0. end \in Nat /\ j \in Nat /\ j <= end /\ i <= j
  BY DEF LineOK
<1>1. /\ RunEnd(j, S) \in j .. end
      /\ \A k \in j .. RunEnd(j, S) - 1 : buf(k) \in S
  BY <1>0, RunEndIs
<1>2. PICK e : e = RunEnd(j, S)
  OBVIOUS
<1>3. e \in i .. end /\ e \in Nat
  BY <1>0, <1>1, <1>2
<1>4. ASSUME NEW k \in i .. e - 1
      PROVE  buf(k) \notin {"zero", "quote", "dquote"}
  <2>1. CASE k \in i .. j - 1
    BY <2>1
  <2>2. CASE k \in j .. e - 1
    BY <1>1, <1>2, <2>2
  <2> QED BY <1>0, <1>3, <2>1, <2>2
<1>5. Clean(Symbol(n, i, e), i)
  BY <1>3, <1>4, PlainSymbolClean
<1>6. QED
  BY <1>2, <1>5

\* The symbol that GetSym builds at i, unless it is a string that is not closed.
LEMMA SymbolAtClean ==
  ASSUME LineOK, NEW i \in Nat \ {0}, i <= end, Mode(i - 1) = "code",
         ~ (buf(i) = "quote" /\ Closing(i) = {})
  PROVE  Clean(SymbolAt(i), i)
<1> DEFINE Quotes == {"zero", "quote", "dquote"}
<1>0. end \in Nat /\ i \in i .. end
  BY DEF LineOK
<1>a. ASSUME NEW n
      PROVE  Clean(Symbol(n, i, i), i)
  BY <1>0, PlainSymbolClean
<1>b. ASSUME NEW n, buf(i) \notin Quotes
      PROVE  Clean(Symbol(n, i, i + 1), i)
  <2>1. i + 1 \in i .. end
    BY <1>0, <1>b, BufferChar
  <2>2. \A k \in i .. (i + 1) - 1 : buf(k) \notin Quotes
    BY <1>b
  <2> QED BY <2>1, <2>2, PlainSymbolClean
<1>c. ASSUME NEW n, buf(i) \notin Quotes, buf(i + 1) \notin Quotes
      PROVE  Clean(Symbol(n, i, i + 2), i)
  <2>1. i + 2 \in i .. end
    BY <1>0, <1>c, BufferChar
  <2>2. ASSUME NEW k \in i .. (i + 2) - 1
        PROVE  buf(k) \notin Quotes
    <3>1. k = i \/ k = i + 1
      OBVIOUS
    <3> QED BY <1>c, <3>1
  <2> QED BY <2>1, <2>2, PlainSymbolClean
<1>d. ASSUME NEW n, NEW S, \A c \in S : c \notin Quotes
      PROVE  Clean(Symbol(n, i, RunEnd(i, S)), i)
  BY <1>0, <1>d, RunClean
<1>1. CASE buf(i) = "quote"
  <2>1. SymbolAt(i) = Symbol("STString", i, Min(Closing(i)) + 1)
    BY <1>1 DEF SymbolAt, isop, Operators
  <2> QED BY <1>1, <2>1, StringClean
<1>2. CASE buf(i) = "bracket"
  <2>1. SymbolAt(i) = Symbol("Bracket", i, i + 1)
    BY <1>2 DEF SymbolAt, isop, Operators
  <2> QED BY <1>2, <1>b, <2>1
<1>3. CASE buf(i) = "colon"
  <2>1. SymbolAt(i) = IF buf(i + 1) = "equals"
                        THEN Symbol("Assign", i, i + 2) ELSE Symbol("Colon", i, i + 1)
    BY <1>3 DEF SymbolAt, isop, Operators
  <2> QED BY <1>3, <1>b, <1>c, <2>1
<1>4. CASE buf(i) = "dash"
  <2>1. \/ SymbolAt(i) = Symbol("Separator", i, RunEnd(i, {"dash"}))
        \/ SymbolAt(i) = Symbol("Minus", i, i + 1)
    BY <1>4, Zenon DEF SymbolAt, isop, Operators
  <2> QED BY <1>4, <1>b, <1>d, <2>1
<1>5. CASE isop(buf(i))
  <2>1. \/ SymbolAt(i) = Symbol("OperatorSequence", i, RunEnd(i, Operators))
        \/ SymbolAt(i) = Symbol("Operator", i, i + 1)
    BY <1>5, Zenon DEF SymbolAt, isop, Operators
  <2> QED BY <1>5, <1>b, <1>d, <2>1 DEF isop, Operators
<1>6. CASE buf(i) = "primitive"
  <2>1. SymbolAt(i) = Symbol("Primitive", i, i + 1)
    BY <1>6 DEF SymbolAt, isop, Operators
  <2> QED BY <1>6, <1>b, <2>1
<1>7. CASE buf(i) = "letter"
  <2>1. SymbolAt(i) = IdentifierTo(i, RunEnd(i, Word))
    BY <1>7 DEF SymbolAt, isop, Operators
  <2>2. PICK j : j = RunEnd(i, Word)
    OBVIOUS
  <2>3. "zero" \notin Word /\ \A c \in Word : c \notin Quotes
    BY DEF Word
  <2>4. j \in i .. end /\ \A k \in i .. j - 1 : buf(k) \in Word
    BY <1>0, <2>2, <2>3, RunEndIs
  <2>5. \A k \in i .. j - 1 : buf(k) \notin Quotes
    BY <2>3, <2>4
  <2>6. CASE buf(j) # "colon"
    <3>1. SymbolAt(i) = Symbol("Identifier", i, j)
      BY <2>1, <2>2, <2>6 DEF IdentifierTo
    <3> QED BY <2>4, <2>5, <3>1, PlainSymbolClean
  <2>7. CASE buf(j) = "colon"
    <3>1. j \in Nat /\ j + 1 \in i .. end
      <4>1. j \in Nat
        BY <2>4
      <4>2. j < end
        BY <2>7, <4>1, BufferChar
      <4> QED BY <1>0, <2>4, <4>1, <4>2
    <3>2. ASSUME NEW k \in i .. (j + 1) - 1
          PROVE  buf(k) \notin Quotes
      <4>1. k \in i .. j - 1 \/ k = j
        BY <3>1
      <4> QED BY <2>5, <2>7, <4>1
    <3>3. CASE isalpha(buf(j + 1))
      <4>1. SymbolAt(i) = Symbol("KeywordSequence", i,
                                 RunEnd(j + 1, {"letter", "primitive", "colon"}))
        BY <2>1, <2>2, <2>7, <3>3 DEF IdentifierTo
      <4> QED BY <3>1, <3>2, <4>1, RunClean
    <3>4. CASE ~ isalpha(buf(j + 1))
      <4>1. SymbolAt(i) = Symbol("Keyword", i, j + 1)
        BY <2>1, <2>2, <2>7, <3>4 DEF IdentifierTo
      <4> QED BY <3>1, <3>2, <4>1, PlainSymbolClean
    <3> QED BY <3>3, <3>4
  <2> QED BY <2>6, <2>7
<1>8. CASE buf(i) = "digit"
  <2>1. SymbolAt(i) = Symbol("Integer", i, RunEnd(i, {"digit"}))
    BY <1>8 DEF SymbolAt, isop, Operators
  <2> QED BY <1>8, <1>d, <2>1
<1>9. CASE buf(i) \notin {"quote", "bracket", "colon", "dash", "equals", "operator",
                          "primitive", "letter", "digit"}
  <2>1. SymbolAt(i) = Symbol("NONE", i, i)
    BY <1>9 DEF SymbolAt, isop, Operators
  <2> QED BY <1>a, <2>1
<1>10. QED
  BY <1>1, <1>2, <1>3, <1>4, <1>5, <1>6, <1>7, <1>8, <1>9 DEF isop, Operators


-----------------------------------------------------------------------------
(***************************************************************************)
(* The invariant.                                                          *)
(***************************************************************************)
EndsLine == text # << >> /\ text[Len(text)] = "newline"

\* The buffer is a line of the text: it ends at a newline, or at the end of the
\* text when that was met, and no newline is left in it.
Buffer ==
  /\ LineOK
  /\ bufp \in Nat /\ bufp <= end
  /\ good \in BOOLEAN
  /\ good => end <= Len(text) /\ (end > 0 => text[end] = "newline")
  /\ ~ good => end = Len(text) + 1
  /\ end > 0 => bufp > 0
  /\ \A i \in Nat \ {0} : bufp <= i /\ i < end => text[i] # "newline"
  /\ ~ good /\ EndsLine => bufp > Len(text)

\* A symbol read ahead is taken before anything else is read, and the loop is left
\* only in front of a symbol or at the end of the file.
Control ==
  /\ pc \notin {"idle", "fill", "overrun"} => end > 0
  /\ peekDone => pc = "idle"
  /\ pc = "scan" => ~ MoreToSkip

\* From a up to b there is only white space and comments.
Gap(a, b) ==
  \A i \in DOMAIN text : a <= i /\ i < b => InComment(i) \/ Blank(i)

\* What NothingLost and NoneMeansEnd say of a symbol s whose predecessor ended
\* before a.
Good(a, s) ==
  /\ Gap(a, s.from)
  /\ \A i \in DOMAIN text : s.from <= i /\ i < s.to => ~ InComment(i)
  /\ s.sym = "NONE" /\ EndsLine => s.from > Len(text) \/ text[s.from] = "underscore"

\* Where the last symbol that was read ended.
Last == IF peekDone THEN next.to ELSE cur.to

\* The loop the lexer is in tells the mode of the text it has read.
Position ==
  pc # "overrun" =>
    /\ Gap(Last, bufp)
    /\ bufp > 0 => Mode(bufp - 1) = IF pc = "inside" THEN "comment" ELSE "code"

Delivered ==
  /\ Good(prev, cur)
  /\ peekDone => Good(cur.to, next)

LInv == Buffer /\ Control /\ Position /\ Delivered

-----------------------------------------------------------------------------
(***************************************************************************)
(* One lemma per way in which the lexer moves on.                          *)
(***************************************************************************)

\* A new line follows the newline at the end of the buffer.
LEMMA NextLine ==
  ASSUME Buffer, good, fillBuffer, text' = text
  PROVE  /\ Buffer' /\ end' > 0
         /\ bufp' = end + 1
         /\ end > 0 => end \in 1 .. Len(text) /\ text[end] = "newline"
<1> DEFINE N == {i \in DOMAIN text : i > end /\ text[i] = "newline"}
<1>0. /\ text \in Seq(Char) /\ Len(text) \in Nat /\ end \in Nat /\ end <= Len(text)
      /\ end > 0 => text[end] = "newline"
      /\ DOMAIN text = 1 .. Len(text)
  BY DEF Buffer, LineOK, TextOK
<1>1. /\ end' = IF N = {} THEN Len(text) + 1 ELSE Min(N)
      /\ good' = (N # {})
      /\ bufp' = end + 1
  BY DEF fillBuffer
<1>2. N \subseteq Nat
  BY <1>0
<1>3. N # {} => Min(N) \in N /\ \A y \in N : Min(N) <= y
  <2> HIDE DEF N
  <2> QED BY <1>2, MinIsLeast
<1>4. \A i \in Nat : i \in N <=> i \in 1 .. Len(text) /\ i > end /\ text[i] = "newline"
  BY <1>0
<1> HIDE DEF N
<1>5. CASE N = {}
  <2>1. end' = Len(text) + 1 /\ good' = FALSE
    BY <1>1, <1>5
  <2>2. ASSUME NEW i \in Nat \ {0}, end + 1 <= i, i < Len(text) + 1
        PROVE  text[i] # "newline"
    BY <1>0, <1>4, <1>5, <2>2
  <2>3. EndsLine => end + 1 > Len(text)
    <3>1. EndsLine => Len(text) \in 1 .. Len(text) /\ text[Len(text)] = "newline"
      BY <1>0 DEF EndsLine
    <3> QED BY <1>0, <1>4, <1>5, <3>1
  <2>4. LineOK'
    BY <1>0, <2>1 DEF LineOK, TextOK
  <2>5. EndsLine' = EndsLine
    BY DEF EndsLine
  <2>6. \A i \in Nat \ {0} : bufp' <= i /\ i < end' => text'[i] # "newline"
    BY <1>1, <2>1, <2>2
  <2> QED BY <1>0, <1>1, <2>1, <2>3, <2>4, <2>5, <2>6 DEF Buffer
<1>6. CASE N # {}
  <2>1. PICK e : e = Min(N)
    OBVIOUS
  <2>2. /\ end' = e /\ good' = TRUE
        /\ e \in 1 .. Len(text) /\ e > end /\ text[e] = "newline"
    BY <1>1, <1>2, <1>3, <1>4, <1>6, <2>1
  <2>3. ASSUME NEW i \in Nat \ {0}, end + 1 <= i, i < e
        PROVE  text[i] # "newline"
    <3>1. i \in 1 .. Len(text) /\ i > end /\ ~ (e <= i)
      BY <1>0, <2>2, <2>3
    <3>2. i \notin N
      BY <1>3, <1>6, <2>1, <3>1
    <3> QED BY <1>4, <3>1, <3>2
  <2>4. LineOK'
    BY <1>0, <2>2 DEF LineOK, TextOK
  <2>6. \A i \in Nat \ {0} : bufp' <= i /\ i < end' => text'[i] # "newline"
    BY <1>1, <2>2, <2>3
  <2> QED BY <1>0, <1>1, <2>2, <2>4, <2>6 DEF Buffer
<1>7. QED
  BY <1>5, <1>6

\* The next character of the same line.
LEMMA NextChar ==
  ASSUME Buffer, bufp < end, NEW b \in Nat, bufp <= b, b <= end,
         bufp' = b, UNCHANGED <<text, end, good>>
  PROVE  Buffer'
<1>0. /\ LineOK /\ bufp \in Nat /\ end \in Nat /\ Len(text) \in Nat
  BY DEF Buffer, LineOK, TextOK
<1>1. LineOK' /\ EndsLine' = EndsLine
  BY <1>0 DEF LineOK, TextOK, EndsLine
<1>2. \A i \in Nat \ {0} : bufp' <= i /\ i < end' => text'[i] # "newline"
  BY <1>0 DEF Buffer
<1>3. QED
  BY <1>0, <1>1, <1>2 DEF Buffer

\* bufp++ within a line, or on to the next line.
LEMMA AdvanceMoves ==
  ASSUME Buffer, end > 0, Advance, bufp < end \/ good, text' = text
  PROVE  /\ Buffer' /\ end' > 0 /\ bufp' > 0
         /\ \/ bufp < end /\ bufp' = bufp + 1
            \/ /\ bufp' = end + 1 /\ bufp \in {end - 1, end}
               /\ end \in 1 .. Len(text) /\ text[end] = "newline"
<1>0. bufp \in Nat \ {0} /\ end \in Nat /\ bufp <= end
  BY DEF Buffer, LineOK
<1>1. CASE bufp + 1 >= end /\ good
  <2>1. fillBuffer
    BY <1>1 DEF Advance
  <2>2. /\ Buffer' /\ end' > 0 /\ bufp' = end + 1
        /\ end \in 1 .. Len(text) /\ text[end] = "newline"
    BY <1>1, <2>1, NextLine
  <2> QED BY <1>0, <1>1, <2>2
<1>2. CASE ~ (bufp + 1 >= end /\ good)
  <2>1. bufp' = bufp + 1 /\ UNCHANGED <<end, good>>
    BY <1>2, Zenon DEF Advance
  <2>2. bufp < end
    BY <1>0, <1>2
  <2>3. Buffer'
    BY <1>0, <2>1, <2>2, NextChar
  <2> QED BY <1>0, <2>1, <2>2, <2>3
<1>3. QED
  BY <1>1, <1>2


\* A stretch of white space or comment extends the gap.
LEMMA GapExtends ==
  ASSUME Buffer, NEW a, NEW c \in Nat, Gap(a, bufp), text' = text,
         \A k \in 1 .. Len(text) : bufp <= k /\ k < c => InComment(k) \/ Blank(k)
  PROVE  Gap(a, c)'
<1>1. /\ \A i : InComment(i)' = InComment(i)
      /\ \A i : Blank(i)' = Blank(i)
  BY DEF InComment, Blank, Mode
<1>2. DOMAIN text = 1 .. Len(text) /\ Len(text) \in Nat /\ bufp \in Nat
  BY DEF Buffer, LineOK, TextOK
<1>3. ASSUME NEW i \in 1 .. Len(text), a <= i, i < c
      PROVE  InComment(i) \/ Blank(i)
  BY <1>2, <1>3 DEF Gap
<1>4. QED
  BY <1>1, <1>2, <1>3 DEF Gap

\* What was delivered stays good while the text is the same.
LEMMA GoodStays ==
  ASSUME NEW a, NEW s, Good(a, s), text' = text
  PROVE  Good(a, s)'
BY DEF Good, Gap, InComment, Blank, Mode, EndsLine

\* A step of GetSym that delivers nothing and reads some characters.
LEMMA SkipStep ==
  ASSUME LInv, pc # "overrun", UNCHANGED others,
         Buffer', Control',
         pc' # "overrun" =>
           /\ \A k \in 1 .. Len(text) : bufp <= k /\ k < bufp' => InComment(k) \/ Blank(k)
           /\ bufp' > 0 =>
                Mode(bufp' - 1) = IF pc' = "inside" THEN "comment" ELSE "code"
  PROVE  LInv'
<1>0. UNCHANGED <<text, peekDone, next, cur, prev>> /\ bufp' \in Nat
  BY DEF others, Buffer
<1>1. Delivered'
  <2>1. Good(prev, cur)'
    <3>1. PICK a, s : a = prev /\ s = cur
      OBVIOUS
    <3>2. Good(a, s)'
      BY <1>0, <3>1, GoodStays DEF LInv, Delivered
    <3> QED BY <1>0, <3>1, <3>2
  <2>2. peekDone => Good(cur.to, next)'
    <3>1. PICK a, s : a = cur.to /\ s = next
      OBVIOUS
    <3>2. peekDone => Good(a, s)'
      BY <1>0, <3>1, GoodStays DEF LInv, Delivered
    <3> QED BY <1>0, <3>1, <3>2
  <2> QED BY <1>0, <2>1, <2>2 DEF Delivered
<1>2. ASSUME pc' # "overrun"
      PROVE  Gap(Last, bufp)'
  <2>1. PICK a, c : a = Last /\ c = bufp'
    OBVIOUS
  <2>2. Gap(a, bufp) /\ c \in Nat
    BY <1>0, <2>1 DEF LInv, Position
  <2>3. Gap(a, c)'
    BY <1>0, <1>2, <2>1, <2>2, GapExtends DEF LInv
  <2>4. a = Last'
    BY <1>0, <2>1 DEF Last
  <2> QED BY <2>1, <2>3, <2>4
<1>3. ASSUME pc' # "overrun", bufp' > 0
      PROVE  (Mode(bufp - 1) = IF pc = "inside" THEN "comment" ELSE "code")'
  <2>1. Mode(bufp - 1)' = Modes(text)[bufp' - 1] /\ Mode(bufp' - 1) = Modes(text)[bufp' - 1]
    BY <1>0 DEF Mode
  <2> QED BY <1>3, <2>1
<1>4. QED
  BY <1>1, <1>2, <1>3 DEF LInv, Position


\* Facts about the character at bufp and the one at the end of the line.
LEMMA Reading ==
  ASSUME Buffer
  PROVE  /\ TextOK /\ Len(text) \in Nat /\ end \in Nat /\ bufp \in Nat /\ bufp <= end
         /\ BC # "zero" => /\ bufp \in 1 .. Len(text) /\ bufp < end
                           /\ BC = text[bufp] /\ BC \in Char /\ BC # "newline"
         /\ bufp > 0 /\ bufp < end => bufp \in 1 .. Len(text) /\ BC = text[bufp]
<1>1. TextOK /\ LineOK /\ Len(text) \in Nat /\ end \in Nat /\ bufp \in Nat /\ bufp <= end
  BY DEF Buffer, LineOK, TextOK
<1>2. BC # "zero" => /\ bufp > 0 /\ bufp < end /\ bufp \in 1 .. Len(text)
                     /\ BC = text[bufp] /\ BC \in Char
  BY <1>1, BufferChar DEF BC
<1>3. BC # "zero" => BC # "newline"
  BY <1>1, <1>2 DEF Buffer
<1>4. bufp > 0 /\ bufp < end => bufp \in 1 .. Len(text) /\ BC = text[bufp]
  BY <1>1 DEF BC, buf, LineOK
<1>5. QED
  BY <1>1, <1>2, <1>3, <1>4

\* Skipping one character of mode m, and the end of the line with it if it is the
\* last one.
LEMMA SkipChar ==
  ASSUME Buffer, end > 0, Advance, bufp < end \/ good, text' = text,
         NEW m \in {"code", "comment"},
         bufp < end => Mode(bufp) = m /\ (InComment(bufp) \/ Blank(bufp)),
         bufp = end => Mode(bufp - 1) = m
  PROVE  /\ Buffer' /\ end' > 0 /\ bufp' > 0
         /\ \A k \in 1 .. Len(text) : bufp <= k /\ k < bufp' => InComment(k) \/ Blank(k)
         /\ Mode(bufp' - 1) = m
<1>0. /\ TextOK /\ Len(text) \in Nat /\ end \in Nat /\ bufp \in Nat /\ bufp <= end
  BY Reading
<1>1. /\ Buffer' /\ end' > 0 /\ bufp' > 0
      /\ \/ bufp < end /\ bufp' = bufp + 1
         \/ /\ bufp' = end + 1 /\ bufp \in {end - 1, end}
            /\ end \in 1 .. Len(text) /\ text[end] = "newline"
  BY AdvanceMoves
<1>2. CASE bufp < end /\ bufp' = bufp + 1
  <2>1. bufp' - 1 = bufp
    BY <1>0, <1>2
  <2>2. \A k \in 1 .. Len(text) : bufp <= k /\ k < bufp' => k = bufp
    BY <1>0, <1>2
  <2> QED BY <1>1, <1>2, <2>1, <2>2
<1>3. CASE /\ bufp' = end + 1 /\ bufp \in {end - 1, end}
           /\ end \in 1 .. Len(text) /\ text[end] = "newline"
  <2>1. bufp' - 1 = end
    BY <1>0, <1>3
  <2>2. Mode(end - 1) = m
    <3>1. CASE bufp = end
      BY <3>1
    <3>2. CASE bufp = end - 1
      BY <1>0, <3>2
    <3> QED BY <1>3, <3>1, <3>2
  <2>3. Mode(end) = m
    BY <1>0, <1>3, <2>2, ModeStep DEF After
  <2>4. InComment(end) \/ Blank(end)
    BY <1>3, <2>3 DEF InComment, Blank
  <2>5. \A k \in 1 .. Len(text) : bufp <= k /\ k < bufp' =>
          k = end \/ (k = bufp /\ bufp < end)
    BY <1>0, <1>3
  <2> QED BY <1>1, <2>1, <2>3, <2>4, <2>5
<1>4. QED
  BY <1>1, <1>2, <1>3

\* beginLoop fetches a line when the old one is used up.
LEMMA BeginLoopLInv ==
  ASSUME LInv, beginLoop
  PROVE  LInv'
<1>0. /\ pc = "fill" /\ pc' = "white" /\ UNCHANGED others /\ text' = text
      /\ UNCHANGED <<peekDone>>
  BY DEF beginLoop, others
<1>1. /\ TextOK /\ Len(text) \in Nat /\ end \in Nat /\ bufp \in Nat /\ bufp <= end
      /\ Buffer /\ good \in BOOLEAN
  BY Reading DEF LInv, Buffer
<1>2. bufp > 0 => Mode(bufp - 1) = "code"
  BY <1>0 DEF LInv, Position
<1>3. CASE EOB /\ good
  <2>1. bufp = end /\ fillBuffer
    BY <1>1, <1>3 DEF EOB, beginLoop
  <2>2. /\ Buffer' /\ end' > 0 /\ bufp' = end + 1
        /\ end > 0 => end \in 1 .. Len(text) /\ text[end] = "newline"
    BY <1>0, <1>1, <1>3, <2>1, NextLine
  <2>3. Mode(end) = "code"
    <3>1. CASE end = 0
      BY <1>1, <3>1, ModeStep
    <3>2. CASE end > 0
      BY <1>1, <1>2, <2>1, <2>2, <3>2, ModeStep DEF After
    <3> QED BY <1>1, <3>1, <3>2
  <2>4. ASSUME NEW k \in 1 .. Len(text), bufp <= k, k < bufp'
        PROVE  Blank(k)
    <3>1. k = end /\ end > 0
      BY <1>1, <2>1, <2>2, <2>4
    <3> QED BY <2>2, <2>3, <3>1 DEF Blank
  <2>5. bufp' - 1 = end
    BY <1>1, <2>2
  <2>6. Control'
    BY <1>0, <2>2 DEF LInv, Control
  <2> QED BY <1>0, <2>2, <2>3, <2>4, <2>5, <2>6, SkipStep
<1>4. CASE ~ (EOB /\ good)
  <2>1. UNCHANGED <<end, bufp, good>>
    BY <1>4, Zenon DEF beginLoop, fillBuffer
  <2>2. Buffer'
    BY <1>0, <1>1, <2>1 DEF Buffer, LineOK, TextOK, EndsLine
  <2>3. end' > 0
    BY <1>1, <1>4, <2>1 DEF EOB, Buffer
  <2>4. Control'
    BY <1>0, <2>3 DEF LInv, Control
  <2>5. \A k \in 1 .. Len(text) : ~ (bufp <= k /\ k < bufp')
    BY <1>1, <2>1
  <2> QED BY <1>0, <1>2, <2>1, <2>2, <2>4, <2>5, SkipStep
<1>5. QED
  BY <1>3, <1>4

\* The loops that skip, and the test that ends them.
LEMMA SkipLInv ==
  ASSUME LInv, skipWhiteSpace \/ skipComment \/ insideComment \/ endLoop
  PROVE  LInv'
<1>0. /\ UNCHANGED others /\ text' = text /\ peekDone' = peekDone
      /\ pc \in {"white", "comment", "inside", "test"} /\ end > 0 /\ ~ peekDone
  BY DEF skipWhiteSpace, skipComment, insideComment, endLoop, others, LInv, Control
<1>1. /\ Buffer /\ TextOK /\ Len(text) \in Nat /\ end \in Nat /\ bufp \in Nat
      /\ bufp <= end /\ bufp > 0 /\ good \in BOOLEAN
  BY <1>0, Reading DEF LInv, Buffer
<1>2. Mode(bufp - 1) = IF pc = "inside" THEN "comment" ELSE "code"
  BY <1>0, <1>1 DEF LInv, Position
<1>3. BC # "zero" => bufp \in 1 .. Len(text) /\ bufp < end /\ BC = text[bufp]
                     /\ Mode(bufp) = After(Mode(bufp - 1), BC)
  BY <1>1, Reading, ModeStep
<1>a. ASSUME UNCHANGED <<end, bufp, good>>, pc' \in {"comment", "test", "fill", "scan"},
             pc # "inside", pc' = "scan" => ~ MoreToSkip
      PROVE  LInv'
  <2>1. Buffer'
    BY <1>0, <1>1, <1>a DEF Buffer, LineOK, TextOK, EndsLine
  <2>2. MoreToSkip' = MoreToSkip
    BY <1>0, <1>a DEF MoreToSkip, EOB, BC, buf, isspace
  <2>3. Control'
    BY <1>0, <1>a, <2>2 DEF Control
  <2>4. \A k \in 1 .. Len(text) : ~ (bufp <= k /\ k < bufp')
    BY <1>1, <1>a
  <2> QED BY <1>0, <1>2, <1>a, <2>1, <2>3, <2>4, SkipStep
<1>b. ASSUME NEW m \in {"code", "comment"}, Advance, bufp < end \/ good,
             bufp < end => Mode(bufp) = m /\ (InComment(bufp) \/ Blank(bufp)),
             bufp = end => Mode(bufp - 1) = m,
             pc' \in {"white", "inside"}, pc' = "inside" <=> m = "comment"
      PROVE  LInv'
  <2>1. /\ Buffer' /\ end' > 0 /\ bufp' > 0
        /\ \A k \in 1 .. Len(text) :
             bufp <= k /\ k < bufp' => InComment(k) \/ Blank(k)
        /\ Mode(bufp' - 1) = m
    BY <1>0, <1>1, <1>b, SkipChar
  <2>2. Control'
    BY <1>0, <1>b, <2>1 DEF Control
  <2> QED BY <1>0, <1>b, <2>1, <2>2, SkipStep
<1>4. CASE skipWhiteSpace
  <2>0. pc = "white"
    BY <1>4 DEF skipWhiteSpace
  <2>1. CASE isspace(BC)
    <3>1. Advance /\ pc' = "white" /\ BC = "space"
      BY <1>4, <2>1 DEF skipWhiteSpace, isspace
    <3>2. bufp < end /\ text[bufp] = "space" /\ Mode(bufp) = "code"
      BY <1>2, <1>3, <2>0, <3>1 DEF After
    <3>3. Blank(bufp)
      BY <3>2 DEF Blank
    <3> QED BY <1>1, <1>b, <3>1, <3>2, <3>3
  <2>2. CASE ~ isspace(BC)
    BY <1>4, <1>a, <2>0, <2>2 DEF skipWhiteSpace
  <2> QED BY <2>1, <2>2
<1>5. CASE skipComment
  <2>0. pc = "comment"
    BY <1>5 DEF skipComment
  <2>1. CASE BC = "dquote"
    <3>1. Advance /\ pc' = "inside"
      BY <1>5, <2>1 DEF skipComment
    <3>2. bufp < end /\ Mode(bufp) = "comment"
      BY <1>2, <1>3, <2>0, <2>1 DEF After
    <3>3. InComment(bufp)
      BY <3>2 DEF InComment
    <3> QED BY <1>1, <1>b, <3>1, <3>2, <3>3
  <2>2. CASE BC # "dquote"
    BY <1>5, <1>a, <2>0, <2>2 DEF skipComment
  <2> QED BY <2>1, <2>2
<1>6. CASE insideComment
  <2>0. pc = "inside" /\ Mode(bufp - 1) = "comment"
    BY <1>2, <1>6 DEF insideComment
  <2>1. CASE BC = "dquote"
    <3>1. bufp' = bufp + 1 /\ pc' = "test" /\ UNCHANGED <<end, good>>
      BY <1>6, <2>1 DEF insideComment
    <3>2. bufp < end /\ Mode(bufp) = "code"
      BY <1>3, <2>0, <2>1 DEF After
    <3>3. InComment(bufp)
      BY <2>0 DEF InComment
    <3>4. Buffer'
      BY <1>0, <1>1, <3>1, <3>2, NextChar
    <3>5. \A k \in 1 .. Len(text) : bufp <= k /\ k < bufp' => k = bufp
      BY <1>1, <3>1
    <3>6. bufp' - 1 = bufp
      BY <1>1, <3>1
    <3>7. Control'
      BY <1>0, <3>1 DEF Control
    <3> QED BY <1>0, <2>0, <3>1, <3>2, <3>3, <3>4, <3>5, <3>6, <3>7, SkipStep
  <2>2. CASE BC # "dquote" /\ EOB /\ ~ good
    <3>1. pc' = "overrun" /\ UNCHANGED <<end, bufp, good>>
      BY <1>6, <2>2 DEF insideComment
    <3>2. Buffer'
      BY <1>0, <1>1, <3>1 DEF Buffer, LineOK, TextOK, EndsLine
    <3>3. Control'
      BY <1>0, <3>1 DEF Control
    <3> QED BY <1>0, <2>0, <3>1, <3>2, <3>3, SkipStep
  <2>3. CASE BC # "dquote" /\ ~ (EOB /\ ~ good)
    <3>1. Advance /\ pc' = "inside"
      BY <1>6, <2>0, <2>3 DEF insideComment
    <3>2. bufp < end \/ good
      BY <1>1, <2>3 DEF EOB
    <3>3. bufp < end => Mode(bufp) = "comment" /\ InComment(bufp)
      <4>1. bufp < end => bufp \in 1 .. Len(text) /\ BC = text[bufp]
        BY <1>1, Reading
      <4>2. bufp < end => Mode(bufp) = "comment"
        BY <1>1, <2>0, <2>3, <4>1, ModeStep DEF After
      <4> QED BY <2>0, <4>2 DEF InComment
    <3> QED BY <1>b, <2>0, <3>1, <3>2, <3>3
  <2> QED BY <2>1, <2>2, <2>3
<1>7. CASE endLoop
  <2>1. /\ pc = "test" /\ pc' = IF MoreToSkip THEN "fill" ELSE "scan"
        /\ UNCHANGED <<end, bufp, good>>
    BY <1>7 DEF endLoop
  <2> QED BY <1>a, <2>1
<1>8. QED
  BY <1>4, <1>5, <1>6, <1>7


\* NONE is made only of a character that starts no symbol.
LEMMA NoneAt ==
  ASSUME NEW i, SymbolAt(i).sym = "NONE"
  PROVE  buf(i) \notin {"quote", "bracket", "colon", "dash", "equals", "operator",
                        "primitive", "letter", "digit"}
<1>a. \A n, j, k : Symbol(n, j, k).sym = n
  BY DEF Symbol
<1>1. \A j : IdentifierTo(i, j).sym \in {"Identifier", "KeywordSequence", "Keyword"}
  BY <1>a DEF IdentifierTo
<1>2. CASE buf(i) = "quote"
  BY <1>a, <1>2 DEF SymbolAt, isop, Operators
<1>3. CASE buf(i) = "bracket"
  BY <1>a, <1>3 DEF SymbolAt, isop, Operators
<1>4. CASE buf(i) = "colon"
  BY <1>a, <1>4 DEF SymbolAt, isop, Operators
<1>5. CASE buf(i) = "dash"
  <2>1. \/ SymbolAt(i) = Symbol("Separator", i, RunEnd(i, {"dash"}))
        \/ SymbolAt(i) = Symbol("Minus", i, i + 1)
    BY <1>5, Zenon DEF SymbolAt, isop, Operators
  <2> QED BY <1>a, <2>1
<1>6. CASE isop(buf(i))
  <2>1. \/ SymbolAt(i) = Symbol("OperatorSequence", i, RunEnd(i, Operators))
        \/ SymbolAt(i) = Symbol("Operator", i, i + 1)
    BY <1>6, Zenon DEF SymbolAt, isop, Operators
  <2> QED BY <1>a, <2>1
<1>7. CASE buf(i) = "primitive"
  BY <1>a, <1>7 DEF SymbolAt, isop, Operators
<1>8. CASE buf(i) = "letter"
  BY <1>1, <1>8 DEF SymbolAt, isop, Operators
<1>9. CASE buf(i) = "digit"
  BY <1>a, <1>9 DEF SymbolAt, isop, Operators
<1>10. QED
  BY <1>2, <1>3, <1>4, <1>5, <1>6, <1>7, <1>8, <1>9 DEF isop, Operators

\* The symbol that scan reads is good after the last one.
LEMMA ScannedGood ==
  ASSUME LInv, pc = "scan", ~ (BC = "quote" /\ Closing(bufp) = {})
  PROVE  Clean(SymbolAt(bufp), bufp) /\ Good(cur.to, SymbolAt(bufp))
<1>0. /\ Buffer /\ LineOK /\ TextOK /\ Len(text) \in Nat /\ end \in Nat
      /\ bufp \in Nat \ {0} /\ bufp <= end /\ good \in BOOLEAN
      /\ DOMAIN text = 1 .. Len(text)
  BY Reading DEF LInv, Control, Buffer, TextOK
<1>1. Mode(bufp - 1) = "code" /\ ~ peekDone /\ Gap(cur.to, bufp) /\ ~ MoreToSkip
  BY <1>0 DEF LInv, Position, Control, Last
<1>2. PICK s : s = SymbolAt(bufp)
  OBVIOUS
<1>3. Clean(s, bufp)
  BY <1>0, <1>1, <1>2, SymbolAtClean DEF BC
<1>4. s.from = bufp /\ s.to \in bufp .. end
  BY <1>3 DEF Clean
<1>5. ASSUME NEW k \in DOMAIN text, s.from <= k, k < s.to
      PROVE  ~ InComment(k)
  <2>1. k \in bufp .. s.to - 1
    BY <1>0, <1>4, <1>5
  <2> QED BY <1>3, <2>1 DEF Clean
<1>6. ASSUME s.sym = "NONE", EndsLine, ~ (bufp > Len(text))
      PROVE  text[bufp] = "underscore"
  <2>1. good
    BY <1>0, <1>6 DEF Buffer
  <2>2. bufp < end /\ BC # "space" /\ BC # "dquote"
    BY <1>0, <1>1, <2>1 DEF MoreToSkip, EOB, isspace
  <2>3. BC = text[bufp] /\ bufp \in 1 .. Len(text)
    BY <1>0, <2>2, Reading
  <2>4. BC \in Char
    BY <1>0, <2>3 DEF TextOK
  <2>5. BC # "newline"
    BY <1>0, <2>4, Reading DEF Char
  <2>6. BC \notin {"quote", "bracket", "colon", "dash", "equals", "operator",
                   "primitive", "letter", "digit"}
    BY <1>2, <1>6, NoneAt DEF BC
  <2> QED BY <2>2, <2>3, <2>4, <2>5, <2>6 DEF Char
<1>7. Good(cur.to, s)
  BY <1>1, <1>4, <1>5, <1>6 DEF Good
<1>8. QED
  BY <1>2, <1>3, <1>7

\* scan hands its symbol to the parser or to Peek.
LEMMA ScanLInv ==
  ASSUME LInv, scan
  PROVE  LInv'
<1>0. /\ Buffer /\ LineOK /\ TextOK /\ Len(text) \in Nat /\ end \in Nat
      /\ bufp \in Nat \ {0} /\ bufp <= end /\ good \in BOOLEAN /\ end > 0
      /\ pc = "scan" /\ ~ peekDone /\ UNCHANGED <<text, end, good>>
  BY Reading DEF LInv, Control, Buffer, scan
<1>a. LineOK' /\ EndsLine' = EndsLine
  BY <1>0 DEF LineOK, TextOK, EndsLine
<1>1. CASE BC = "quote" /\ Closing(bufp) = {}
  <2>1. pc' = "overrun" /\ UNCHANGED <<bufp, peeking, peekDone, next, cur, prev>>
    BY <1>1 DEF scan
  <2>2. Buffer'
    BY <1>0, <1>a, <2>1 DEF Buffer
  <2>3. Control'
    BY <1>0, <2>1 DEF Control
  <2> QED BY <1>0, <2>1, <2>2, <2>3, SkipStep DEF others
<1>2. CASE ~ (BC = "quote" /\ Closing(bufp) = {})
  <2>1. PICK s : s = SymbolAt(bufp)
    OBVIOUS
  <2>2. /\ bufp' = s.to /\ pc' = "idle"
        /\ \/ /\ next' = s /\ peekDone' = TRUE /\ UNCHANGED <<cur, prev>>
           \/ /\ cur' = s /\ prev' = cur.to /\ peekDone' = peekDone
    BY <1>2, <2>1 DEF scan
  <2>3. Clean(s, bufp) /\ Good(cur.to, s)
    BY <1>0, <1>2, <2>1, ScannedGood
  <2>4. bufp' \in bufp .. end /\ Mode(bufp' - 1) = "code"
    BY <2>2, <2>3 DEF Clean
  <2>5. Buffer'
    <3>1. bufp' \in Nat /\ bufp' <= end' /\ bufp <= bufp'
      BY <1>0, <2>4
    <3>2. \A i \in Nat \ {0} : bufp' <= i /\ i < end' => text'[i] # "newline"
      BY <1>0, <3>1 DEF Buffer
    <3> QED BY <1>0, <1>a, <3>1, <3>2 DEF Buffer
  <2>6. Control'
    BY <2>2 DEF Control
  <2>7. Mode(bufp - 1)' = "code"
    BY <1>0, <2>4 DEF Mode
  <2>8. Last' = bufp'
    BY <1>0, <2>2 DEF Last
  <2>9. Gap(Last, bufp)'
    <3>1. \A k \in 1 .. Len(text) : ~ (bufp' <= k /\ k < bufp')
      BY <1>0, <2>4
    <3> QED BY <1>0, <2>8, <3>1 DEF Gap, TextOK
  <2>10. Position'
    BY <2>2, <2>7, <2>9 DEF Position
  <2>11. PICK a : a = cur.to
    OBVIOUS
  <2>12. Good(a, s)'
    BY <1>0, <2>3, <2>11, GoodStays
  <2>13. CASE next' = s /\ peekDone' = TRUE /\ UNCHANGED <<cur, prev>>
    <3>1. PICK p, c : p = prev /\ c = cur
      OBVIOUS
    <3>2. Good(p, c)'
      BY <1>0, <3>1, GoodStays DEF LInv, Delivered
    <3>3. Delivered'
      BY <2>11, <2>12, <2>13, <3>1, <3>2 DEF Delivered
    <3> QED BY <2>5, <2>6, <2>10, <3>3 DEF LInv
  <2>14. CASE cur' = s /\ prev' = cur.to /\ peekDone' = peekDone
    <3>1. Delivered'
      BY <1>0, <2>11, <2>12, <2>14 DEF Delivered
    <3> QED BY <2>5, <2>6, <2>10, <3>1 DEF LInv
  <2> QED BY <2>2, <2>13, <2>14
<1>3. QED
  BY <1>1, <1>2

\* GetSym starts to read, or takes the symbol that Peek has kept.
LEMMA CallLInv ==
  ASSUME LInv, GetSym \/ Peek
  PROVE  LInv'
<1>0. pc = "idle" /\ UNCHANGED <<text, end, bufp, good, next>> /\ Buffer
  BY DEF GetSym, Peek, LInv
<1>1. Buffer'
  BY <1>0 DEF Buffer, LineOK, TextOK, EndsLine
<1>2. PICK p, c, n, e : p = prev /\ c = cur /\ n = next /\ e = cur.to
  OBVIOUS
<1>3. Good(p, c)' /\ (peekDone => Good(e, n)')
  BY <1>0, <1>2, GoodStays DEF LInv, Delivered
<1>4. Mode(bufp - 1)' = Mode(bufp - 1) /\ (bufp > 0 => Mode(bufp - 1) = "code")
  BY <1>0 DEF Mode, LInv, Position
<1>5. \A a, b : Gap(a, b)' = Gap(a, b)
  BY <1>0 DEF Gap, InComment, Blank, Mode
<1>6. Gap(Last, bufp)
  BY <1>0 DEF LInv, Position
<1>7. CASE pc' = "fill" /\ ~ peekDone /\ UNCHANGED <<peekDone, cur, prev>>
  <2>1. Control'
    BY <1>7 DEF Control
  <2>2. Position'
    <3>1. Last' = Last /\ bufp' = bufp
      BY <1>0, <1>7 DEF Last
    <3>2. PICK a, b : a = Last /\ b = bufp
      OBVIOUS
    <3>3. Gap(a, b)'
      BY <1>5, <1>6, <3>2
    <3>4. Gap(Last, bufp)'
      BY <3>1, <3>2, <3>3
    <3> QED BY <1>0, <1>4, <1>7, <3>4 DEF Position
  <2>3. Delivered'
    BY <1>2, <1>3, <1>7 DEF Delivered
  <2> QED BY <1>1, <2>1, <2>2, <2>3 DEF LInv
<1>8. CASE /\ peekDone /\ cur' = next /\ prev' = cur.to /\ peekDone' = FALSE
           /\ pc' = pc
  <2>1. Control'
    BY <1>0, <1>8 DEF Control
  <2>2. Position'
    <3>1. Last' = Last /\ bufp' = bufp
      BY <1>0, <1>8 DEF Last
    <3>2. PICK a, b : a = Last /\ b = bufp
      OBVIOUS
    <3>3. Gap(a, b)'
      BY <1>5, <1>6, <3>2
    <3>4. Gap(Last, bufp)'
      BY <3>1, <3>2, <3>3
    <3> QED BY <1>0, <1>4, <1>8, <3>4 DEF Position
  <2>3. Delivered'
    BY <1>2, <1>3, <1>8 DEF Delivered
  <2> QED BY <1>1, <2>1, <2>2, <2>3 DEF LInv
<1>9. QED
  BY <1>7, <1>8 DEF GetSym, Peek

-----------------------------------------------------------------------------
\* Before the first call the buffer is empty and there is no symbol.
LEMMA InitLInv ==
  ASSUME Init
  PROVE  LInv
<1>0. /\ text \in Seq(Char) /\ end = 0 /\ bufp = 0 /\ good = TRUE /\ pc = "idle"
      /\ peekDone = FALSE /\ cur = NoSymbol /\ prev = 1
  BY LexerTextAssumption DEF Init
<1>1. cur.from = 1 /\ cur.to = 1 /\ cur.sym = "none yet"
  BY <1>0 DEF NoSymbol, Symbol
<1>2. Len(text) \in Nat /\ DOMAIN text = 1 .. Len(text)
  BY <1>0
<1>3. Buffer
  BY <1>0, <1>2 DEF Buffer, LineOK, TextOK
<1>4. Control
  BY <1>0 DEF Control
<1>5. Position
  BY <1>0, <1>2 DEF Position, Gap
<1>6. Good(prev, cur)
  <2>1. \A i \in DOMAIN text : ~ (1 <= i /\ i < 1)
    BY <1>2
  <2>2. Gap(prev, cur.from)
    BY <1>0, <1>1, <2>1 DEF Gap
  <2>3. \A i \in DOMAIN text : cur.from <= i /\ i < cur.to => ~ InComment(i)
    BY <1>1, <2>1
  <2> QED BY <1>1, <2>2, <2>3 DEF Good
<1>7. QED
  BY <1>0, <1>3, <1>4, <1>5, <1>6 DEF LInv, Delivered

\* The invariant holds in every behaviour of the lexer, on every text.
THEOREM LexerInvariant == Spec => []LInv
<1>1. Init => LInv
  BY InitLInv
<1>2. LInv /\ [Next]_vars => LInv'
  <2> SUFFICES ASSUME LInv, [Next]_vars
               PROVE  LInv'
    OBVIOUS
  <2>1. CASE UNCHANGED vars
    <3>1. UNCHANGED others /\ UNCHANGED <<end, bufp, good, pc>>
      BY <2>1 DEF vars, others
    <3>2. UNCHANGED <<text, peekDone, next, cur, prev>>
      BY <3>1 DEF others
    <3> QED BY <3>1, <3>2
            DEF LInv, Buffer, LineOK, TextOK, EndsLine, Control, MoreToSkip, EOB, BC,
                buf, isspace, Position, Delivered, Good, Gap, Last, InComment, Blank,
                Mode
  <2> QED BY <2>1, BeginLoopLInv, SkipLInv, ScanLInv, CallLInv DEF Next, Lexing
<1>3. QED
  BY <1>1, <1>2, PTL DEF Spec

-----------------------------------------------------------------------------
(***************************************************************************)
(* The order of the symbols.                                               *)
(***************************************************************************)

\* Symbol s starts no earlier than a, and covers some text unless it is NONE.
From(a, s) ==
  /\ a \in Nat /\ s.from \in Nat /\ s.to \in Nat
  /\ a <= s.from
  /\ s.from < s.to \/ (s.from = s.to /\ s.sym \in {"NONE", "none yet"})

\* The symbols follow each other, and what is read next lies behind them.
Ordered ==
  /\ From(prev, cur)
  /\ peekDone => From(cur.to, next)
  /\ Last <= bufp \/ (bufp = 0 /\ Last = 1)

\* Only NONE covers nothing.
LEMMA SymbolCovers ==
  ASSUME LineOK, NEW i \in Nat \ {0}, i <= end,
         ~ (buf(i) = "quote" /\ Closing(i) = {}), SymbolAt(i).sym # "NONE"
  PROVE  SymbolAt(i).to > i
<1>a. \A n, j, k : Symbol(n, j, k).sym = n /\ Symbol(n, j, k).to = k
  BY DEF Symbol
<1>b. end \in Nat
  BY DEF LineOK
<1>c. ASSUME NEW S, "zero" \notin S, buf(i) \in S
      PROVE  RunEnd(i, S) \in Nat /\ RunEnd(i, S) > i
  <2> DEFINE T == {j \in i .. end : buf(j) \notin S}
  <2>1. T \subseteq Nat /\ end \in T /\ i \notin T
    BY <1>b, <1>c DEF buf
  <2>2. Min(T) \in T
    <3> HIDE DEF T
    <3> QED BY <2>1, MinIsLeast
  <2>3. RunEnd(i, S) = Min(T)
    BY DEF RunEnd
  <2> QED BY <1>b, <2>1, <2>2, <2>3
<1>1. CASE buf(i) = "quote"
  <2>1. SymbolAt(i) = Symbol("STString", i, Min(Closing(i)) + 1)
    BY <1>1 DEF SymbolAt, isop, Operators
  <2>2. Closing(i) # {} /\ Closing(i) \subseteq Nat /\ \A j \in Closing(i) : j > i
    BY <1>1, <1>b DEF Closing
  <2>3. Min(Closing(i)) \in Closing(i)
    BY <2>2, MinIsLeast
  <2>4. Min(Closing(i)) \in Nat /\ Min(Closing(i)) > i
    BY <2>2, <2>3
  <2> QED BY <1>a, <2>1, <2>4
<1>2. CASE buf(i) = "bracket"
  <2>1. SymbolAt(i) = Symbol("Bracket", i, i + 1)
    BY <1>2 DEF SymbolAt, isop, Operators
  <2> QED BY <1>a, <2>1
<1>3. CASE buf(i) = "colon"
  <2>1. SymbolAt(i) = IF buf(i + 1) = "equals"
                        THEN Symbol("Assign", i, i + 2) ELSE Symbol("Colon", i, i + 1)
    BY <1>3 DEF SymbolAt, isop, Operators
  <2> QED BY <1>a, <2>1
<1>4. CASE buf(i) = "dash"
  <2>1. \/ SymbolAt(i) = Symbol("Separator", i, RunEnd(i, {"dash"}))
        \/ SymbolAt(i) = Symbol("Minus", i, i + 1)
    BY <1>4, Zenon DEF SymbolAt, isop, Operators
  <2>2. RunEnd(i, {"dash"}) > i
    BY <1>4, <1>c
  <2> QED BY <1>a, <2>1, <2>2
<1>5. CASE isop(buf(i))
  <2>1. \/ SymbolAt(i) = Symbol("OperatorSequence", i, RunEnd(i, Operators))
        \/ SymbolAt(i) = Symbol("Operator", i, i + 1)
    BY <1>5, Zenon DEF SymbolAt, isop, Operators
  <2>2. RunEnd(i, Operators) > i
    BY <1>5, <1>c DEF isop, Operators
  <2> QED BY <1>a, <2>1, <2>2
<1>6. CASE buf(i) = "primitive"
  <2>1. SymbolAt(i) = Symbol("Primitive", i, i + 1)
    BY <1>6 DEF SymbolAt, isop, Operators
  <2> QED BY <1>a, <2>1
<1>7. CASE buf(i) = "letter"
  <2>1. SymbolAt(i) = IdentifierTo(i, RunEnd(i, Word))
    BY <1>7 DEF SymbolAt, isop, Operators
  <2>2. PICK j : j = RunEnd(i, Word)
    OBVIOUS
  <2>3. j \in Nat /\ j > i
    BY <1>7, <1>c, <2>2 DEF Word
  <2>4. CASE buf(j) = "colon" /\ isalpha(buf(j + 1))
    <3>1. SymbolAt(i) = Symbol("KeywordSequence", i,
                               RunEnd(j + 1, {"letter", "primitive", "colon"}))
      BY <2>1, <2>2, <2>4 DEF IdentifierTo
    <3>2. j < end
      BY <2>3, <2>4, BufferChar
    <3>3. RunEnd(j + 1, {"letter", "primitive", "colon"}) \in j + 1 .. end
      BY <1>b, <2>3, <3>2, RunEndIs
    <3> QED BY <1>a, <1>b, <2>3, <3>1, <3>3
  <2>5. CASE ~ (buf(j) = "colon" /\ isalpha(buf(j + 1)))
    <3>1. \/ SymbolAt(i) = Symbol("Identifier", i, j)
          \/ SymbolAt(i) = Symbol("Keyword", i, j + 1)
      BY <2>1, <2>2, <2>5 DEF IdentifierTo
    <3> QED BY <1>a, <2>3, <3>1
  <2> QED BY <2>4, <2>5
<1>8. CASE buf(i) = "digit"
  <2>1. SymbolAt(i) = Symbol("Integer", i, RunEnd(i, {"digit"}))
    BY <1>8 DEF SymbolAt, isop, Operators
  <2>2. RunEnd(i, {"digit"}) > i
    BY <1>8, <1>c
  <2> QED BY <1>a, <2>1, <2>2
<1>9. CASE buf(i) \notin {"quote", "bracket", "colon", "dash", "equals", "operator",
                          "primitive", "letter", "digit"}
  <2>1. SymbolAt(i) = Symbol("NONE", i, i)
    BY <1>9 DEF SymbolAt, isop, Operators
  <2> QED BY <1>a, <2>1
<1>10. QED
  BY <1>1, <1>2, <1>3, <1>4, <1>5, <1>6, <1>7, <1>8, <1>9 DEF isop, Operators

\* The symbol that scan reads comes after the last one, and bufp only moves on.
LEMMA NextOrdered ==
  ASSUME LInv, LInv', Ordered, [Next]_vars
  PROVE  Ordered'
<1>0. bufp \in Nat /\ end \in Nat /\ bufp <= end /\ bufp' \in Nat /\ LineOK
  BY DEF LInv, Buffer, LineOK
<1>1. ASSUME bufp <= bufp', UNCHANGED <<peekDone, next, cur, prev>>
      PROVE  Ordered'
  <2>1. Last' = Last /\ From(prev, cur)' /\ (peekDone' => From(cur.to, next)')
    BY <1>1 DEF Ordered, From, Last
  <2>2. Last \in Nat
    BY DEF Ordered, From, Last
  <2> QED BY <1>0, <1>1, <2>1, <2>2 DEF Ordered
<1>2. CASE UNCHANGED vars
  BY <1>0, <1>1, <1>2 DEF vars
<1>3. ASSUME fillBuffer \/ Advance \/ bufp' = bufp \/ bufp' = bufp + 1
      PROVE  bufp <= bufp'
  BY <1>0, <1>3 DEF fillBuffer, Advance
<1>4. CASE beginLoop \/ skipWhiteSpace \/ skipComment \/ insideComment \/ endLoop
  <2>1. fillBuffer \/ Advance \/ bufp' = bufp \/ bufp' = bufp + 1
    BY <1>4, Zenon DEF beginLoop, skipWhiteSpace, skipComment, insideComment, endLoop
  <2>2. UNCHANGED <<peekDone, next, cur, prev>>
    BY <1>4 DEF beginLoop, skipWhiteSpace, skipComment, insideComment, endLoop, others
  <2> QED BY <1>1, <1>3, <2>1, <2>2
<1>5. CASE scan
  <2>1. CASE BC = "quote" /\ Closing(bufp) = {}
    BY <1>0, <1>1, <1>5, <2>1 DEF scan
  <2>2. CASE ~ (BC = "quote" /\ Closing(bufp) = {})
    <3>1. PICK s : s = SymbolAt(bufp)
      OBVIOUS
    <3>2. /\ bufp' = s.to /\ ~ peekDone
          /\ \/ /\ next' = s /\ peekDone' = TRUE /\ UNCHANGED <<cur, prev>>
             \/ /\ cur' = s /\ prev' = cur.to /\ peekDone' = FALSE
      BY <1>5, <2>2, <3>1 DEF scan, LInv, Control
    <3>3. Clean(s, bufp) /\ bufp > 0
      <4>1. pc = "scan"
        BY <1>5 DEF scan
      <4>2. end > 0
        BY <4>1 DEF LInv, Control
      <4>3. bufp > 0
        BY <4>2 DEF LInv, Buffer
      <4> QED BY <2>2, <3>1, <4>1, <4>3, ScannedGood
    <3>4. s.from = bufp /\ s.to \in bufp .. end
      BY <3>3 DEF Clean
    <3>5. s.to > bufp \/ s.sym = "NONE"
      BY <1>0, <2>2, <3>1, <3>3, SymbolCovers DEF BC
    <3>6. cur.to \in Nat /\ cur.to <= bufp
      <4>1. Last = cur.to
        BY <3>2 DEF Last
      <4>2. cur.to \in Nat
        BY DEF Ordered, From
      <4> QED BY <1>0, <3>3, <4>1, <4>2 DEF Ordered
    <3>7. From(cur.to, s)
      <4>1. s.from \in Nat /\ s.to \in Nat /\ s.from <= s.to
        BY <1>0, <3>4
      <4>2. s.from < s.to \/ (s.from = s.to /\ s.sym = "NONE")
        BY <1>0, <3>4, <3>5, <4>1
      <4> QED BY <3>4, <3>6, <4>1, <4>2 DEF From
    <3>8. Last' = s.to
      BY <3>2 DEF Last
    <3>9. Last' <= bufp'
      BY <1>0, <3>2, <3>8
    <3>10. CASE next' = s /\ peekDone' = TRUE /\ UNCHANGED <<cur, prev>>
      <4>1. From(prev, cur)' /\ From(cur.to, next)'
        BY <3>7, <3>10 DEF Ordered, From
      <4> QED BY <3>9, <4>1 DEF Ordered
    <3>11. CASE cur' = s /\ prev' = cur.to /\ peekDone' = FALSE
      <4>1. From(prev, cur)'
        BY <3>7, <3>11 DEF From
      <4> QED BY <3>9, <3>11, <4>1 DEF Ordered
    <3> QED BY <3>2, <3>10, <3>11
  <2> QED BY <2>1, <2>2
<1>6. CASE GetSym \/ Peek
  <2>1. CASE UNCHANGED <<peekDone, next, cur, prev, bufp>>
    BY <1>0, <1>1, <2>1
  <2>2. CASE /\ peekDone /\ cur' = next /\ prev' = cur.to /\ peekDone' = FALSE
             /\ bufp' = bufp
    <3>1. From(prev, cur)'
      BY <2>2 DEF Ordered, From
    <3>2. Last' = Last
      BY <2>2 DEF Last
    <3> QED BY <2>2, <3>1, <3>2 DEF Ordered
  <2> QED BY <1>6, <2>1, <2>2 DEF GetSym, Peek
<1>7. QED
  BY <1>2, <1>4, <1>5, <1>6 DEF Next, Lexing

\* For every text, and however the parser mixes GetSym and Peek: it gets the symbols
\* in order and each once, between them there is only white space and comments, and
\* none reaches into a comment.
THEOREM NothingIsLost == Spec => []NothingLost
<1>1. Init => Ordered
  <2> SUFFICES ASSUME Init
               PROVE  Ordered
    OBVIOUS
  <2>1. bufp = 0 /\ peekDone = FALSE /\ cur = NoSymbol /\ prev = 1
    BY DEF Init
  <2>2. cur.from = 1 /\ cur.to = 1 /\ cur.sym = "none yet"
    BY <2>1 DEF NoSymbol, Symbol
  <2>3. From(prev, cur)
    <3>1. prev = 1
      BY <2>1
    <3>2. cur.sym \in {"NONE", "none yet"}
      BY <2>2, Zenon
    <3>3. /\ prev \in Nat /\ cur.from \in Nat /\ cur.to \in Nat
          /\ prev <= cur.from /\ cur.from = cur.to
      <4>1. prev = 1 /\ cur.from = 1 /\ cur.to = 1
        BY <2>2, <3>1, Zenon
      <4> QED BY <4>1
    <3> QED BY <3>2, <3>3, Zenon DEF From
  <2>4. Last = 1
    BY <2>1, <2>2 DEF Last
  <2> QED BY <2>1, <2>3, <2>4 DEF Ordered
<1>2. LInv /\ LInv' /\ Ordered /\ [Next]_vars => Ordered'
  BY NextOrdered
<1>3. LInv /\ Ordered => NothingLost
  BY DEF LInv, Delivered, Good, Gap, NothingLost, Ordered, From
<1>4. QED
  BY <1>1, <1>2, <1>3, LexerInvariant, PTL DEF Spec

\* In every text that ends with a newline, NONE is the end of the text or a character
\* no symbol starts with, wherever lines, comments and white space end.
THEOREM NoneIsTheEnd == Spec => []NoneMeansEnd
<1>1. LInv => NoneMeansEnd
  BY DEF LInv, Delivered, Good, EndsLine, NoneMeansEnd
<1>2. QED
  BY <1>1, LexerInvariant, PTL
=============================================================================
