-------------------------------- MODULE Lexer --------------------------------
(***************************************************************************)
(* The lexer of SOM source text (src/src/compiler/Lexer.cpp), called by    *)
(* the parser through GETSYM and PEEK.                                     *)
(*                                                                         *)
(* A text is a sequence of character classes.  The lexer holds one line in *)
(* its buffer and one symbol that Peek has read ahead; white space and     *)
(* comments may run over any number of lines, symbols may not.  Positions  *)
(* count from the start of the text, so that the buffer is the part of the *)
(* text before end, and bufp is the next character to read.                *)
(*                                                                         *)
(* The word "primitive" is one class, since the lexer recognises it by its *)
(* first nine characters whatever follows; so is a separator's dash, of    *)
(* which SeparatorLength make a separator.                                 *)
(***************************************************************************)
EXTENDS Naturals, Sequences, FiniteSetsExt

CONSTANTS
  Texts,            \* the source texts
  SeparatorLength   \* length of SEPARATOR

Char == {"space", "newline", "dquote", "quote", "letter", "primitive", "digit",
         "underscore", "colon", "equals", "operator", "dash", "bracket"}
\* "operator" stands for every _ISOP character but '=', "bracket" for those that
\* are a symbol by themselves, "underscore" for a character no symbol starts with.

ASSUME LexerTextAssumption == \A t \in Texts : t \in Seq(Char)
ASSUME LexerSeparatorAssumption == SeparatorLength \in Nat \ {0}

VARIABLES
  text,
  end,       \* first position after the buffer
  bufp,      \* next position to read
  good,      \* infile.good(): no read has met the end of the file
  pc,        \* the loop of GetSym the lexer is in, "idle" between calls
  peeking,   \* GetSym was called by Peek
  peekDone,
  next,      \* nextSym: the symbol read ahead
  cur,       \* sym: the symbol the parser works on
  prev       \* history: where the symbol before cur ended

vars == <<text, end, bufp, good, pc, peeking, peekDone, next, cur, prev>>

\* A symbol with the text it covers, from and up to but not including to.
Symbol(s, i, j) == [sym |-> s, from |-> i, to |-> j]
NoSymbol == Symbol("none yet", 1, 1)

\* buf[i], with the terminating zero of the string.
buf(i) == IF i < end /\ i > 0 THEN text[i] ELSE "zero"
BC == buf(bufp)
EOB == bufp >= end

Init ==
  /\ text \in Texts
  /\ end = 0
  /\ bufp = 0
  /\ good = TRUE
  /\ pc = "idle"
  /\ peeking = FALSE
  /\ peekDone = FALSE
  /\ next = NoSymbol
  /\ cur = NoSymbol
  /\ prev = 1

-----------------------------------------------------------------------------
(***************************************************************************)
(* The buffer.                                                             *)
(***************************************************************************)

\* std::getline: up to the next newline, or to the end of the file, which ends
\* good().  At the end of the file nothing happens, and bufp stays.
fillBuffer ==
  IF ~ good
    THEN UNCHANGED <<end, good>> /\ bufp' = bufp
    ELSE LET newline == {i \in DOMAIN text : i > end /\ text[i] = "newline"}
         IN  /\ end' = IF newline = {} THEN Len(text) + 1 ELSE Min(newline)
             /\ good' = (newline # {})
             /\ bufp' = end + 1

\* bufp++; if(EOB) fillBuffer();
Advance ==
  IF bufp + 1 >= end /\ good
    THEN fillBuffer
    ELSE bufp' = bufp + 1 /\ UNCHANGED <<end, good>>

-----------------------------------------------------------------------------
(***************************************************************************)
(* Calls of the parser.                                                    *)
(***************************************************************************)

\* Mutated form: peekDone is not reset.
GetSym_Repeats ==
  /\ pc = "idle"
  /\ IF peekDone
       THEN cur' = next /\ prev' = cur.to /\ pc' = pc
       ELSE pc' = "fill" /\ UNCHANGED <<cur, prev>>
  /\ UNCHANGED <<text, end, bufp, good, peeking, peekDone, next>>

\* GetSym delivers the symbol read ahead, or starts to read.
GetSym ==
  /\ pc = "idle"
  /\ IF peekDone
       THEN /\ cur' = next
            /\ prev' = cur.to
            /\ peekDone' = FALSE
            /\ pc' = pc
       ELSE pc' = "fill" /\ UNCHANGED <<peekDone, cur, prev>>
  /\ UNCHANGED <<text, end, bufp, good, peeking, next>>

\* Peek.  A second Peek takes the symbol read ahead and keeps it.
Peek ==
  /\ pc = "idle"
  /\ ~ peekDone
  /\ pc' = "fill"
  /\ peeking' = TRUE
  /\ UNCHANGED <<text, end, bufp, good, peekDone, next, cur, prev>>

-----------------------------------------------------------------------------
(***************************************************************************)
(* Skipping white space and comments.                                      *)
(***************************************************************************)
others == <<text, peeking, peekDone, next, cur, prev>>

isspace(c) == c = "space"

beginLoop ==
  /\ pc = "fill"
  /\ IF EOB THEN fillBuffer ELSE UNCHANGED <<end, bufp, good>>
  /\ pc' = "white"
  /\ UNCHANGED others

skipWhiteSpace ==
  /\ pc = "white"
  /\ IF isspace(BC)
       THEN Advance /\ pc' = pc
       ELSE pc' = "comment" /\ UNCHANGED <<end, bufp, good>>
  /\ UNCHANGED others

skipComment ==
  /\ pc = "comment"
  /\ IF BC = "dquote"
       THEN Advance /\ pc' = "inside"
       ELSE pc' = "test" /\ UNCHANGED <<end, bufp, good>>
  /\ UNCHANGED others

\* The loop up to the closing quote.  When the text ends before it, the lexer reads
\* what lies behind the buffer.
insideComment ==
  /\ pc = "inside"
  /\ IF BC = "dquote"
       THEN bufp' = bufp + 1 /\ pc' = "test" /\ UNCHANGED <<end, good>>
       ELSE IF EOB /\ ~ good
         THEN pc' = "overrun" /\ UNCHANGED <<end, bufp, good>>
         ELSE Advance /\ pc' = pc
  /\ UNCHANGED others

\* Mutated forms: the end of a line or of the file is not looked at.
MoreToSkip_Line == (isspace(BC) \/ BC = "dquote") /\ good
MoreToSkip_File == EOB \/ isspace(BC) \/ BC = "dquote"

MoreToSkip == (EOB \/ isspace(BC) \/ BC = "dquote") /\ good

endLoop ==
  /\ pc = "test"
  /\ pc' = IF MoreToSkip THEN "fill" ELSE "scan"
  /\ UNCHANGED <<end, bufp, good, others>>

-----------------------------------------------------------------------------
(***************************************************************************)
(* The symbols.                                                            *)
(***************************************************************************)
isalpha(c) == c \in {"letter", "primitive"}
Word == {"letter", "primitive", "digit", "underscore"}
Operators == {"equals", "operator"}
isop(c) == c \in Operators

\* Where a run of characters of S that starts at i ends.
RunEnd(i, S) == Min({j \in i .. end : buf(j) \notin S})

\* The closing quotes of a string that starts at i.
Closing(i) == {j \in i + 1 .. end - 1 : text[j] = "quote"}

\* An identifier that ends before j, with what makes it a keyword.
IdentifierTo(i, j) ==
  IF buf(j) # "colon"
    THEN Symbol("Identifier", i, j)
    ELSE IF isalpha(buf(j + 1))
      THEN Symbol("KeywordSequence", i, RunEnd(j + 1, {"letter", "primitive", "colon"}))
      ELSE Symbol("Keyword", i, j + 1)

\* The symbol that starts at i.
SymbolAt(i) ==
  CASE buf(i) = "quote" -> Symbol("STString", i, Min(Closing(i)) + 1)
    [] buf(i) = "bracket" -> Symbol("Bracket", i, i + 1)
    [] buf(i) = "colon" ->
         IF buf(i + 1) = "equals"
           THEN Symbol("Assign", i, i + 2) ELSE Symbol("Colon", i, i + 1)
    [] buf(i) = "dash" ->
         IF RunEnd(i, {"dash"}) >= i + SeparatorLength
           THEN Symbol("Separator", i, RunEnd(i, {"dash"})) ELSE Symbol("Minus", i, i + 1)
    [] isop(buf(i)) ->
         IF isop(buf(i + 1))
           THEN Symbol("OperatorSequence", i, RunEnd(i, Operators))
           ELSE Symbol("Operator", i, i + 1)
    [] buf(i) = "primitive" -> Symbol("Primitive", i, i + 1)
    [] buf(i) = "letter" -> IdentifierTo(i, RunEnd(i, Word))
    [] buf(i) = "digit" -> Symbol("Integer", i, RunEnd(i, {"digit"}))
    [] OTHER -> Symbol("NONE", i, i)

\* GetSym returns the symbol to the parser, or to Peek, which keeps it.  A string
\* that is not closed on its line makes the lexer read behind the buffer.
scan ==
  /\ pc = "scan"
  /\ IF BC = "quote" /\ Closing(bufp) = {}
       THEN pc' = "overrun" /\ UNCHANGED <<bufp, peeking, peekDone, next, cur, prev>>
       ELSE /\ bufp' = SymbolAt(bufp).to
            /\ pc' = "idle"
            /\ peeking' = FALSE
            /\ IF peeking
                 THEN next' = SymbolAt(bufp) /\ peekDone' = TRUE /\ UNCHANGED <<cur, prev>>
                 ELSE cur' = SymbolAt(bufp) /\ prev' = cur.to /\ UNCHANGED <<next, peekDone>>
  /\ UNCHANGED <<text, end, good>>

Lexing ==
  \/ beginLoop \/ skipWhiteSpace \/ skipComment \/ insideComment \/ endLoop \/ scan

Next == GetSym \/ Peek \/ Lexing

\* The lexer runs in the thread of the parser that called it.
Spec == Init /\ [][Next]_vars /\ WF_vars(Lexing)

-----------------------------------------------------------------------------
(***************************************************************************)
(* Properties.                                                             *)
(***************************************************************************)

\* What the grammar says of a text: after a character one is in the code, in a
\* comment or in a string.
After(mode, c) ==
  CASE mode = "code" /\ c = "dquote" -> "comment"
    [] mode = "code" /\ c = "quote" -> "string"
    [] mode = "comment" /\ c = "dquote" -> "code"
    [] mode = "string" /\ c = "quote" -> "code"
    [] OTHER -> mode

Modes(t) ==
  LET mode[i \in 0 .. Len(t)] == IF i = 0 THEN "code" ELSE After(mode[i - 1], t[i])
  IN  mode

Mode(i) == Modes(text)[i]

InComment(i) == "comment" \in {Mode(i - 1), Mode(i)}
Blank(i) == Mode(i) = "code" /\ text[i] \in {"space", "newline"}

\* A comment or a string that is not closed, a string over the end of a line.
Unterminated ==
  \/ Mode(Len(text)) # "code"
  \/ \E i \in DOMAIN text : Mode(i) = "string" /\ text[i] = "newline"

\* The symbols the parser gets are those of the text, in order and each once,
\* however it mixes GetSym and Peek and wherever lines end: between two of them
\* there is only white space and comments, each starts no earlier than the one before
\* it ended and, NONE apart, covers some text, and none reaches into a comment.
NothingLost ==
  /\ prev <= cur.from
  /\ cur.from < cur.to \/ (cur.from = cur.to /\ cur.sym \in {"NONE", "none yet"})
  /\ \A i \in DOMAIN text :
       /\ prev <= i /\ i < cur.from => InComment(i) \/ Blank(i)
       /\ cur.from <= i /\ i < cur.to => ~ InComment(i)

\* NONE is the end of the text, or a character no symbol starts with, in every
\* text that ends with a newline.  (Without it, white space or a comment after a
\* comment on the last line is NONE as well: the loop of GetSym stops there.)
NoneMeansEnd ==
  cur.sym = "NONE" /\ text # << >> /\ text[Len(text)] = "newline"
    => cur.from > Len(text) \/ text[cur.from] = "underscore"

\* GetSym and Peek return on every text in which comments and strings are closed.
GetSymReturns == (pc # "idle") ~> (pc = "idle" \/ Unterminated)
=============================================================================
