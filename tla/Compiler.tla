------------------------------ MODULE Compiler ------------------------------
(***************************************************************************)
(* The one-pass compiler of a SOM method: compiler/Parser.cpp reads the    *)
(* source and, through BytecodeGenerator, fills a MethodGenerationContext, *)
(* which Assemble turns into a VMMethod.                                   *)
(*                                                                         *)
(* The parser is recursive descent.  `work' is its call stack: the heads   *)
(* of the parsing functions still to be run or to be resumed, next one     *)
(* first.  `gen' is the chain of generation contexts, innermost first, so  *)
(* gen[c + 1] is the context c outerGenc pointers away.  The source text   *)
(* is any well-formed method: an action picks the construct that comes     *)
(* next, and `left' bounds how many constructs the text holds.             *)
(*                                                                         *)
(* Bytecode is kept byte by byte as the code keeps it, because a period    *)
(* before the end of a block is undone by removing one byte.  A literal is *)
(* the identity of an object: symbols are interned, everything else is a   *)
(* new object each time it is read.                                        *)
(***************************************************************************)
EXTENDS Integers, Sequences, SequencesExt

CONSTANTS
  Names,      \* variable names of the source other than self and super
  Fields,     \* those declared as fields of the class being compiled
  MaxNodes    \* bound on statements, assignments, terms, blocks, messages,
              \* further parts of a message, declared arguments and locals

ASSUME CompilerAssumption ==
  /\ Fields \subseteq Names
  /\ {"self", "$block self"} \cap Names = {}
  /\ MaxNodes \in Nat

VARIABLES
  gen,     \* the MethodGenerationContexts, innermost first
  work,    \* the parser's call stack, innermost call first
  left,    \* constructs the rest of the source may still hold
  method   \* the method assembled last; NoMethod before

vars == <<gen, work, left, method>>

-----------------------------------------------------------------------------
(* Bytecodes (interpreter/bytecodes.h).                                    *)

BC == [HALT |-> 0, DUP |-> 1, PUSH_LOCAL |-> 2, PUSH_ARGUMENT |-> 3,
       PUSH_FIELD |-> 4, PUSH_BLOCK |-> 5, PUSH_CONSTANT |-> 6,
       PUSH_GLOBAL |-> 7, POP |-> 8, POP_LOCAL |-> 9, POP_ARGUMENT |-> 10,
       POP_FIELD |-> 11, SEND |-> 12, SUPER_SEND |-> 13,
       RETURN_LOCAL |-> 14, RETURN_NON_LOCAL |-> 15]

(* The lengths the interpreter steps by, indexed by bytecode + 1.          *)
bytecodeLengths == <<1, 1, 3, 3, 2, 2, 2, 2, 1, 3, 3, 2, 2, 2, 1, 1>>

Byte(i) == i % 256

(* One pass over the positions of s, from the first to the last.           *)
Scan(Step(_, _), base, s) ==
  LET upTo[i \in 0..Len(s)] == IF i = 0 THEN base ELSE Step(upTo[i - 1], i)
  IN upTo[Len(s)]

(* Literals.  args is Signature::GetNumberOfArguments of the symbol.       *)
Symbol(name, args) == [kind |-> "symbol", name |-> name, id |-> args]
VarSymbol(v) == Symbol(v, 1)
UnarySelector == Symbol("unary", 1)
BinarySelector == Symbol("+", 2)
KeywordSelector(n) == Symbol("part:", n + 1)
NewLiteral(kind, g) == [kind |-> kind, name |-> "", id |-> Len(g.lits)]

GetNumberOfArguments(sig) == sig.id

-----------------------------------------------------------------------------
(* MethodGenerationContext.                                                *)

IndexOf(s, x) == SelectInSeq(s, LAMBDA y : y = x) - 1

AddArgumentIfAbsent(g, arg) ==
  IF Contains(g.locals, arg) THEN g ELSE [g EXCEPT !.args = Append(@, arg)]

AddLocalIfAbsent(g, local) ==
  IF Contains(g.locals, local) THEN g
  ELSE [g EXCEPT !.locals = Append(@, local)]

AddLiteral(g, lit) == [g EXCEPT !.lits = Append(@, lit)]

AddLiteralIfAbsent(g, lit) ==
  IF Contains(g.lits, lit) THEN g ELSE AddLiteral(g, lit)

FindLiteralIndex(g, lit) == IndexOf(g.lits, lit)

AddBytecodes(g, bytes) ==
  [g EXCEPT !.code = @ \o [i \in 1..Len(bytes) |-> Byte(bytes[i])]]

EmitWithLiteral(g, bc, lit) == AddBytecodes(g, <<bc, FindLiteralIndex(g, lit)>>)

(* A mutated form of RemoveLastBytecode: the POP stays.                    *)
RemoveLastBytecode_Keep(g) == g

RemoveLastBytecode(g) == [g EXCEPT !.code = Front(@)]

Knows(g, var) == Contains(g.locals, var) \/ Contains(g.args, var)

(* FindVar: the first context from the inside that knows the name, its     *)
(* locals before its arguments.                                            *)
Found(g, var, context) ==
  [found |-> TRUE, context |-> context,
   isArgument |-> ~Contains(g.locals, var),
   index |-> IF Contains(g.locals, var) THEN IndexOf(g.locals, var)
             ELSE IndexOf(g.args, var)]

(* A mutated form of FindVar: *context is not incremented on the way out.  *)
FindVar_NoContext(chain, var) ==
  LET level == SelectInSeq(chain, LAMBDA g : Knows(g, var))
  IN IF level = 0 THEN [found |-> FALSE] ELSE Found(chain[level], var, 0)

FindVar(chain, var) ==
  LET level == SelectInSeq(chain, LAMBDA g : Knows(g, var))
  IN IF level = 0 THEN [found |-> FALSE]
     ELSE Found(chain[level], var, level - 1)

FindField(var) == var \in Fields

(* ComputeStackDepth: one pass over the bytes with a uint8_t depth; each   *)
(* bytecode moves on by its own number of bytes.                           *)
StackEffect(bc, arity) ==
  CASE bc = BC.HALT -> [depth |-> 0, bytes |-> 1]
    [] bc = BC.DUP -> [depth |-> 1, bytes |-> 1]
    [] bc \in {BC.PUSH_LOCAL, BC.PUSH_ARGUMENT} -> [depth |-> 1, bytes |-> 3]
    [] bc \in {BC.PUSH_FIELD, BC.PUSH_BLOCK, BC.PUSH_CONSTANT, BC.PUSH_GLOBAL}
         -> [depth |-> 1, bytes |-> 2]
    [] bc = BC.POP -> [depth |-> -1, bytes |-> 1]
    [] bc \in {BC.POP_LOCAL, BC.POP_ARGUMENT} -> [depth |-> -1, bytes |-> 3]
    [] bc = BC.POP_FIELD -> [depth |-> -1, bytes |-> 2]
    [] bc \in {BC.SEND, BC.SUPER_SEND} -> [depth |-> 1 - arity, bytes |-> 2]
    [] OTHER -> [depth |-> 0, bytes |-> 1]

SendArity(code, lits, i) ==
  IF code[i] \in {BC.SEND, BC.SUPER_SEND}
  THEN GetNumberOfArguments(lits[code[i + 1] + 1])
  ELSE 0

ComputeStackDepth(g) ==
  LET Step(s, i) ==
        LET effect == StackEffect(g.code[i], SendArity(g.code, g.lits, i))
            depth == Byte(s.depth + effect.depth)
        IN IF i # s.next THEN s
           ELSE [next |-> i + effect.bytes, depth |-> depth,
                 maxDepth |-> IF depth > s.maxDepth THEN depth ELSE s.maxDepth]
  IN Scan(Step, [next |-> 1, depth |-> 0, maxDepth |-> 0], g.code).maxDepth

(* Assemble: the VMMethod; VMMethod::SetSignature derives the number of    *)
(* arguments from the signature.                                           *)
Assemble(chain) ==
  LET g == chain[1]
  IN [code |-> g.code, lits |-> g.lits, block |-> g.block,
      numberOfArguments |-> GetNumberOfArguments(g.signature),
      numberOfLocals |-> Len(g.locals),
      maximumNumberOfStackElements |-> ComputeStackDepth(g)]

NoMethod == [code |-> <<>>]

-----------------------------------------------------------------------------
(* Parser: code generation for variables.                                  *)

(* A mutated form of genPushVariable: the name is not made a literal.      *)
genPushVariable_NoLiteral(chain, var) ==
  LET g == chain[1]
      v == FindVar(chain, var)
  IN IF v.found
     THEN AddBytecodes(g, <<IF v.isArgument THEN BC.PUSH_ARGUMENT
                            ELSE BC.PUSH_LOCAL, v.index, v.context>>)
     ELSE EmitWithLiteral(g, IF FindField(var) THEN BC.PUSH_FIELD
                             ELSE BC.PUSH_GLOBAL, VarSymbol(var))

genPushVariable(chain, var) ==
  LET g == chain[1]
      v == FindVar(chain, var)
      named == AddLiteralIfAbsent(g, VarSymbol(var))
  IN IF v.found
     THEN AddBytecodes(g, <<IF v.isArgument THEN BC.PUSH_ARGUMENT
                            ELSE BC.PUSH_LOCAL, v.index, v.context>>)
     ELSE EmitWithLiteral(named, IF FindField(var) THEN BC.PUSH_FIELD
                                 ELSE BC.PUSH_GLOBAL, VarSymbol(var))

genPopVariable(chain, var) ==
  LET g == chain[1]
      v == FindVar(chain, var)
  IN IF v.found
     THEN AddBytecodes(g, <<IF v.isArgument THEN BC.POP_ARGUMENT
                            ELSE BC.POP_LOCAL, v.index, v.context>>)
     ELSE EmitWithLiteral(g, BC.POP_FIELD, VarSymbol(var))

EmitSend(g, super, msg) ==
  EmitWithLiteral(g, IF super THEN BC.SUPER_SEND ELSE BC.SEND, msg)

ReturnSelf == <<BC.PUSH_ARGUMENT, 0, 0, BC.RETURN_LOCAL>>

-----------------------------------------------------------------------------
(* The parser's functions.                                                 *)

NewContext(block) ==
  [block |-> block, signature |-> UnarySelector, args |-> <<>>,
   locals |-> <<>>, lits |-> <<>>, code |-> <<>>, finished |-> FALSE]

WithArguments(g, names) == FoldLeft(AddArgumentIfAbsent, g, names)

(* The parsing function `head' is next; it is replaced by the calls it     *)
(* makes, and makes g of the innermost context.                            *)
Calling(head) == work # <<>> /\ work[1][1] = head
Argument == work[1][2]
Becomes(calls) == work' = calls \o Tail(work)
Generate(g) == gen' = <<g>> \o Tail(gen)
Reads(n) == left >= n /\ left' = left - n

(* Patterns of a method: unary, binary with one argument, keyword with one *)
(* argument per part.                                                      *)
pattern(g, names) ==
  [WithArguments(g, names) EXCEPT
     !.signature = IF names = <<>> THEN UnarySelector
                   ELSE KeywordSelector(Len(names))]

Init ==
  /\ \E names \in BoundedSeq(Names, MaxNodes) :
       /\ gen = << pattern(AddArgumentIfAbsent(NewContext(FALSE), "self"), names) >>
       /\ left = MaxNodes - Len(names)
  /\ work = << <<"blockContents">>, <<"methodEnd">> >>
  /\ method = NoMethod

blockContents ==
  /\ Calling("blockContents")
  /\ \E names \in BoundedSeq(Names, left) :
       /\ Reads(Len(names))
       /\ Generate(FoldLeft(AddLocalIfAbsent, gen[1], names))
  /\ Becomes(<< <<"blockBody", FALSE>> >>)
  /\ UNCHANGED method

(* blockBody: a result, ...                                                *)
blockBodyResult ==
  /\ Calling("blockBody")
  /\ Becomes(<< <<"expression">>, <<"result">> >>)
  /\ UNCHANGED <<gen, left, method>>

(* ... or the end of the block or method (Argument is seen_period), ...    *)
blockBodyEnd ==
  /\ Calling("blockBody")
  /\ LET g == gen[1]
         last == IF Argument THEN RemoveLastBytecode(g) ELSE g
     IN Generate([IF g.block THEN AddBytecodes(last, <<BC.RETURN_LOCAL>>)
                  ELSE AddBytecodes(g, ReturnSelf)
                  EXCEPT !.finished = TRUE])
  /\ Becomes(<<>>)
  /\ UNCHANGED <<left, method>>

(* ... or an expression, with or without a period after it.                *)
blockBodyExpression ==
  /\ Calling("blockBody")
  /\ \/ Becomes(<< <<"expression">> >>) /\ Reads(0)
     \/ Becomes(<< <<"expression">>, <<"period">> >>) /\ Reads(1)
  /\ UNCHANGED <<gen, method>>

period ==
  /\ Calling("period")
  /\ Generate(AddBytecodes(gen[1], <<BC.POP>>))
  /\ Becomes(<< <<"blockBody", TRUE>> >>)
  /\ UNCHANGED <<left, method>>

result ==
  /\ Calling("result")
  /\ Generate([AddBytecodes(gen[1], << IF gen[1].block
                                        THEN BC.RETURN_NON_LOCAL
                                        ELSE BC.RETURN_LOCAL >>)
               EXCEPT !.finished = TRUE])
  /\ Becomes(<<>>)
  /\ UNCHANGED <<left, method>>

expression ==
  /\ Calling("expression")
  /\ Becomes(<< <<"evaluation">> >>)
  /\ UNCHANGED <<gen, left, method>>

assignation ==
  /\ Calling("expression")
  /\ \E names \in BoundedSeq(Names, left) \ {<<>>} :
       /\ Reads(Len(names))
       /\ Generate(FoldLeft(AddLiteralIfAbsent, gen[1],
                            [i \in 1..Len(names) |-> VarSymbol(names[i])]))
       /\ Becomes(<< <<"evaluation">>, <<"assign", names>> >>)
  /\ UNCHANGED method

assign ==
  /\ Calling("assign")
  /\ LET outer == Tail(gen)
         dups == AddBytecodes(gen[1], [i \in 1..Len(Argument) |-> BC.DUP])
         Pop(g, var) == genPopVariable(<<g>> \o outer, var)
     IN Generate(FoldLeft(Pop, dups, Argument))
  /\ Becomes(<<>>)
  /\ UNCHANGED <<left, method>>

(* The source decides here whether the primary is `super'.                 *)
evaluation ==
  /\ Calling("evaluation")
  /\ \E super \in BOOLEAN :
       Becomes(<< <<"primary", super>>, <<"messages", super, 1>> >>)
  /\ UNCHANGED <<gen, left, method>>

primaryVariable ==
  /\ Calling("primary")
  /\ \E var \in IF Argument THEN {"self"} ELSE Names \cup {"self"} :
       Generate(genPushVariable(gen, var))
  /\ Becomes(<<>>)
  /\ UNCHANGED <<left, method>>

nestedTerm ==
  /\ Calling("primary") /\ ~Argument
  /\ Reads(1)
  /\ Becomes(<< <<"expression">> >>)
  /\ UNCHANGED <<gen, method>>

(* literal: a symbol, or a number or string, which is a new object.        *)
literal ==
  /\ Calling("primary") /\ ~Argument
  /\ \E lit \in {VarSymbol(v) : v \in Names} \cup {NewLiteral("object", gen[1])} :
       Generate(EmitWithLiteral(AddLiteralIfAbsent(gen[1], lit),
                                BC.PUSH_CONSTANT, lit))
  /\ Becomes(<<>>)
  /\ UNCHANGED <<left, method>>

nestedBlock ==
  /\ Calling("primary") /\ ~Argument
  /\ \E names \in BoundedSeq(Names, left) :
       LET b == WithArguments(AddArgumentIfAbsent(NewContext(TRUE),
                                                  "$block self"), names)
       IN /\ Reads(1 + Len(names))
          /\ gen' = << [b EXCEPT !.signature = KeywordSelector(Len(b.args) - 1)] >>
                    \o gen
  /\ Becomes(<< <<"blockContents">>, <<"blockEnd">> >>)
  /\ UNCHANGED method

(* The end of nestedBlock, and of primary around it: the block's method is *)
(* assembled and becomes a literal of the enclosing context.               *)
blockEnd ==
  /\ Calling("blockEnd")
  /\ LET b == gen[1]
         done == IF b.finished THEN b
                 ELSE [AddBytecodes(b, <<BC.RETURN_LOCAL>>)
                       EXCEPT !.finished = TRUE]
         lit == NewLiteral("block", gen[2])
     IN /\ method' = Assemble(<<done>> \o Tail(gen))
        /\ gen' = << EmitWithLiteral(AddLiteral(gen[2], lit),
                                     BC.PUSH_BLOCK, lit) >>
                  \o Tail(Tail(gen))
  /\ Becomes(<<>>)
  /\ UNCHANGED left

(* The end of methodBlock, and of the caller that assembles the method.    *)
methodEnd ==
  /\ Calling("methodEnd")
  /\ LET g == gen[1]
         done == IF g.finished THEN g
                 ELSE [AddBytecodes(g, <<BC.POP>> \o ReturnSelf)
                       EXCEPT !.finished = TRUE]
     IN method' = Assemble(<<done>>)
  /\ gen' = <<>>
  /\ Becomes(<<>>)
  /\ UNCHANGED left

-----------------------------------------------------------------------------
(* messages: unary, then binary, then one keyword message.  The second     *)
(* argument is super, the third the kind of message the loop is at.        *)
messages ==
  /\ Calling("messages")
  /\ LET super == Argument
         from == work[1][3]
     IN \/ Becomes(<<>>) /\ Reads(0)
        \/ \E kind \in from..2 :
             /\ Reads(1)
             /\ Becomes(<< << <<"unaryMessage", "binaryMessage">>[kind], super>>,
                           <<"messages", FALSE, kind>> >>)
        \/ /\ Reads(1)
           /\ Becomes(<< <<"keywordMessage", super>> >>)
  /\ UNCHANGED <<gen, method>>

unaryMessage ==
  /\ Calling("unaryMessage")
  /\ Generate(EmitSend(AddLiteralIfAbsent(gen[1], UnarySelector),
                       Argument, UnarySelector))
  /\ Becomes(<<>>)
  /\ UNCHANGED <<left, method>>

(* binaryOperand: a primary and the unary messages to it; each of them is  *)
(* given the same super flag.                                              *)
binaryOperand(super) == << <<"primary", super>>, <<"unaryMessages", super>> >>

unaryMessages ==
  /\ Calling("unaryMessages")
  /\ \/ Becomes(<<>>) /\ Reads(0)
     \/ /\ Becomes(<< <<"unaryMessage", Argument>>,
                      <<"unaryMessages", Argument>> >>)
        /\ Reads(1)
  /\ UNCHANGED <<gen, method>>

binaryMessage ==
  /\ Calling("binaryMessage")
  /\ Generate(AddLiteralIfAbsent(gen[1], BinarySelector))
  /\ \E super \in BOOLEAN :
       Becomes(binaryOperand(super) \o << <<"binarySend", Argument>> >>)
  /\ UNCHANGED <<left, method>>

binarySend ==
  /\ Calling("binarySend")
  /\ Generate(EmitSend(gen[1], Argument, BinarySelector))
  /\ Becomes(<<>>)
  /\ UNCHANGED <<left, method>>

keywordMessage ==
  /\ Calling("keywordMessage")
  /\ \E parts \in 1..(left + 1) :
       /\ Reads(parts - 1)
       /\ Becomes([i \in 1..parts |-> <<"formula">>]
                  \o << <<"keywordSend", Argument, parts>> >>)
  /\ UNCHANGED <<gen, method>>

keywordSend ==
  /\ Calling("keywordSend")
  /\ LET msg == KeywordSelector(work[1][3])
     IN Generate(EmitSend(AddLiteralIfAbsent(gen[1], msg), Argument, msg))
  /\ Becomes(<<>>)
  /\ UNCHANGED <<left, method>>

(* formula: an operand and the binary messages to it, the first of which   *)
(* is given the operand's super flag.                                      *)
formula ==
  /\ Calling("formula")
  /\ \E super \in BOOLEAN :
       Becomes(binaryOperand(super) \o << <<"binaryMessages", super>> >>)
  /\ UNCHANGED <<gen, left, method>>

binaryMessages ==
  /\ Calling("binaryMessages")
  /\ \/ Becomes(<<>>) /\ Reads(0)
     \/ /\ Becomes(<< <<"binaryMessage", Argument>>,
                      <<"binaryMessages", FALSE>> >>)
        /\ Reads(1)
  /\ UNCHANGED <<gen, method>>

(* The method is assembled.                                                *)
Done == work = <<>> /\ UNCHANGED vars

Next ==
  \/ blockContents \/ blockBodyResult \/ blockBodyEnd \/ blockBodyExpression
  \/ period \/ result \/ expression \/ assignation \/ assign \/ evaluation
  \/ primaryVariable \/ nestedTerm \/ literal \/ nestedBlock \/ blockEnd
  \/ methodEnd \/ messages \/ unaryMessage \/ unaryMessages \/ binaryMessage
  \/ binarySend \/ keywordMessage \/ keywordSend \/ formula
  \/ binaryMessages \/ Done

Spec == Init /\ [][Next]_vars

-----------------------------------------------------------------------------
(* Properties.                                                             *)

(* Where the interpreter finds its bytecodes: from 1 on, by                *)
(* bytecodeLengths.                                                        *)
Offsets(code) ==
  LET Step(s, i) == IF i # s.next THEN s
                    ELSE [next |-> i + bytecodeLengths[code[i] + 1],
                          at |-> s.at \cup {i}]
  IN Scan(Step, [next |-> 1, at |-> {}], code).at

(* What the interpreter's handlers do to the operand stack of a frame that *)
(* runs method m, from its first byte to its last.                         *)
Execution(m) ==
  LET Pops(bc, i) ==
        CASE bc \in {BC.DUP, BC.POP, BC.POP_LOCAL, BC.POP_ARGUMENT, BC.POP_FIELD,
                     BC.RETURN_LOCAL, BC.RETURN_NON_LOCAL} -> 1
          [] bc \in {BC.SEND, BC.SUPER_SEND} -> SendArity(m.code, m.lits, i)
          [] OTHER -> 0
      Pushes(bc) ==
        CASE bc = BC.DUP -> 2
          [] bc \in {BC.PUSH_LOCAL, BC.PUSH_ARGUMENT, BC.PUSH_FIELD,
                     BC.PUSH_BLOCK, BC.PUSH_CONSTANT, BC.PUSH_GLOBAL, BC.SEND,
                     BC.SUPER_SEND} -> 1
          [] OTHER -> 0
      Step(s, i) ==
        LET bc == m.code[i]
            depth == s.depth - Pops(bc, i) + Pushes(bc)
            returns == bc \in {BC.RETURN_LOCAL, BC.RETURN_NON_LOCAL}
        IN IF i # s.next THEN s
           ELSE [next |-> i + bytecodeLengths[bc + 1],
                 depth |-> depth,
                 peak |-> IF depth > s.peak THEN depth ELSE s.peak,
                 operands |-> s.operands /\ Pops(bc, i) <= s.depth,
                 single |-> s.single /\ (returns => s.depth = 1),
                 ends |-> s.ends /\ (returns <=> i = Len(m.code))]
  IN Scan(Step, [next |-> 1, depth |-> 0, peak |-> 0, operands |-> TRUE,
                 single |-> TRUE, ends |-> TRUE], m.code)

Assembled == method # NoMethod
EmptyBlock == method.block /\ method.code = <<BC.RETURN_LOCAL>>

(* StackPlanned: an assembled method other than the empty block never pops *)
(* an operand that is not there, returns at its last byte and only there,  *)
(* with exactly the result on its stack, and never holds more operands     *)
(* than maximumNumberOfStackElements, for which Universe::NewFrame makes   *)
(* room.  This is what Interpreter assumes of its methods.                 *)
StackPlanned ==
  Assembled =>
    LET run == Execution(method)
    IN /\ run.ends
       /\ run.peak <= method.maximumNumberOfStackElements
       /\ EmptyBlock \/ (run.operands /\ run.single)

(* LiteralOperands: every literal operand names a literal of the kind the  *)
(* interpreter casts it to (VMMethod::GetConstant checks nothing).         *)
LiteralOperands ==
  Assembled =>
    \A i \in Offsets(method.code) :
      LET bc == method.code[i]
          Is(kinds) == /\ method.code[i + 1] < Len(method.lits)
                       /\ method.lits[method.code[i + 1] + 1].kind \in kinds
      IN /\ bc \in {BC.SEND, BC.SUPER_SEND, BC.PUSH_FIELD, BC.PUSH_GLOBAL,
                    BC.POP_FIELD} => Is({"symbol"})
         /\ bc = BC.PUSH_BLOCK => Is({"block"})
         /\ bc = BC.PUSH_CONSTANT => Is({"symbol", "object"})

(* VariableOperands: in every context on the way out, a variable bytecode  *)
(* names a local or argument that the context it points to declares, so    *)
(* that the frame reached by VMFrame::GetContextLevel has that slot.       *)
VariableOperands ==
  \A c \in 1..Len(gen) :
    LET code == gen[c].code
    IN \A i \in Offsets(code) :
         code[i] \in {BC.PUSH_LOCAL, BC.PUSH_ARGUMENT, BC.POP_LOCAL, BC.POP_ARGUMENT}
         => LET target == c + code[i + 2]
            IN /\ target <= Len(gen)
               /\ code[i + 1] < Len(IF code[i] \in {BC.PUSH_LOCAL, BC.POP_LOCAL}
                                    THEN gen[target].locals
                                    ELSE gen[target].args)

=============================================================================
