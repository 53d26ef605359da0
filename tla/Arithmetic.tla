----------------------------- MODULE Arithmetic -----------------------------
(***************************************************************************)
(* The arithmetic and comparison primitives of Integer, BigInteger and     *)
(* Double (primitives/Integer.cpp, BigInteger.cpp, Double.cpp) on the      *)
(* operand stack of a frame.                                               *)
(*                                                                         *)
(* An Integer is an int32_t, a BigInteger an int64_t.  Their widths are    *)
(* parameters, so that a small instance reaches every boundary.  A Double  *)
(* whose value is an integer is kept as that integer, rounded to the       *)
(* mantissa; any other Double (a fraction, an infinity, a NaN) is          *)
(* Untracked, and what is computed from it is Untracked too.  Other is any *)
(* object that is no number.                                               *)
(*                                                                         *)
(* A primitive of Integer whose operand is a BigInteger or a Double sends  *)
(* its message again, to a converted receiver; `calling' is the primitive  *)
(* that runs now.                                                          *)
(***************************************************************************)
EXTENDS Integers, Sequences

CONSTANTS
  IntLimit,   \* 2^31: an int32_t is in -IntLimit .. IntLimit - 1
  BigLimit,   \* 2^63
  DblLimit,   \* 2^53: the integers up to which a double is exact
  BitAnd(_, _), \* & of two int64_t
  Literals,   \* Integer literals of the program
  MaxSends,   \* bound on the messages sent
  MaxStack    \* bound on the operands on the stack

(* The product of two 32-bit integers fits in 64 bits.                     *)
ASSUME WidthAssumption ==
  /\ IntLimit \in Nat \ {0}
  /\ BigLimit \in Nat
  /\ IntLimit * IntLimit < BigLimit
  /\ DblLimit \in Nat
  /\ IntLimit <= DblLimit
  /\ \A a, b \in -BigLimit .. BigLimit - 1 : BitAnd(a, b) \in -BigLimit .. BigLimit - 1

ASSUME BoundAssumption ==
  /\ Literals \subseteq -IntLimit .. IntLimit - 1
  /\ MaxSends \in Nat
  /\ MaxStack \in Nat

VARIABLES
  stack,    \* operands, the top at the end
  calling,  \* [op, class] of the running primitive, or Idle
  depth,    \* how many operands there must be when no primitive runs
  first,    \* while a primitive runs, the operands of the program's message
  last,     \* [op, left, right, result] of a message that has just returned
  sends,    \* how many messages the program has sent
  status

vars == <<stack, calling, depth, first, last, sends, status>>

Int32 == -IntLimit .. IntLimit - 1
Int64 == -BigLimit .. BigLimit - 1

Integer(n) == [kind |-> "Integer", v |-> n]
BigInteger(n) == [kind |-> "BigInteger", v |-> n]
Double(n) == [kind |-> "Double", v |-> n]
Untracked == [kind |-> "Untracked", v |-> 0]
Boolean(b) == [kind |-> "Boolean", v |-> IF b THEN 1 ELSE 0]
Other == [kind |-> "Other", v |-> 0]
Crash == [kind |-> "Crash", v |-> 0]
ErrorExit == [kind |-> "ErrorExit", v |-> 0]

IsInteger(x) == x.kind = "Integer"
IsBigInteger(x) == x.kind = "BigInteger"
IsDouble(x) == x.kind \in {"Double", "Untracked"}
IsIntegral(x) == IsInteger(x) \/ IsBigInteger(x)
ClassOf(x) == IF IsDouble(x) THEN "Double" ELSE x.kind

Idle == [op |-> "none", class |-> "none"]
NoResult == [op |-> "none", left |-> Other, right |-> Other, result |-> Other]

(* The binary primitives of each class.                                    *)
IntegerOperations == {"+", "-", "*", "/", "//", "%", "&", "=", "<"}
BigIntegerOperations == IntegerOperations \ {"//"}
DoubleOperations == IntegerOperations \ {"/"}

Operations(class) ==
  CASE class = "Integer" -> IntegerOperations
    [] class = "BigInteger" -> BigIntegerOperations
    [] class = "Double" -> DoubleOperations
    [] OTHER -> {}

-----------------------------------------------------------------------------
(* Machine arithmetic.                                                     *)

Abs(n) == IF n < 0 THEN -n ELSE n

(* int64_t arithmetic; overflow wraps around on this target.               *)
Wrap64(n) == ((n + BigLimit) % (2 * BigLimit)) - BigLimit
Wrap32(n) == ((n + IntLimit) % (2 * IntLimit)) - IntLimit

(* Division of C truncates towards zero; b is not 0.                       *)
Quotient(a, b) ==
  IF (a < 0) = (b < 0) THEN Abs(a) \div Abs(b) ELSE -(Abs(a) \div Abs(b))

Remainder(a, b) == a - b * Quotient(a, b)

(* (double)n: round to the nearest representable integer, to even on a tie. *)
ToDouble(n) ==
  IF Abs(n) <= DblLimit THEN n
  ELSE LET step == CHOOSE s \in 2 .. Abs(n) :
                     /\ \E k \in 1 .. s : 2 ^ k = s
                     /\ DblLimit * s > Abs(n) /\ DblLimit * (s \div 2) <= Abs(n)
           q == Abs(n) \div step
           r == Abs(n) % step
           near == IF 2 * r < step \/ (2 * r = step /\ q % 2 = 0) THEN q ELSE q + 1
       IN IF n < 0 THEN -(near * step) ELSE near * step

(* A mutated form of pushResult: only the upper bound is checked.          *)
pushResult_UpperOnly(n) ==
  IF n >= IntLimit THEN BigInteger(n) ELSE Integer(Wrap32(n))

(* An Integer when the number fits in 32 bits.                             *)
pushResult(n) ==
  IF n > IntLimit - 1 \/ n < -IntLimit THEN BigInteger(n) ELSE Integer(n)

(* The macro of BigInteger.cpp has the same condition.                     *)
PUSH_INT_OR_BIGINT(n) == pushResult(n)

-----------------------------------------------------------------------------
(* What the primitives push, as the set of possible outcomes.              *)

(* A mutated form of Int64Result: a product is computed in 32 bits.        *)
Int64Result_Narrow(op, a, b) ==
  CASE op = "+" -> {Wrap64(a + b)}
    [] op = "-" -> {Wrap64(a - b)}
    [] op = "*" -> {Wrap32(a * b)}
    [] op = "&" -> {BitAnd(a, b)}
    [] op = "/" /\ b # 0 -> {Wrap64(Quotient(a, b))}
    [] op = "%" /\ b # 0 -> {Remainder(a, b)}
    [] OTHER -> {}

(* The int64_t operators.  Division by zero traps (no result); the one     *)
(* quotient that does not fit wraps or traps.                              *)
Int64Result(op, a, b) ==
  CASE op = "+" -> {Wrap64(a + b)}
    [] op = "-" -> {Wrap64(a - b)}
    [] op = "*" -> {Wrap64(a * b)}
    [] op = "&" -> {BitAnd(a, b)}
    [] op = "/" /\ b # 0 -> {Wrap64(Quotient(a, b))}
    [] op = "%" /\ b # 0 -> {Remainder(a, b)}
    [] OTHER -> {}

Traps(op, a, b) ==
  op \in {"/", "%"} /\ (b = 0 \/ (a = -BigLimit /\ b = -1))

Compare(op, a, b) == Boolean(IF op = "=" THEN a = b ELSE a < b)

(* A quotient of two doubles that are integers.                            *)
DoubleQuotient(a, b) ==
  IF b # 0 /\ Remainder(a, b) = 0 THEN Double(Quotient(a, b)) ELSE Untracked

(* _Integer::Plus and its like, once the operand is known to be neither    *)
(* BigInteger nor Double.                                                  *)
IntegerValues(op, a, b) ==
  IF op \in {"=", "<"} THEN {Compare(op, a, b)}
  ELSE IF op = "//" THEN {DoubleQuotient(a, b)}
  ELSE {pushResult(n) : n \in Int64Result(op, a, b)}
       \cup (IF Traps(op, a, b) THEN {Crash} ELSE {})

(* Equal asks what its operand is; the others read any object as if it     *)
(* were an Integer.                                                        *)
IntegerResult(op, left, right) ==
  IF IsInteger(right) THEN IntegerValues(op, left.v, right.v)
  ELSE IF op = "=" THEN {Boolean(FALSE)}
  ELSE UNION {IntegerValues(op, left.v, b) : b \in Int32}

(* Percent and And push a BigInteger whatever the result.                  *)
BigIntegerValues(op, a, b) ==
  IF op \in {"=", "<"} THEN {Compare(op, a, b)}
  ELSE (IF op \in {"%", "&"} THEN {BigInteger(n) : n \in Int64Result(op, a, b)}
        ELSE {PUSH_INT_OR_BIGINT(n) : n \in Int64Result(op, a, b)})
       \cup (IF Traps(op, a, b) THEN {Crash} ELSE {})

(* A mutated form of CHECK_BIGINT: an Integer operand is not converted.    *)
CHECK_BIGINT_Unconverted(x) == IF IsBigInteger(x) THEN {x.v} ELSE Int64

(* CHECK_BIGINT: an Integer is converted; anything else is read as if it   *)
(* were a BigInteger.                                                      *)
CHECK_BIGINT(x) == IF IsIntegral(x) THEN {x.v} ELSE Int64

BigIntegerResult(op, left, right) ==
  UNION {BigIntegerValues(op, left.v, b) : b \in CHECK_BIGINT(right)}

(* coerceDouble.                                                           *)
coerceDouble(x) ==
  IF IsIntegral(x) THEN Double(ToDouble(x.v))
  ELSE IF IsDouble(x) THEN x ELSE ErrorExit

DoubleOp(op, a, b) ==
  CASE op = "+" -> {Double(ToDouble(a + b))}
    [] op = "-" -> {Double(ToDouble(a - b))}
    [] op = "*" -> {Double(ToDouble(a * b))}
    [] op = "//" -> {DoubleQuotient(a, b)}
    [] op \in {"=", "<"} -> {Compare(op, a, b)}
    [] op \in {"%", "&"} /\ {a, b} \subseteq Int64 ->
         {Double(ToDouble(n)) : n \in Int64Result(op, a, b)}
         \cup (IF Traps(op, a, b) THEN {Crash} ELSE {})
    [] OTHER -> {Untracked, Crash}

(* _Double::Plus and its like.  Percent and And go through int64_t; the    *)
(* conversion of a value out of range is undefined.                        *)
DoubleResult(op, left, right) ==
  LET r == coerceDouble(right)
  IN IF r = ErrorExit THEN {ErrorExit}
     ELSE IF left.kind = "Double" /\ r.kind = "Double" THEN DoubleOp(op, left.v, r.v)
     ELSE IF op \in {"=", "<"} THEN {Boolean(TRUE), Boolean(FALSE)}
     ELSE IF op \in {"%"} THEN {Untracked, Crash} ELSE {Untracked}

-----------------------------------------------------------------------------
(* The frame.                                                              *)

Top == stack[Len(stack)]
Below == stack[Len(stack) - 1]
Popped(n) == SubSeq(stack, 1, Len(stack) - n)

Init ==
  /\ stack = <<>>
  /\ calling = Idle
  /\ depth = 0
  /\ first = << >>
  /\ last = NoResult
  /\ sends = 0
  /\ status = "running"

Ready == status = "running" /\ calling = Idle

(* An Integer literal, or an object that is no number.                     *)
PushConstant ==
  /\ Ready
  /\ Len(stack) < MaxStack
  /\ \E x \in {Integer(n) : n \in Literals} \cup {Other} : stack' = Append(stack, x)
  /\ depth' = depth + 1
  /\ last' = NoResult
  /\ UNCHANGED <<calling, first, sends, status>>

(* The program sends a binary message its receiver understands.            *)
Send(op) ==
  /\ Ready
  /\ sends < MaxSends
  /\ Len(stack) >= 2
  /\ op \in Operations(ClassOf(Below))
  /\ calling' = [op |-> op, class |-> ClassOf(Below)]
  /\ first' = << Below, Top >>
  /\ sends' = sends + 1
  /\ depth' = depth - 1
  /\ last' = NoResult
  /\ UNCHANGED <<stack, status>>

(* A primitive pushes its result and returns; or the process ends in it.   *)
Returns(results, n) ==
  \E r \in results :
    IF r \in {Crash, ErrorExit}
    THEN /\ status' = r.kind
         /\ UNCHANGED <<stack, calling, depth, first, last, sends>>
    ELSE /\ stack' = Append(Popped(n), r)
         /\ calling' = Idle
         /\ last' = [op |-> calling.op, left |-> first[1], right |-> first[2],
                     result |-> r]
         /\ first' = << >>
         /\ UNCHANGED <<depth, sends, status>>

Running(class) == status = "running" /\ calling.class = class

NeedsCoercion(x) == IsBigInteger(x) \/ IsDouble(x)

IntegerPrimitive ==
  /\ Running("Integer")
  /\ ~NeedsCoercion(Top)
  /\ Returns(IntegerResult(calling.op, Below, Top), 2)

(* A mutated form of Resend: the operands stay on the stack.               *)
Resend_NoPop(class, receiver, op) ==
  /\ stack' = stack \o << receiver, Top >>
  /\ calling' = [op |-> op, class |-> class]
  /\ UNCHANGED <<depth, first, last, sends, status>>

(* A mutated form of Resend: the message goes to the same primitive again. *)
Resend_Same(class, receiver, op) ==
  /\ stack' = Popped(2) \o << Below, Top >>
  /\ calling' = calling
  /\ UNCHANGED <<depth, first, last, sends, status>>

(* VMObject::Send after both operands were popped.                         *)
Resend(class, receiver, op) ==
  /\ stack' = Popped(2) \o << receiver, Top >>
  /\ calling' = [op |-> op, class |-> class]
  /\ UNCHANGED <<depth, first, last, sends, status>>

(* Slashslash resends its message as the selector of Slash.                *)
ResentAs(op) == IF op = "//" THEN "/" ELSE op

CoercedClass(x) == IF IsBigInteger(x) THEN "BigInteger" ELSE "Double"

(* CHECK_COERCION: resendAsBigInteger or resendAsDouble.                   *)
CHECK_COERCION ==
  /\ Running("Integer")
  /\ NeedsCoercion(Top)
  /\ ResentAs(calling.op) \in Operations(CoercedClass(Top))
  /\ Resend(CoercedClass(Top),
            IF CoercedClass(Top) = "BigInteger" THEN BigInteger(Below.v)
            ELSE Double(ToDouble(Below.v)),
            ResentAs(calling.op))

(* The class has no such method: Send calls through the NULL it looked up. *)
CHECK_COERCION_Null ==
  /\ Running("Integer")
  /\ NeedsCoercion(Top)
  /\ ResentAs(calling.op) \notin Operations(CoercedClass(Top))
  /\ status' = "Crash"
  /\ UNCHANGED <<stack, calling, depth, first, last, sends>>

BigIntegerPrimitive ==
  /\ Running("BigInteger")
  /\ Returns(BigIntegerResult(calling.op, Below, Top), 2)

DoublePrimitive ==
  /\ Running("Double")
  /\ Returns(DoubleResult(calling.op, Below, Top), 2)

(* The unary primitives replace their receiver.                            *)
Unary(results) ==
  /\ Ready
  /\ sends < MaxSends
  /\ sends' = sends + 1
  /\ \E r \in results : stack' = Append(Popped(1), r)
  /\ last' = NoResult
  /\ UNCHANGED <<calling, depth, first, status>>

OnNumber == stack # <<>> /\ ClassOf(Top) \in {"Integer", "BigInteger", "Double"}

AsString == OnNumber /\ Unary({Other})

(* sqrt of a double that is the integer n.                                 *)
SquareRoot(n) ==
  LET roots == {r \in 0 .. n : r * r = n}
  IN IF roots = {} THEN Untracked ELSE Double(CHOOSE r \in roots : TRUE)

Sqrt ==
  /\ OnNumber
  /\ Unary({IF Top.kind = "Untracked" THEN Untracked
            ELSE SquareRoot(ToDouble(Top.v))})

(* An int32_t product with rand(), which may overflow, modulo INT32_MAX.   *)
AtRandom ==
  /\ stack # <<>>
  /\ IsInteger(Top)
  /\ Unary({Integer(n) : n \in (2 - IntLimit) .. (IntLimit - 2)})

(* The program may end between two messages.                               *)
Done ==
  /\ status # "running" \/ calling = Idle
  /\ UNCHANGED vars

Next ==
  \/ PushConstant
  \/ \E op \in Operations("Integer") : Send(op)
  \/ IntegerPrimitive \/ CHECK_COERCION \/ CHECK_COERCION_Null
  \/ BigIntegerPrimitive \/ DoublePrimitive
  \/ AsString \/ Sqrt \/ AtRandom
  \/ Done

Spec == Init /\ [][Next]_vars

(* A primitive that runs goes on: it is straight-line C++.                 *)
Primitives == IntegerPrimitive \/ CHECK_COERCION \/ CHECK_COERCION_Null
              \/ BigIntegerPrimitive \/ DoublePrimitive
FairSpec == Spec /\ WF_vars(Primitives)

-----------------------------------------------------------------------------
(* Properties.                                                             *)

(* StackBalanced: whichever way a binary message takes, with or without    *)
(* coercion, it removes its two operands and leaves one result.            *)
StackBalanced == calling = Idle => Len(stack) = depth

Exact(op, a, b) ==
  CASE op = "+" -> a + b
    [] op = "-" -> a - b
    [] op = "*" -> a * b
    [] op = "/" -> Quotient(a, b)
    [] OTHER -> Remainder(a, b)

(* IntegerExact: arithmetic on two Integers is exact: nothing is lost in   *)
(* 64 bits, and the result is an Integer just when it fits in 32.          *)
IntegerExact ==
  last.op \in {"+", "-", "*", "/", "%"} /\ IsInteger(last.left) /\ IsInteger(last.right)
  => LET n == Exact(last.op, last.left.v, last.right.v)
     IN last.result = IF n \in Int32 THEN Integer(n) ELSE BigInteger(n)

(* IntegralExact: so is arithmetic with BigIntegers as long as the exact   *)
(* result fits in 64 bits, whatever the classes of the operands; how a     *)
(* number is represented does not change what is computed.                 *)
IntegralExact ==
  /\ last.op \in {"+", "-", "*", "/"} /\ IsIntegral(last.left) /\ IsIntegral(last.right)
  /\ Exact(last.op, last.left.v, last.right.v) \in Int64
  => LET n == Exact(last.op, last.left.v, last.right.v)
     IN last.result = IF n \in Int32 THEN Integer(n) ELSE BigInteger(n)

(* ComparisonExact: = and < compare values, across classes and in either   *)
(* direction: a number that % or & left as a BigInteger equals the Integer *)
(* of the same value.                                                      *)
ComparisonExact ==
  last.op \in {"=", "<"} /\ IsIntegral(last.left) /\ IsIntegral(last.right)
  => last.result = Compare(last.op, last.left.v, last.right.v)

(* CallsReturn: every message to a number returns or ends the process; a   *)
(* resent message is not sent back.                                        *)
CallsReturn == calling # Idle ~> calling = Idle \/ status # "running"
=============================================================================
