-------------------------- MODULE ArithmeticProofs --------------------------
(***************************************************************************)
(* The arithmetic primitives compute what they promise for every width of  *)
(* Integer, BigInteger and Double that WidthAssumption allows (32, 64 and  *)
(* 53 bits are one instance).                                              *)
(*                                                                         *)
(* The invariant follows a message through its coercion: while a primitive *)
(* runs, the top of the stack is the operand the program sent, and the     *)
(* receiver below it is the program's receiver, or that receiver converted *)
(* to the class whose primitive now runs, with the same value when that    *)
(* class is BigInteger.  What the primitive then computes in 64 bits is    *)
(* exact because two 32-bit numbers never overflow them.                   *)
(***************************************************************************)
EXTENDS Arithmetic, TLAPS

-----------------------------------------------------------------------------
(* Machine arithmetic.                                                     *)

\* Integer division and remainder.
LEMMA DivFacts ==
  ASSUME NEW x \in Nat, NEW y \in Nat \ {0}
  PROVE  /\ x \div y \in Nat /\ x \div y <= x
         /\ x % y \in Nat /\ x % y < y
         /\ x = y * (x \div y) + (x % y)
<1>1. x \div y \in Nat /\ x % y \in Nat /\ x % y < y
  OBVIOUS
<1>2. x = y * (x \div y) + (x % y)
  OBVIOUS
<1>3. x \div y <= x
  <2> DEFINE q == x \div y
  <2>1. q \in Nat /\ y * q <= x
    BY <1>1, <1>2
  <2>2. y * q >= q
    <3> HIDE DEF q
    <3>1. y - 1 \in Nat /\ (y - 1) * q \in Nat
      BY <2>1
    <3>2. y * q = (y - 1) * q + q
      BY <2>1
    <3> QED BY <2>1, <3>1, <3>2
  <2> HIDE DEF q
  <2>3. q <= x
    BY <2>1, <2>2
  <2> QED BY <2>3 DEF q
<1> QED BY <1>1, <1>2, <1>3

LEMMA ModSmall ==
  ASSUME NEW y \in Nat \ {0}, NEW x \in 0 .. y - 1
  PROVE  x % y = x
<1> DEFINE q == x \div y
           r == x % y
<1>1. q \in Int /\ r \in 0 .. y - 1 /\ x = y * q + r
  BY DivFacts
<1> HIDE DEF q, r
<1>2. q <= 0
  <2>1. SUFFICES ASSUME q >= 1 PROVE FALSE
    BY <1>1
  <2>2. y * q = y * (q - 1) + y /\ y * (q - 1) >= 0
    BY <2>1, <1>1
  <2> QED BY <2>2, <1>1
<1>3. q >= 0
  <2>1. SUFFICES ASSUME q <= -1 PROVE FALSE
    BY <1>1
  <2>2. y * q = y * (q + 1) - y /\ y * (q + 1) <= 0
    BY <2>1, <1>1
  <2> QED BY <2>2, <1>1
<1>4. q = 0
  BY <1>1, <1>2, <1>3
<1>5. r = x
  BY <1>1, <1>4
<1> QED BY <1>5 DEF r

LEMMA Wrap64Facts ==
  ASSUME NEW n \in Int
  PROVE  /\ Wrap64(n) \in Int64
         /\ n \in Int64 => Wrap64(n) = n
<1>w. BigLimit \in Nat /\ BigLimit > 0 /\ 2 * BigLimit \in Nat \ {0}
  <2>1. IntLimit * IntLimit >= 0
    BY WidthAssumption
  <2> QED BY <2>1, WidthAssumption
<1>1. (n + BigLimit) % (2 * BigLimit) \in 0 .. 2 * BigLimit - 1
  BY <1>w
<1>2. Wrap64(n) \in Int64
  BY <1>1, <1>w DEF Wrap64, Int64
<1>3. ASSUME n \in Int64 PROVE Wrap64(n) = n
  <2>1. n + BigLimit \in 0 .. 2 * BigLimit - 1
    BY <1>3, <1>w DEF Int64
  <2>2. (n + BigLimit) % (2 * BigLimit) = n + BigLimit
    BY <2>1, <1>w, ModSmall
  <2> QED BY <2>2, <1>w DEF Wrap64
<1> QED BY <1>2, <1>3

\* C's division and remainder stay within their operands.
LEMMA QuotientFacts ==
  ASSUME NEW a \in Int, NEW b \in Int, b # 0
  PROVE  /\ Quotient(a, b) \in Int /\ Abs(Quotient(a, b)) <= Abs(a)
         /\ Remainder(a, b) \in Int /\ Abs(Remainder(a, b)) < Abs(b)
<1> DEFINE x == Abs(a)
           y == Abs(b)
           q == x \div y
           r == x % y
<1>1. x \in Nat /\ y \in Nat \ {0}
  BY DEF Abs
<1>2. q \in Nat /\ q <= x /\ r \in Nat /\ r < y /\ x = y * q + r
  BY <1>1, DivFacts
<1>3. /\ (a < 0 /\ x = -a) \/ (a >= 0 /\ x = a)
      /\ (b < 0 /\ y = -b) \/ (b >= 0 /\ y = b)
  BY DEF Abs
<1>4. Quotient(a, b) = IF (a < 0) = (b < 0) THEN q ELSE -q
  BY DEF Quotient
<1> HIDE DEF x, y, q, r
<1>5. Quotient(a, b) \in Int /\ Abs(Quotient(a, b)) <= x
  BY <1>1, <1>2, <1>4 DEF Abs
<1>6. Remainder(a, b) = IF a < 0 THEN -r ELSE r
  <2>0. Remainder(a, b) = a - b * Quotient(a, b)
    BY DEF Remainder
  <2>1. CASE a < 0 /\ b < 0
    <3>1. Quotient(a, b) = q /\ b = -y /\ a = -x
      BY <2>1, <1>3, <1>4, <1>1
    <3>2. b * q = -(y * q)
      BY <3>1, <1>1, <1>2
    <3> QED BY <2>0, <2>1, <3>1, <3>2, <1>1, <1>2
  <2>2. CASE a < 0 /\ ~ (b < 0)
    <3>1. Quotient(a, b) = -q /\ b = y /\ a = -x
      BY <2>2, <1>3, <1>4, <1>1
    <3>2. b * (-q) = -(y * q)
      BY <3>1, <1>1, <1>2
    <3> QED BY <2>0, <2>2, <3>1, <3>2, <1>1, <1>2
  <2>3. CASE ~ (a < 0) /\ b < 0
    <3>1. Quotient(a, b) = -q /\ b = -y /\ a = x
      BY <2>3, <1>3, <1>4, <1>1
    <3>2. b * (-q) = y * q
      BY <3>1, <1>1, <1>2
    <3> QED BY <2>0, <2>3, <3>1, <3>2, <1>1, <1>2
  <2>4. CASE ~ (a < 0) /\ ~ (b < 0)
    <3>1. Quotient(a, b) = q /\ b = y /\ a = x
      BY <2>4, <1>3, <1>4, <1>1
    <3> QED BY <2>0, <2>4, <3>1, <1>1, <1>2
  <2> QED BY <2>1, <2>2, <2>3, <2>4
<1>7. Remainder(a, b) \in Int /\ Abs(Remainder(a, b)) < y
  BY <1>6, <1>1, <1>2 DEF Abs
<1> QED BY <1>5, <1>7 DEF x, y

\* What two 32-bit integers give fits in 64 bits: the widths are chosen so that no
\* product of theirs overflows.
LEMMA NarrowFits ==
  ASSUME NEW a \in Int32, NEW b \in Int32
  PROVE  /\ a \in Int64 /\ b \in Int64
         /\ a + b \in Int64 /\ a - b \in Int64 /\ a * b \in Int64
         /\ b # 0 => Quotient(a, b) \in Int64
<1> DEFINE L == IntLimit
<1>1. /\ L \in Nat \ {0} /\ BigLimit \in Nat /\ L * L < BigLimit
      /\ a \in Int /\ b \in Int /\ -L <= a /\ a <= L - 1 /\ -L <= b /\ b <= L - 1
  BY WidthAssumption DEF Int32
<1> HIDE DEF L
<1>2. L <= L * L
  <2>1. (L - 1) * L >= 0
    BY <1>1
  <2>2. L * L = (L - 1) * L + L
    BY <1>1
  <2> QED BY <2>1, <2>2, <1>1
<1>3. L = 1 \/ 2 * L <= L * L
  <2>1. SUFFICES ASSUME L >= 2 PROVE 2 * L <= L * L
    BY <1>1
  <2>2. (L - 2) * L >= 0 /\ L * L = (L - 2) * L + 2 * L
    BY <2>1, <1>1
  <2> QED BY <2>2, <1>1
<1>4. a * b \in Int /\ -(L * L) <= a * b /\ a * b <= L * L
  <2>1. (L - a) * (L + b) >= 0 /\ (L + a) * (L - b) >= 0
    BY <1>1
  <2>2. (L - a) * (L - b) >= 0 /\ (L + a) * (L + b) >= 0
    BY <1>1
  <2>3. /\ (L - a) * (L + b) = L * L + L * b - L * a - a * b
        /\ (L + a) * (L - b) = L * L - L * b + L * a - a * b
        /\ (L - a) * (L - b) = L * L - L * b - L * a + a * b
        /\ (L + a) * (L + b) = L * L + L * b + L * a + a * b
    BY <1>1
  <2>4. L * L \in Int /\ L * a \in Int /\ L * b \in Int /\ a * b \in Int
    BY <1>1
  <2> QED BY <2>1, <2>2, <2>3, <2>4
<1>5. a * b \in Int64 /\ a + b \in Int64 /\ a - b \in Int64 /\ a \in Int64 /\ b \in Int64
  BY <1>1, <1>2, <1>3, <1>4 DEF Int64
<1>6. ASSUME b # 0 PROVE Quotient(a, b) \in Int64
  <2>1. Quotient(a, b) \in Int /\ Abs(Quotient(a, b)) <= Abs(a)
    BY <1>1, <1>6, QuotientFacts
  <2>2. Abs(a) <= L
    BY <1>1 DEF Abs
  <2>3. -L <= Quotient(a, b) /\ Quotient(a, b) <= L
    BY <2>1, <2>2, <1>1 DEF Abs
  <2> QED BY <2>1, <2>3, <1>1, <1>2 DEF Int64
<1> QED BY <1>5, <1>6

-----------------------------------------------------------------------------
(* The results of the primitives.                                          *)

(* What may lie on the operand stack.                                      *)
Value(x) ==
  /\ x.kind \in {"Integer", "BigInteger", "Double", "Untracked", "Boolean", "Other"}
  /\ x.kind = "Integer" => x.v \in Int32
  /\ x.kind = "BigInteger" => x.v \in Int64

(* The object that stands for the number n.                                *)
Fitted(n) == IF n \in Int32 THEN Integer(n) ELSE BigInteger(n)

(* x is the right answer to the message op from l to r.                    *)
SoundInteger(op, l, r, x) ==
  op \in {"+", "-", "*", "/", "%"} /\ IsInteger(l) /\ IsInteger(r)
  => x = Fitted(Exact(op, l.v, r.v))

SoundIntegral(op, l, r, x) ==
  /\ op \in {"+", "-", "*", "/"} /\ IsIntegral(l) /\ IsIntegral(r)
  /\ Exact(op, l.v, r.v) \in Int64
  => x = Fitted(Exact(op, l.v, r.v))

SoundComparison(op, l, r, x) ==
  op \in {"=", "<"} /\ IsIntegral(l) /\ IsIntegral(r)
  => x = Compare(op, l.v, r.v)

Sound(op, l, r, x) ==
  /\ SoundInteger(op, l, r, x)
  /\ SoundIntegral(op, l, r, x)
  /\ SoundComparison(op, l, r, x)

LEMMA Inclusion == Int32 \subseteq Int64 /\ Int64 \subseteq Int
<1>1. \A a \in Int32 : a \in Int64
  BY NarrowFits
<1>2. Int64 \subseteq Int
  BY WidthAssumption DEF Int64
<1> QED BY <1>1, <1>2

(* pushResult stores a 64-bit number as the smallest object that holds it. *)
LEMMA PushFits ==
  ASSUME NEW n \in Int64
  PROVE  pushResult(n) = Fitted(n) /\ Value(pushResult(n)) /\ Value(BigInteger(n))
<1>0. n \in Int /\ IntLimit \in Nat
  BY WidthAssumption, Inclusion
<1>1. (n > IntLimit - 1 \/ n < -IntLimit) <=> n \notin Int32
  BY <1>0 DEF Int32
<1>2. pushResult(n) = Fitted(n)
  BY <1>1 DEF pushResult, Fitted
<1>3. Value(BigInteger(n)) /\ (n \in Int32 => Value(Integer(n)))
  BY DEF Value, BigInteger, Integer
<1> QED BY <1>2, <1>3 DEF Fitted

(* Int64Result stays in 64 bits.                                           *)
LEMMA ResultFits ==
  ASSUME NEW op, NEW a \in Int64, NEW b \in Int64, NEW n \in Int64Result(op, a, b)
  PROVE  n \in Int64
<1>0. a \in Int /\ b \in Int
  BY Inclusion
<1>1. CASE op = "+"
  BY <1>0, <1>1, Wrap64Facts DEF Int64Result
<1>2. CASE op = "-"
  BY <1>0, <1>2, Wrap64Facts DEF Int64Result
<1>3. CASE op = "*"
  BY <1>0, <1>3, Wrap64Facts DEF Int64Result
<1>4. CASE op = "&"
  BY <1>4, WidthAssumption DEF Int64Result, Int64
<1>5. CASE op = "/" /\ b # 0
  BY <1>0, <1>5, Wrap64Facts, QuotientFacts DEF Int64Result
<1>6. CASE op = "%" /\ b # 0
  <2>1. n = Remainder(a, b)
    BY <1>6 DEF Int64Result
  <2>2. n \in Int /\ Abs(n) < Abs(b)
    BY <1>0, <1>6, <2>1, QuotientFacts
  <2>3. Abs(b) <= BigLimit
    BY <1>0, WidthAssumption DEF Abs, Int64
  <2>4. BigLimit \in Int /\ Abs(n) \in Int /\ Abs(b) \in Int
    BY <1>0, <2>2, WidthAssumption DEF Abs
  <2>5. Abs(n) < BigLimit
    BY <2>2, <2>3, <2>4
  <2>6. -BigLimit < n /\ n < BigLimit
    BY <2>2, <2>4, <2>5 DEF Abs
  <2> QED BY <2>2, <2>4, <2>6 DEF Int64
<1>7. CASE /\ op \notin {"+", "-", "*", "&"}
           /\ ~ (op = "/" /\ b # 0) /\ ~ (op = "%" /\ b # 0)
  BY <1>7 DEF Int64Result
<1> QED BY <1>1, <1>2, <1>3, <1>4, <1>5, <1>6, <1>7

(* Where the exact result fits in 64 bits, Int64Result is that result.     *)
LEMMA ResultExact ==
  ASSUME NEW op \in {"+", "-", "*", "/", "%"}, NEW a \in Int64, NEW b \in Int64,
         NEW n \in Int64Result(op, a, b),
         op = "%" \/ Exact(op, a, b) \in Int64
  PROVE  n = Exact(op, a, b)
<1>0. a \in Int /\ b \in Int
  BY Inclusion
<1>1. CASE op = "+"
  BY <1>0, <1>1, Wrap64Facts DEF Int64Result, Exact
<1>2. CASE op = "-"
  BY <1>0, <1>2, Wrap64Facts DEF Int64Result, Exact
<1>3. CASE op = "*"
  BY <1>0, <1>3, Wrap64Facts DEF Int64Result, Exact
<1>4. CASE op = "/"
  BY <1>0, <1>4, Wrap64Facts, QuotientFacts DEF Int64Result, Exact
<1>5. CASE op = "%"
  BY <1>0, <1>5 DEF Int64Result, Exact
<1> QED BY <1>1, <1>2, <1>3, <1>4, <1>5

(* On two 32-bit numbers the exact result always fits.                     *)
LEMMA NarrowExact ==
  ASSUME NEW op \in {"+", "-", "*", "/", "%"}, NEW a \in Int32, NEW b \in Int32,
         NEW n \in Int64Result(op, a, b)
  PROVE  n = Exact(op, a, b)
<1>1. a \in Int64 /\ b \in Int64
  BY NarrowFits
<1>2. op = "/" => b # 0
  BY DEF Int64Result
<1>3. op = "%" \/ Exact(op, a, b) \in Int64
  BY <1>2, NarrowFits DEF Exact
<1> QED BY <1>1, <1>3, ResultExact

(* _Integer's primitives on two Integers: what they push is a value and    *)
(* the right answer.                                                       *)
LEMMA IntegerValuesSound ==
  ASSUME NEW op, NEW l, NEW r, Value(l), Value(r), IsInteger(l), IsInteger(r),
         NEW x \in IntegerValues(op, l.v, r.v), x # Crash
  PROVE  Value(x) /\ Sound(op, l, r, x)
<1>0. l.v \in Int32 /\ r.v \in Int32 /\ l.v \in Int64 /\ r.v \in Int64
  BY Inclusion DEF Value, IsInteger
<1>1. CASE op \in {"=", "<"}
  <2>1. x = Compare(op, l.v, r.v)
    BY <1>1 DEF IntegerValues
  <2>2. Value(x)
    BY <2>1 DEF Compare, Boolean, Value
  <2> QED BY <1>1, <2>1, <2>2 DEF Sound, SoundInteger, SoundIntegral, SoundComparison
<1>2. CASE op = "//"
  <2>1. x = DoubleQuotient(l.v, r.v)
    BY <1>2 DEF IntegerValues
  <2>2. Value(x)
    BY <2>1 DEF DoubleQuotient, Double, Untracked, Value
  <2> QED BY <1>2, <2>2 DEF Sound, SoundInteger, SoundIntegral, SoundComparison
<1>3. CASE op \notin {"=", "<", "//"}
  <2>1. PICK n \in Int64Result(op, l.v, r.v) : x = pushResult(n)
    BY <1>3 DEF IntegerValues
  <2>2. Value(x) /\ x = Fitted(n)
    BY <1>0, <2>1, ResultFits, PushFits
  <2>3. ASSUME op \in {"+", "-", "*", "/", "%"} PROVE n = Exact(op, l.v, r.v)
    BY <1>0, <2>3, NarrowExact
  <2> QED BY <1>3, <2>2, <2>3 DEF Sound, SoundInteger, SoundIntegral, SoundComparison
<1> QED BY <1>1, <1>2, <1>3

(* Read as an Integer, any object still gives a value.                     *)
LEMMA IntegerValuesTyped ==
  ASSUME NEW op, NEW a \in Int32, NEW b \in Int32,
         NEW x \in IntegerValues(op, a, b), x # Crash
  PROVE  Value(x)
<1>1. Value(Integer(a)) /\ Value(Integer(b)) /\ IsInteger(Integer(a)) /\ IsInteger(Integer(b))
      /\ Integer(a).v = a /\ Integer(b).v = b
  BY DEF Value, Integer, IsInteger
<1>2. x \in IntegerValues(op, Integer(a).v, Integer(b).v)
  BY <1>1
<1> QED BY <1>1, <1>2, IntegerValuesSound

LEMMA IntegerResultSound ==
  ASSUME NEW op, NEW l, NEW r, Value(l), Value(r), IsInteger(l), ~NeedsCoercion(r),
         NEW x \in IntegerResult(op, l, r), x # Crash
  PROVE  Value(x) /\ Sound(op, l, r, x)
<1>1. CASE IsInteger(r)
  <2>1. x \in IntegerValues(op, l.v, r.v)
    BY <1>1 DEF IntegerResult
  <2> QED BY <1>1, <2>1, IntegerValuesSound
<1>2. CASE ~IsInteger(r)
  <2>1. Sound(op, l, r, x)
    BY <1>2 DEF Sound, SoundInteger, SoundIntegral, SoundComparison, NeedsCoercion, IsIntegral
  <2>2. l.v \in Int32
    BY DEF Value, IsInteger
  <2>3. CASE op = "="
    <3>1. x = Boolean(FALSE)
      BY <1>2, <2>3 DEF IntegerResult
    <3> QED BY <2>1, <3>1 DEF Boolean, Value
  <2>4. CASE op # "="
    <3>1. PICK b \in Int32 : x \in IntegerValues(op, l.v, b)
      BY <1>2, <2>4 DEF IntegerResult
    <3>2. Value(x)
      BY <2>2, <3>1, IntegerValuesTyped
    <3> QED BY <2>1, <3>2
  <2> QED BY <2>3, <2>4
<1> QED BY <1>1, <1>2

LEMMA BigIntegerValuesTyped ==
  ASSUME NEW op, NEW a \in Int64, NEW b \in Int64,
         NEW x \in BigIntegerValues(op, a, b), x # Crash
  PROVE  /\ Value(x)
         /\ op \in {"=", "<"} => x = Compare(op, a, b)
         /\ op \in {"+", "-", "*", "/"} /\ Exact(op, a, b) \in Int64
              => x = Fitted(Exact(op, a, b))
<1>1. CASE op \in {"=", "<"}
  <2>1. x = Compare(op, a, b)
    BY <1>1 DEF BigIntegerValues
  <2>2. Value(x)
    BY <2>1 DEF Compare, Boolean, Value
  <2> QED BY <1>1, <2>1, <2>2
<1>2. CASE op \in {"%", "&"}
  <2>1. PICK n \in Int64Result(op, a, b) : x = BigInteger(n)
    BY <1>2 DEF BigIntegerValues
  <2> QED BY <1>2, <2>1, ResultFits, PushFits
<1>3. CASE op \notin {"=", "<", "%", "&"}
  <2>1. PICK n \in Int64Result(op, a, b) : x = pushResult(n)
    BY <1>3 DEF BigIntegerValues, PUSH_INT_OR_BIGINT
  <2>2. Value(x) /\ x = Fitted(n)
    BY <2>1, ResultFits, PushFits
  <2>3. ASSUME op \in {"+", "-", "*", "/"}, Exact(op, a, b) \in Int64
        PROVE  n = Exact(op, a, b)
    BY <2>3, ResultExact
  <2> QED BY <1>3, <2>2, <2>3
<1> QED BY <1>1, <1>2, <1>3

(* The receiver l of a BigInteger primitive is the program's receiver p or *)
(* an Integer p that was converted: the answer is right for p.             *)
LEMMA BigIntegerResultSound ==
  ASSUME NEW op, NEW p, NEW l, NEW r, Value(p), Value(l), Value(r), IsBigInteger(l),
         l.v = p.v, IsInteger(p) => IsBigInteger(r),
         NEW x \in BigIntegerResult(op, l, r), x # Crash
  PROVE  Value(x) /\ Sound(op, p, r, x)
<1>0. l.v \in Int64
  BY DEF Value, IsBigInteger
<1>1. PICK b \in CHECK_BIGINT(r) : x \in BigIntegerValues(op, l.v, b)
  BY DEF BigIntegerResult
<1>2. IsIntegral(r) => b = r.v /\ b \in Int64
  BY <1>1, Inclusion DEF CHECK_BIGINT, IsIntegral, IsInteger, IsBigInteger, Value
<1>3. b \in Int64
  BY <1>1, <1>2 DEF CHECK_BIGINT
<1>4. /\ Value(x)
      /\ op \in {"=", "<"} => x = Compare(op, l.v, b)
      /\ op \in {"+", "-", "*", "/"} /\ Exact(op, l.v, b) \in Int64
           => x = Fitted(Exact(op, l.v, b))
  BY <1>0, <1>1, <1>3, BigIntegerValuesTyped
<1>5. ~(IsInteger(p) /\ IsInteger(r))
  BY DEF IsInteger, IsBigInteger
<1> QED BY <1>2, <1>4, <1>5 DEF Sound, SoundInteger, SoundIntegral, SoundComparison

(* A Double primitive pushes a Double or a Boolean.                        *)
LEMMA DoubleOpTyped ==
  ASSUME NEW op, NEW a, NEW b, NEW x \in DoubleOp(op, a, b), x # Crash
  PROVE  Value(x)
<1>1. \A n : Value(Double(n))
  BY DEF Value, Double
<1>2. Value(Untracked) /\ Value(Boolean(TRUE)) /\ Value(Boolean(FALSE))
  BY DEF Value, Untracked, Boolean
<1>3. Value(DoubleQuotient(a, b))
  BY <1>1, <1>2 DEF DoubleQuotient
<1>4. Value(Compare(op, a, b))
  BY DEF Compare, Value, Boolean
<1>5. CASE op \in {"+", "-", "*"}
  BY <1>1, <1>5 DEF DoubleOp
<1>6. CASE op = "//"
  <2>1. op # "+" /\ op # "-" /\ op # "*"
    BY <1>6
  <2>2. x \in {DoubleQuotient(a, b)}
    BY <1>6, <2>1, Zenon DEF DoubleOp
  <2> QED BY <1>3, <2>2
<1>7. CASE op \in {"=", "<"}
  <2>1. op # "+" /\ op # "-" /\ op # "*" /\ op # "//"
    BY <1>7
  <2>2. x \in {Compare(op, a, b)}
    BY <1>7, <2>1, Zenon DEF DoubleOp
  <2> QED BY <1>4, <2>2
<1>8. CASE op \in {"%", "&"} /\ {a, b} \subseteq Int64
  <2>1. x \in {Double(ToDouble(n)) : n \in Int64Result(op, a, b)}
    BY <1>8 DEF DoubleOp
  <2> QED BY <2>1, <1>1
<1>9. CASE op \notin {"+", "-", "*", "//", "=", "<"}
           /\ ~ (op \in {"%", "&"} /\ {a, b} \subseteq Int64)
  BY <1>2, <1>9 DEF DoubleOp
<1> QED BY <1>5, <1>6, <1>7, <1>8, <1>9

LEMMA DoubleResultTyped ==
  ASSUME NEW op, NEW l, NEW r, NEW x \in DoubleResult(op, l, r),
         x \notin {Crash, ErrorExit}
  PROVE  Value(x)
<1>1. Value(Untracked) /\ Value(Boolean(TRUE)) /\ Value(Boolean(FALSE))
  BY DEF Value, Untracked, Boolean
<1> DEFINE c == coerceDouble(r)
<1>2. \/ x = ErrorExit
      \/ x \in DoubleOp(op, l.v, c.v)
      \/ x \in {Boolean(TRUE), Boolean(FALSE), Untracked, Crash}
  BY DEF DoubleResult
<1>3. CASE x \in DoubleOp(op, l.v, c.v)
  BY <1>3, DoubleOpTyped
<1> QED BY <1>1, <1>2, <1>3


-----------------------------------------------------------------------------
(* The operand stack.                                                      *)

(* A sequence of values.                                                   *)
GoodStack(s) ==
  /\ s \in Seq({s[i] : i \in 1 .. Len(s)})
  /\ \A i \in 1 .. Len(s) : Value(s[i])

LEMMA GoodStackIntro ==
  ASSUME NEW S, NEW s \in Seq(S), \A x \in S : Value(x)
  PROVE  GoodStack(s)
<1>1. Len(s) \in Nat /\ \A i \in 1 .. Len(s) : s[i] \in S
  OBVIOUS
<1>2. s \in Seq({s[i] : i \in 1 .. Len(s)})
  OBVIOUS
<1> QED BY <1>1, <1>2 DEF GoodStack

LEMMA GoodStackElim ==
  ASSUME NEW s, GoodStack(s)
  PROVE  Len(s) \in Nat /\ \E S : s \in Seq(S) /\ \A x \in S : Value(x)
<1> DEFINE S == {s[i] : i \in 1 .. Len(s)}
<1>1. s \in Seq(S) /\ \A x \in S : Value(x)
  BY DEF GoodStack
<1>2. Len(s) \in Nat
  BY <1>1
<1> QED BY <1>1, <1>2

LEMMA PrefixFacts ==
  ASSUME NEW T, NEW s \in Seq(T), NEW k \in Nat, k <= Len(s)
  PROVE  SubSeq(s, 1, k) \in Seq(T) /\ Len(SubSeq(s, 1, k)) = k
OBVIOUS

LEMMA ConcatFacts ==
  ASSUME NEW T, NEW u \in Seq(T), NEW v \in Seq(T)
  PROVE  u \o v \in Seq(T) /\ Len(u \o v) = Len(u) + Len(v)
OBVIOUS

(* The primitives take n operands off the stack and push a value.          *)
LEMMA PushGood ==
  ASSUME NEW s, GoodStack(s), NEW n \in Nat, n <= Len(s), NEW x, Value(x)
  PROVE  LET t == Append(SubSeq(s, 1, Len(s) - n), x)
         IN GoodStack(t) /\ Len(t) = Len(s) - n + 1
<1>1. PICK S : s \in Seq(S) /\ \A y \in S : Value(y)
  BY GoodStackElim
<1> DEFINE T == S \cup {x}
           u == SubSeq(s, 1, Len(s) - n)
<1>2. Len(s) \in Nat /\ Len(s) - n \in Nat /\ Len(s) - n <= Len(s)
  BY <1>1
<1>3. s \in Seq(T)
  BY <1>1
<1>4. u \in Seq(T) /\ Len(u) = Len(s) - n
  BY <1>2, <1>3
<1> HIDE DEF u
<1>5. Append(u, x) \in Seq(T) /\ Len(Append(u, x)) = Len(u) + 1
  BY <1>4
<1>6. \A y \in T : Value(y)
  BY <1>1
<1>7. GoodStack(Append(u, x))
  BY <1>5, <1>6, GoodStackIntro
<1>8. GoodStack(Append(u, x)) /\ Len(Append(u, x)) = Len(s) - n + 1
  BY <1>4, <1>5, <1>7
<1> QED BY <1>8 DEF u

LEMMA AppendGood ==
  ASSUME NEW s, GoodStack(s), NEW x, Value(x)
  PROVE  GoodStack(Append(s, x)) /\ Len(Append(s, x)) = Len(s) + 1
<1>1. PICK S : s \in Seq(S) /\ \A y \in S : Value(y)
  BY GoodStackElim
<1> DEFINE T == S \cup {x}
<1>2. s \in Seq(T)
  BY <1>1
<1>3. Append(s, x) \in Seq(T) /\ Len(Append(s, x)) = Len(s) + 1
  BY <1>2
<1>4. \A y \in T : Value(y)
  BY <1>1
<1> QED BY <1>3, <1>4, GoodStackIntro

(* A coercion replaces the receiver and leaves the operand.                *)
LEMMA ResendGood ==
  ASSUME NEW s, GoodStack(s), Len(s) >= 2, NEW x, Value(x), NEW y, Value(y)
  PROVE  LET t == SubSeq(s, 1, Len(s) - 2) \o << x, y >>
         IN /\ GoodStack(t) /\ Len(t) = Len(s)
            /\ t[Len(t)] = y /\ t[Len(t) - 1] = x
<1>1. PICK S : s \in Seq(S) /\ \A z \in S : Value(z)
  BY GoodStackElim
<1> DEFINE T == S \cup {x, y}
           u == SubSeq(s, 1, Len(s) - 2)
           v == << x, y >>
           t == u \o v
<1>2. Len(s) \in Nat /\ Len(s) - 2 \in Nat /\ Len(s) - 2 <= Len(s)
  BY <1>1
<1>3. s \in Seq(T)
  BY <1>1
<1>4. u \in Seq(T) /\ Len(u) = Len(s) - 2
  BY <1>2, <1>3, PrefixFacts
<1>5. v \in Seq(T) /\ Len(v) = 2 /\ v[1] = x /\ v[2] = y
  OBVIOUS
<1> HIDE DEF u, v
<1>6. t \in Seq(T) /\ Len(t) = Len(u) + Len(v)
  BY <1>4, <1>5, ConcatFacts
<1>7. Len(t) = Len(s)
  BY <1>2, <1>4, <1>5, <1>6
<1>8. t[Len(u) + 2] = v[2] /\ t[Len(u) + 1] = v[1]
  BY <1>2, <1>4, <1>5, SMTT(30)
<1>9. t[Len(t)] = y /\ t[Len(t) - 1] = x
  BY <1>2, <1>4, <1>5, <1>7, <1>8
<1>10. \A z \in T : Value(z)
  BY <1>1
<1>11. GoodStack(t)
  BY <1>6, <1>10, GoodStackIntro
<1> QED BY <1>7, <1>9, <1>11 DEF u, v

-----------------------------------------------------------------------------
(* The invariant.                                                          *)

(* How far the message the program sent has got: its own receiver's        *)
(* primitive runs, or CHECK_COERCION has sent it to a converted receiver.  *)
Message ==
  /\ Len(stack) >= 2
  /\ Value(first[1])
  /\ Top = first[2]
  /\ \/ Below = first[1] /\ calling.class = ClassOf(Below)
     \/ /\ IsInteger(first[1]) /\ IsBigInteger(Top)
        /\ Below = BigInteger(first[1].v) /\ calling.class = "BigInteger"
     \/ IsInteger(first[1]) /\ IsDouble(Top) /\ calling.class = "Double"

AInv ==
  /\ GoodStack(stack)
  /\ depth \in Int
  /\ Len(stack) = IF calling = Idle THEN depth ELSE depth + 1
  /\ calling # Idle => Message
  /\ Sound(last.op, last.left, last.right, last.result)

LEMMA NoResultSound ==
  Sound(NoResult.op, NoResult.left, NoResult.right, NoResult.result)
BY DEF Sound, SoundInteger, SoundIntegral, SoundComparison, NoResult

LEMMA InitAInv == Init => AInv
<1> SUFFICES ASSUME Init PROVE AInv
  OBVIOUS
<1>1. stack = << >> /\ calling = Idle /\ depth = 0 /\ last = NoResult
  BY DEF Init
<1>2. << >> \in Seq({}) /\ Len(<< >>) = 0
  OBVIOUS
<1>3. GoodStack(stack)
  <2>1. << >> \in Seq({<< >>[i] : i \in 1 .. Len(<< >>)})
    OBVIOUS
  <2>2. \A i \in 1 .. Len(<< >>) : Value(<< >>[i])
    BY <1>2
  <2> QED BY <1>1, <2>1, <2>2, Zenon DEF GoodStack
<1> QED BY <1>1, <1>2, <1>3, NoResultSound DEF AInv

LEMMA TopValues ==
  ASSUME GoodStack(stack)
  PROVE  /\ Len(stack) \in Nat
         /\ Len(stack) >= 1 => Value(Top)
         /\ Len(stack) >= 2 => Value(Below)
<1>1. Len(stack) \in Nat
  BY GoodStackElim
<1>2. ASSUME Len(stack) >= 1 PROVE Value(stack[Len(stack)])
  BY <1>1, <1>2 DEF GoodStack
<1>3. ASSUME Len(stack) >= 2 PROVE Value(stack[Len(stack) - 1])
  BY <1>1, <1>3 DEF GoodStack
<1> QED BY <1>1, <1>2, <1>3 DEF Top, Below

(* A primitive whose results are values and right answers keeps the        *)
(* invariant when it returns or ends the process.                          *)
LEMMA ReturnsAInv ==
  ASSUME AInv, calling # Idle, NEW results, Returns(results, 2),
         \A x \in results : x \notin {Crash, ErrorExit} =>
           Value(x) /\ Sound(calling.op, first[1], first[2], x)
  PROVE  AInv'
<1>1. PICK r \in results :
        IF r \in {Crash, ErrorExit}
        THEN UNCHANGED <<stack, calling, depth, first, last>>
        ELSE /\ stack' = Append(Popped(2), r)
             /\ calling' = Idle
             /\ last' = [op |-> calling.op, left |-> first[1], right |-> first[2],
                         result |-> r]
             /\ depth' = depth
  BY DEF Returns
<1>2. CASE r \in {Crash, ErrorExit}
  <2>1. stack' = stack /\ calling' = calling /\ depth' = depth /\ first' = first /\ last' = last
    BY <1>1, <1>2
  <2>2. Message' = Message
    BY <2>1 DEF Message, Top, Below
  <2> QED BY <2>1, <2>2 DEF AInv
<1>3. CASE r \notin {Crash, ErrorExit}
  <2>1. /\ stack' = Append(SubSeq(stack, 1, Len(stack) - 2), r)
        /\ calling' = Idle /\ depth' = depth
        /\ last' = [op |-> calling.op, left |-> first[1], right |-> first[2], result |-> r]
    BY <1>1, <1>3 DEF Popped
  <2>2. Value(r) /\ Sound(calling.op, first[1], first[2], r)
    BY <1>3
  <2>3. GoodStack(stack) /\ Len(stack) >= 2 /\ Len(stack) = depth + 1 /\ depth \in Int
    BY DEF AInv, Message
  <2>4. GoodStack(stack') /\ Len(stack') = Len(stack) - 1
    BY <2>1, <2>2, <2>3, PushGood, GoodStackElim
  <2>5. Sound(last'.op, last'.left, last'.right, last'.result)
    BY <2>1, <2>2
  <2> QED BY <2>1, <2>3, <2>4, <2>5 DEF AInv
<1> QED BY <1>2, <1>3


(* Each class's primitive answers the program's message.                   *)
LEMMA IntegerPrimitiveAInv == AInv /\ IntegerPrimitive => AInv'
<1> SUFFICES ASSUME AInv, IntegerPrimitive PROVE AInv'
  OBVIOUS
<1>1. /\ calling.class = "Integer" /\ ~NeedsCoercion(Top)
      /\ Returns(IntegerResult(calling.op, Below, Top), 2)
  BY DEF IntegerPrimitive, Running
<1>2. calling # Idle
  BY <1>1 DEF Idle
<1>3. Message /\ Value(Top) /\ Value(Below)
  BY <1>2, TopValues DEF AInv, Message
<1>4. Below = first[1] /\ Top = first[2] /\ ClassOf(Below) = "Integer"
  BY <1>1, <1>3 DEF Message
<1>5. IsInteger(Below)
  BY <1>4 DEF ClassOf, IsInteger
<1>6. \A x \in IntegerResult(calling.op, Below, Top) : x \notin {Crash, ErrorExit} =>
        Value(x) /\ Sound(calling.op, first[1], first[2], x)
  BY <1>1, <1>3, <1>4, <1>5, IntegerResultSound
<1> QED BY <1>1, <1>2, <1>6, ReturnsAInv

LEMMA BigIntegerPrimitiveAInv == AInv /\ BigIntegerPrimitive => AInv'
<1> SUFFICES ASSUME AInv, BigIntegerPrimitive PROVE AInv'
  OBVIOUS
<1>1. calling.class = "BigInteger" /\ Returns(BigIntegerResult(calling.op, Below, Top), 2)
  BY DEF BigIntegerPrimitive, Running
<1>2. calling # Idle
  BY <1>1 DEF Idle
<1>3. Message /\ Value(Top) /\ Value(Below) /\ Value(first[1]) /\ Top = first[2]
  BY <1>2, TopValues DEF AInv, Message
<1>4. IsBigInteger(Below) /\ Below.v = first[1].v /\ (IsInteger(first[1]) => IsBigInteger(Top))
  <2>1. CASE Below = first[1] /\ calling.class = ClassOf(Below)
    BY <1>1, <2>1 DEF ClassOf, IsBigInteger, IsInteger
  <2>2. CASE IsInteger(first[1]) /\ IsBigInteger(Top) /\ Below = BigInteger(first[1].v)
    BY <2>2 DEF BigInteger, IsBigInteger
  <2> QED BY <1>1, <1>3, <2>1, <2>2 DEF Message
<1>5. \A x \in BigIntegerResult(calling.op, Below, Top) : x \notin {Crash, ErrorExit} =>
        Value(x) /\ Sound(calling.op, first[1], first[2], x)
  BY <1>3, <1>4, BigIntegerResultSound
<1> QED BY <1>1, <1>2, <1>5, ReturnsAInv

LEMMA DoublePrimitiveAInv == AInv /\ DoublePrimitive => AInv'
<1> SUFFICES ASSUME AInv, DoublePrimitive PROVE AInv'
  OBVIOUS
<1>1. calling.class = "Double" /\ Returns(DoubleResult(calling.op, Below, Top), 2)
  BY DEF DoublePrimitive, Running
<1>2. calling # Idle
  BY <1>1 DEF Idle
<1>3. Message
  BY <1>2 DEF AInv
<1>4. ~(IsIntegral(first[1]) /\ IsIntegral(first[2]))
  <2>1. CASE Below = first[1] /\ calling.class = ClassOf(Below)
    BY <1>1, <2>1 DEF ClassOf, IsDouble, IsIntegral, IsInteger, IsBigInteger
  <2>2. CASE IsDouble(Top)
    BY <1>3, <2>2 DEF Message, IsDouble, IsIntegral, IsInteger, IsBigInteger
  <2> QED BY <1>1, <1>3, <2>1, <2>2 DEF Message
<1>5. \A x : Sound(calling.op, first[1], first[2], x)
  BY <1>4 DEF Sound, SoundInteger, SoundIntegral, SoundComparison, IsIntegral
<1>6. \A x \in DoubleResult(calling.op, Below, Top) : x \notin {Crash, ErrorExit} =>
        Value(x) /\ Sound(calling.op, first[1], first[2], x)
  BY <1>5, DoubleResultTyped
<1> QED BY <1>1, <1>2, <1>6, ReturnsAInv

(* A coercion keeps the operand, and the receiver's value when it becomes  *)
(* a BigInteger.                                                           *)
LEMMA CoercionAInv == AInv /\ CHECK_COERCION => AInv'
<1> SUFFICES ASSUME AInv, CHECK_COERCION PROVE AInv'
  OBVIOUS
<1> DEFINE c == CoercedClass(Top)
           x == IF c = "BigInteger" THEN BigInteger(Below.v) ELSE Double(ToDouble(Below.v))
<1>1. /\ calling.class = "Integer" /\ NeedsCoercion(Top)
      /\ stack' = SubSeq(stack, 1, Len(stack) - 2) \o << x, Top >>
      /\ calling'.class = c
      /\ depth' = depth /\ first' = first /\ last' = last
  BY DEF CHECK_COERCION, Running, Resend, Popped
<1>2. calling # Idle
  BY <1>1 DEF Idle
<1>3. c \in {"BigInteger", "Double"} /\ calling' # Idle
  BY <1>1 DEF CoercedClass, Idle
<1>4. Message /\ Value(Top) /\ Value(Below) /\ GoodStack(stack) /\ Len(stack) >= 2
  BY <1>2, TopValues DEF AInv, Message
<1>5. Below = first[1] /\ Top = first[2] /\ IsInteger(Below) /\ Below.v \in Int64
  BY <1>1, <1>4, Inclusion DEF Message, ClassOf, IsInteger, Value
<1>6. Value(x)
  BY <1>5 DEF Value, BigInteger, Double
<1> DEFINE t == SubSeq(stack, 1, Len(stack) - 2) \o << x, Top >>
<1>7. GoodStack(t) /\ Len(t) = Len(stack) /\ t[Len(t)] = Top /\ t[Len(t) - 1] = x
  BY <1>4, <1>6, ResendGood
<1> HIDE DEF t, x, c
<1>8. stack' = t
  BY <1>1 DEF t
<1>9. GoodStack(stack') /\ Len(stack') = Len(stack) /\ Top' = Top /\ Below' = x
  BY <1>7, <1>8 DEF Top, Below
<1>10. \/ IsBigInteger(Top) /\ x = BigInteger(first[1].v) /\ c = "BigInteger"
       \/ IsDouble(Top) /\ c = "Double"
  BY <1>1, <1>5 DEF c, x, CoercedClass, NeedsCoercion
<1>11. Message'
  <2>1. Len(stack') >= 2 /\ Value(first'[1]) /\ Top' = first'[2]
    BY <1>1, <1>4, <1>5, <1>9
  <2>2. IsInteger(first'[1])
    BY <1>1, <1>5
  <2>3. CASE IsBigInteger(Top) /\ x = BigInteger(first[1].v) /\ c = "BigInteger"
    <3>1. IsBigInteger(Top') /\ Below' = BigInteger(first'[1].v) /\ calling'.class = "BigInteger"
      BY <1>1, <1>9, <2>3
    <3> QED BY <2>1, <2>2, <3>1 DEF Message
  <2>4. CASE IsDouble(Top) /\ c = "Double"
    <3>1. IsDouble(Top') /\ calling'.class = "Double"
      BY <1>1, <1>9, <2>4
    <3> QED BY <2>1, <2>2, <3>1 DEF Message
  <2> QED BY <1>10, <2>3, <2>4
<1> QED BY <1>1, <1>2, <1>3, <1>9, <1>11 DEF AInv

LEMMA SendAInv == ASSUME NEW op \in Operations("Integer") PROVE AInv /\ Send(op) => AInv'
<1> SUFFICES ASSUME AInv, Send(op) PROVE AInv'
  OBVIOUS
<1>1. /\ calling = Idle /\ Len(stack) >= 2
      /\ calling' = [op |-> op, class |-> ClassOf(Below)]
      /\ first' = << Below, Top >> /\ depth' = depth - 1 /\ last' = NoResult /\ stack' = stack
  BY DEF Send, Ready
<1>2. op # "none"
  BY DEF Operations, IntegerOperations
<1>3. calling' # Idle
  BY <1>1, <1>2 DEF Idle
<1>4. Top' = Top /\ Below' = Below
  BY <1>1 DEF Top, Below
<1>5. Value(Below)
  BY <1>1, TopValues DEF AInv
<1>6. Message'
  BY <1>1, <1>4, <1>5 DEF Message
<1>7. Len(stack') = depth' + 1 /\ depth' \in Int /\ GoodStack(stack')
  BY <1>1 DEF AInv
<1> QED BY <1>1, <1>3, <1>6, <1>7, NoResultSound DEF AInv

LEMMA PushConstantAInv == AInv /\ PushConstant => AInv'
<1> SUFFICES ASSUME AInv, PushConstant PROVE AInv'
  OBVIOUS
<1>1. PICK x \in {Integer(n) : n \in Literals} \cup {Other} : stack' = Append(stack, x)
  BY DEF PushConstant
<1>2. calling = Idle /\ calling' = Idle /\ depth' = depth + 1 /\ last' = NoResult
  BY DEF PushConstant, Ready
<1>3. Value(x)
  BY <1>1, BoundAssumption DEF Value, Integer, Other, Int32
<1>4. GoodStack(stack') /\ Len(stack') = Len(stack) + 1
  BY <1>1, <1>3, AppendGood DEF AInv
<1> QED BY <1>2, <1>4, NoResultSound DEF AInv

LEMMA UnaryAInv ==
  ASSUME AInv, stack # << >>, NEW results, \A x \in results : Value(x), Unary(results)
  PROVE  AInv'
<1>1. PICK x \in results : stack' = Append(Popped(1), x)
  BY DEF Unary
<1>2. calling = Idle /\ calling' = Idle /\ depth' = depth /\ last' = NoResult
  BY DEF Unary, Ready
<1>3. Len(stack) >= 1
  <2>1. PICK S : stack \in Seq(S)
    BY GoodStackElim DEF AInv
  <2> QED BY <2>1
<1>4. GoodStack(stack') /\ Len(stack') = Len(stack)
  <2>1. Len(stack) \in Nat /\ GoodStack(stack)
    BY GoodStackElim DEF AInv
  <2>2. GoodStack(stack') /\ Len(stack') = Len(stack) - 1 + 1
    BY <1>1, <1>3, <2>1, PushGood DEF Popped
  <2> QED BY <2>1, <2>2
<1> QED BY <1>2, <1>4, NoResultSound DEF AInv

LEMMA UnaryActionsAInv == AInv /\ (AsString \/ Sqrt \/ AtRandom) => AInv'
<1> SUFFICES ASSUME AInv, AsString \/ Sqrt \/ AtRandom PROVE AInv'
  OBVIOUS
<1>1. CASE AsString
  <2>1. Value(Other)
    BY DEF Value, Other
  <2> QED BY <1>1, <2>1, UnaryAInv DEF AsString, OnNumber
<1>2. CASE Sqrt
  <2>1. Value(Untracked) /\ \A n : Value(SquareRoot(n))
    BY DEF Value, Untracked, SquareRoot, Double
  <2> DEFINE x == IF Top.kind = "Untracked" THEN Untracked ELSE SquareRoot(ToDouble(Top.v))
  <2>2. Value(x)
    BY <2>1
  <2>3. stack # << >> /\ Unary({x})
    BY <1>2 DEF Sqrt, OnNumber
  <2> HIDE DEF x
  <2> QED BY <2>2, <2>3, UnaryAInv
<1>3. CASE AtRandom
  <2>1. \A n \in (2 - IntLimit) .. (IntLimit - 2) : Value(Integer(n))
    BY WidthAssumption DEF Value, Integer, Int32
  <2>2. stack # << >> /\ Unary({Integer(n) : n \in (2 - IntLimit) .. (IntLimit - 2)})
    BY <1>3 DEF AtRandom
  <2> QED BY <2>1, <2>2, UnaryAInv
<1> QED BY <1>1, <1>2, <1>3

LEMMA StutterAInv ==
  AInv /\ UNCHANGED <<stack, calling, depth, first, last>> => AInv'
<1> SUFFICES ASSUME AInv, UNCHANGED <<stack, calling, depth, first, last>> PROVE AInv'
  OBVIOUS
<1>1. Message' = Message
  BY DEF Message, Top, Below
<1> QED BY <1>1 DEF AInv

(* Every step of the primitives, and of the program that sends to them,    *)
(* keeps the invariant.                                                    *)
THEOREM ArithmeticInvariant == Spec => []AInv
<1>1. ASSUME AInv, [Next]_vars PROVE AInv'
  <2>1. CASE PushConstant
    BY <1>1, <2>1, PushConstantAInv
  <2>2. CASE \E op \in Operations("Integer") : Send(op)
    BY <1>1, <2>2, SendAInv
  <2>3. CASE IntegerPrimitive
    BY <1>1, <2>3, IntegerPrimitiveAInv
  <2>4. CASE CHECK_COERCION
    BY <1>1, <2>4, CoercionAInv
  <2>5. CASE CHECK_COERCION_Null
    BY <1>1, <2>5, StutterAInv DEF CHECK_COERCION_Null
  <2>6. CASE BigIntegerPrimitive
    BY <1>1, <2>6, BigIntegerPrimitiveAInv
  <2>7. CASE DoublePrimitive
    BY <1>1, <2>7, DoublePrimitiveAInv
  <2>8. CASE AsString \/ Sqrt \/ AtRandom
    BY <1>1, <2>8, UnaryActionsAInv
  <2>9. CASE Done \/ UNCHANGED vars
    BY <1>1, <2>9, StutterAInv DEF Done, vars
  <2> QED BY <1>1, <2>1, <2>2, <2>3, <2>4, <2>5, <2>6, <2>7, <2>8, <2>9 DEF Next
<1> QED BY <1>1, InitAInv, PTL DEF Spec

(* Whatever way a binary message to a number takes through the primitives, *)
(* directly or through resendAsBigInteger and resendAsDouble, it removes   *)
(* its two operands and leaves one result.                                 *)
THEOREM MessagesBalance == Spec => []StackBalanced
<1>1. AInv => StackBalanced
  BY DEF AInv, StackBalanced
<1> QED BY <1>1, ArithmeticInvariant, PTL

(* _Integer's Plus, Minus, Star, Slash and Percent lose nothing: pushResult *)
(* stores the exact result, as an Integer just when it fits.                *)
THEOREM IntegersAreExact == Spec => []IntegerExact
<1>1. AInv => IntegerExact
  BY DEF AInv, IntegerExact, Sound, SoundInteger, Fitted
<1> QED BY <1>1, ArithmeticInvariant, PTL

(* The primitives of Integer and BigInteger agree: as long as the exact    *)
(* result fits in 64 bits, a message gives it whatever the classes of its  *)
(* receiver and operand, converted or not.                                 *)
THEOREM IntegralsAreExact == Spec => []IntegralExact
<1>1. AInv => IntegralExact
  BY DEF AInv, IntegralExact, Sound, SoundIntegral, Fitted
<1> QED BY <1>1, ArithmeticInvariant, PTL

(* Equal and Lowerthan compare the values of Integers and BigIntegers,     *)
(* whichever of the two the receiver and the operand are.                  *)
THEOREM ComparisonsAreExact == Spec => []ComparisonExact
<1>1. AInv => ComparisonExact
  BY DEF AInv, ComparisonExact, Sound, SoundComparison
<1> QED BY <1>1, ArithmeticInvariant, PTL
=============================================================================
