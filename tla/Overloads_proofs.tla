------------------------- MODULE Overloads_proofs -------------------------
(***************************************************************************)
(* Proofs about the overloads of an interface, for every interface within  *)
(* the documented limits of config.hpp, every number of parameters, and    *)
(* every call.  The first part is the arithmetic of the binary sequences:  *)
(* the tables list all numbers of their digits in order, the operation of  *)
(* a BOOST_PP_FOR adds one, so the overloads of an arity are declared in   *)
(* the order of the numbers they spell, and none is left out.  The second  *)
(* is overload resolution: among all combinations of & and const& a call   *)
(* has one best overload.  The invariant joins them: an arity is passed    *)
(* with all its overloads and no others, so a call finds one of them, and  *)
(* what that one passes on finds an operator().                            *)
(***************************************************************************)
EXTENDS Overloads, FiniteSetTheorems, SequenceTheorems, TLAPS

(* The sequences of n binary digits.                                       *)
Bits(n) == [1 .. n -> {0, 1}]

(* Of the binary sequence for n parameters: how many digits one            *)
(* BOOST_PP_FOR goes through, those it leaves alone, and the number they   *)
(* spell together, which is the place of the overload in the order of the  *)
(* declarations.                                                           *)
FreeDigits(n) == n - FixedDigits(n)

(* The digits a table fixes.                                               *)
HighDigits(n, bits) == [j \in 1 .. FixedDigits(n) |-> bits[j]]

(* The digits one BOOST_PP_FOR goes through.                               *)
LowDigits(n, bits) == [j \in 1 .. FreeDigits(n) |-> bits[FixedDigits(n) + j]]

(* The place of a combination in the order of the declarations.            *)
Place(n, bits) == 128 * BitsValue(HighDigits(n, bits)) + BitsValue(LowDigits(n, bits))

(* How many BOOST_PP_FORs BINARY_SEQ_FOR_EACH_n has.                       *)
Blocks(n) == Len(StartDigits(n))

-----------------------------------------------------------------------------
(* The digits: at most seven move, the others are those of a table.        *)
LEMMA DigitCounts ==
  ASSUME NEW n \in 0 .. 14
  PROVE  /\ FixedDigits(n) \in 0 .. 7
         /\ FreeDigits(n) \in 0 .. 7
         /\ FixedDigits(n) + FreeDigits(n) = n
         /\ n <= 7 => FixedDigits(n) = 0
         /\ n > 7 => FreeDigits(n) = 7
BY DEF FixedDigits, FreeDigits

(* A binary sequence is a sequence of its length.                          *)
LEMMA BitsAreSequences ==
  ASSUME NEW n \in Nat, NEW bits \in Bits(n)
  PROVE  bits \in Seq({0, 1}) /\ Len(bits) = n /\ DOMAIN bits = 1 .. n
BY DEF Bits

(* The powers up to the iterations of one BOOST_PP_FOR.                    *)
LEMMA PowersOfTwo ==
  /\ PowerOfTwo(0) = 1 /\ PowerOfTwo(1) = 2 /\ PowerOfTwo(2) = 4
  /\ PowerOfTwo(3) = 8 /\ PowerOfTwo(4) = 16 /\ PowerOfTwo(5) = 32
  /\ PowerOfTwo(6) = 64 /\ PowerOfTwo(7) = 128
BY DEF PowerOfTwo

(* The number of at most seven digits determines them, and is less than    *)
(* the power of two.                                                       *)
LEMMA ValueOfDigits ==
  ASSUME NEW n \in 0 .. 7, NEW x \in Bits(n)
  PROVE  /\ BitsValue(x) \in 0 .. PowerOfTwo(n) - 1
         /\ BitsValue(x) = PowerOfTwo(n) - 1 <=> \A i \in 1 .. n : x[i] = 1
<1>1. DOMAIN x = 1 .. n /\ \A i \in 1 .. n : x[i] \in {0, 1}
  BY DEF Bits
<1> DEFINE D(j) == IF j \in 1 .. n THEN x[j] ELSE 0
<1>2. \A j \in 1 .. 7 : D(j) \in {0, 1} /\ (j > n => D(j) = 0)
  BY <1>1
<1>3. BitsValue(x) = D(1) + 2 * D(2) + 4 * D(3) + 8 * D(4) + 16 * D(5)
                     + 32 * D(6) + 64 * D(7)
  BY <1>1 DEF BitsValue
<1>4. (\A i \in 1 .. n : x[i] = 1) <=> (\A j \in 1 .. 7 : j <= n => D(j) = 1)
  BY <1>1
<1>5. \A j \in 1 .. 7 : j = 1 \/ j = 2 \/ j = 3 \/ j = 4 \/ j = 5 \/ j = 6 \/ j = 7
  OBVIOUS
<1>6. PICK a1, a2, a3, a4, a5, a6, a7 \in {0, 1} :
        /\ a1 = D(1) /\ a2 = D(2) /\ a3 = D(3) /\ a4 = D(4)
        /\ a5 = D(5) /\ a6 = D(6) /\ a7 = D(7)
  <2>1. /\ D(1) \in {0, 1} /\ D(2) \in {0, 1} /\ D(3) \in {0, 1} /\ D(4) \in {0, 1}
        /\ D(5) \in {0, 1} /\ D(6) \in {0, 1} /\ D(7) \in {0, 1}
    BY <1>2
  <2> HIDE DEF D
  <2>2. QED  BY <2>1
<1> HIDE DEF D
<1>7. BitsValue(x) = a1 + 2 * a2 + 4 * a3 + 8 * a4 + 16 * a5 + 32 * a6 + 64 * a7
  BY <1>3, <1>6
<1>8. /\ 1 > n => a1 = 0
      /\ 2 > n => a2 = 0
      /\ 3 > n => a3 = 0
      /\ 4 > n => a4 = 0
      /\ 5 > n => a5 = 0
      /\ 6 > n => a6 = 0
      /\ 7 > n => a7 = 0
  BY <1>2, <1>6
<1>9. (\A i \in 1 .. n : x[i] = 1)
      <=> /\ 1 <= n => a1 = 1
          /\ 2 <= n => a2 = 1
          /\ 3 <= n => a3 = 1
          /\ 4 <= n => a4 = 1
          /\ 5 <= n => a5 = 1
          /\ 6 <= n => a6 = 1
          /\ 7 <= n => a7 = 1
  <2>1. (\A j \in 1 .. 7 : j <= n => D(j) = 1)
        <=> /\ 1 <= n => D(1) = 1
            /\ 2 <= n => D(2) = 1
            /\ 3 <= n => D(3) = 1
            /\ 4 <= n => D(4) = 1
            /\ 5 <= n => D(5) = 1
            /\ 6 <= n => D(6) = 1
            /\ 7 <= n => D(7) = 1
    BY <1>5
  <2>2. QED  BY <1>4, <1>6, <2>1
<1>10. /\ BitsValue(x) \in 0 .. PowerOfTwo(n) - 1
       /\ BitsValue(x) = PowerOfTwo(n) - 1
          <=> /\ 1 <= n => a1 = 1
              /\ 2 <= n => a2 = 1
              /\ 3 <= n => a3 = 1
              /\ 4 <= n => a4 = 1
              /\ 5 <= n => a5 = 1
              /\ 6 <= n => a6 = 1
              /\ 7 <= n => a7 = 1
  <2>1. CASE n = 0
    BY ONLY <1>7, <1>8, <2>1, PowersOfTwo
  <2>2. CASE n = 1
    BY ONLY <1>7, <1>8, <2>2, PowersOfTwo
  <2>3. CASE n = 2
    BY ONLY <1>7, <1>8, <2>3, PowersOfTwo
  <2>4. CASE n = 3
    BY ONLY <1>7, <1>8, <2>4, PowersOfTwo
  <2>5. CASE n = 4
    BY ONLY <1>7, <1>8, <2>5, PowersOfTwo
  <2>6. CASE n = 5
    BY ONLY <1>7, <1>8, <2>6, PowersOfTwo
  <2>7. CASE n = 6
    BY ONLY <1>7, <1>8, <2>7, PowersOfTwo
  <2>8. CASE n = 7
    BY ONLY <1>7, <1>8, <2>8, PowersOfTwo
  <2>9. QED  BY <2>1, <2>2, <2>3, <2>4, <2>5, <2>6, <2>7, <2>8
<1>11. QED  BY <1>9, <1>10

(* Two numbers of seven digits are equal digit by digit.                   *)
LEMMA EqualDigits ==
  ASSUME NEW a1 \in {0, 1}, NEW a2 \in {0, 1}, NEW a3 \in {0, 1}, NEW a4 \in {0, 1},
         NEW a5 \in {0, 1}, NEW a6 \in {0, 1}, NEW a7 \in {0, 1},
         NEW b1 \in {0, 1}, NEW b2 \in {0, 1}, NEW b3 \in {0, 1}, NEW b4 \in {0, 1},
         NEW b5 \in {0, 1}, NEW b6 \in {0, 1}, NEW b7 \in {0, 1},
         a1 + 2 * a2 + 4 * a3 + 8 * a4 + 16 * a5 + 32 * a6 + 64 * a7
         = b1 + 2 * b2 + 4 * b3 + 8 * b4 + 16 * b5 + 32 * b6 + 64 * b7
  PROVE  /\ a1 = b1 /\ a2 = b2 /\ a3 = b3 /\ a4 = b4
         /\ a5 = b5 /\ a6 = b6 /\ a7 = b7
<1>1. a7 = b7  OBVIOUS
<1>2. a6 = b6  BY <1>1
<1>3. a5 = b5  BY <1>1, <1>2
<1>4. a4 = b4  BY <1>1, <1>2, <1>3
<1>5. a3 = b3  BY <1>1, <1>2, <1>3, <1>4
<1>6. a2 = b2  BY <1>1, <1>2, <1>3, <1>4, <1>5
<1>7. a1 = b1  BY <1>1, <1>2, <1>3, <1>4, <1>5, <1>6
<1>8. QED  BY <1>1, <1>2, <1>3, <1>4, <1>5, <1>6, <1>7

(* No two combinations of digits spell one number.                         *)
LEMMA ValueIsInjective ==
  ASSUME NEW n \in 0 .. 7, NEW x \in Bits(n), NEW y \in Bits(n),
         BitsValue(x) = BitsValue(y)
  PROVE  x = y
<1>1. /\ DOMAIN x = 1 .. n /\ \A i \in 1 .. n : x[i] \in {0, 1}
      /\ DOMAIN y = 1 .. n /\ \A i \in 1 .. n : y[i] \in {0, 1}
  BY DEF Bits
<1> DEFINE D(z, j) == IF j \in 1 .. n THEN z[j] ELSE 0
<1>2. \A j \in Int : D(x, j) \in {0, 1} /\ D(y, j) \in {0, 1}
  BY <1>1
<1>3. /\ BitsValue(x) = D(x, 1) + 2 * D(x, 2) + 4 * D(x, 3) + 8 * D(x, 4)
                         + 16 * D(x, 5) + 32 * D(x, 6) + 64 * D(x, 7)
      /\ BitsValue(y) = D(y, 1) + 2 * D(y, 2) + 4 * D(y, 3) + 8 * D(y, 4)
                         + 16 * D(y, 5) + 32 * D(y, 6) + 64 * D(y, 7)
  BY <1>1 DEF BitsValue
<1> HIDE DEF D
<1>4. \A j \in 1 .. 7 : D(x, j) = D(y, j)
  <2>1. /\ D(x, 1) = D(y, 1) /\ D(x, 2) = D(y, 2) /\ D(x, 3) = D(y, 3)
        /\ D(x, 4) = D(y, 4) /\ D(x, 5) = D(y, 5) /\ D(x, 6) = D(y, 6)
        /\ D(x, 7) = D(y, 7)
    BY ONLY <1>2, <1>3, BitsValue(x) = BitsValue(y), EqualDigits
  <2>2. \A j \in 1 .. 7 : j = 1 \/ j = 2 \/ j = 3 \/ j = 4 \/ j = 5 \/ j = 6 \/ j = 7
    OBVIOUS
  <2>3. QED  BY <2>1, <2>2
<1>5. \A j \in 1 .. n : x[j] = y[j]
  BY <1>4 DEF D
<1>6. QED  BY <1>1, <1>5 DEF Bits

(* The increment of the preprocessor adds one, and grows the sequence when *)
(* all its digits are 1.                                                   *)
LEMMA IncrementAddsOne ==
  ASSUME NEW n \in 0 .. 7, NEW x \in Bits(n)
  PROVE  IF \A i \in 1 .. n : x[i] = 1
         THEN /\ INC_BINARY_SEQ(x) \in Seq({0, 1})
              /\ Len(INC_BINARY_SEQ(x)) = n + 1
         ELSE /\ INC_BINARY_SEQ(x) \in Bits(n)
              /\ BitsValue(INC_BINARY_SEQ(x)) = BitsValue(x) + 1
<1> DEFINE flipped == [j \in 1 .. n |-> INC_BINARY_SEQ_OP(CarryInto(x, j), x[j])]
<1>1. DOMAIN x = 1 .. n /\ Len(x) = n /\ \A i \in 1 .. n : x[i] \in {0, 1}
  BY DEF Bits
<1>2. flipped \in Bits(n)
  BY <1>1 DEF Bits, INC_BINARY_SEQ_OP
<1>3. CASE \A i \in 1 .. n : x[i] = 1
  <2>1. INC_BINARY_SEQ(x) = Append(flipped, 0)
    BY <1>1, <1>3 DEF INC_BINARY_SEQ, CarryInto
  <2>2. flipped \in Seq({0, 1}) /\ Len(flipped) = n
    BY <1>2, BitsAreSequences
  <2> HIDE DEF flipped
  <2>3. QED  BY <1>3, <2>1, <2>2
<1>4. CASE ~\A i \in 1 .. n : x[i] = 1
  <2>1. INC_BINARY_SEQ(x) = flipped
    BY <1>1, <1>4 DEF INC_BINARY_SEQ, CarryInto
  <2>2. BitsValue(flipped) = BitsValue(x) + 1
    <3>1. DOMAIN flipped = 1 .. n
      OBVIOUS
    <3>2. \A j \in 1 .. n : flipped[j] = IF \A i \in 1 .. j - 1 : x[i] = 1
                                         THEN 1 - x[j] ELSE x[j]
      BY DEF INC_BINARY_SEQ_OP, CarryInto
    <3> HIDE DEF flipped
    <3>3. CASE n = 0  BY <1>4, <3>3
    <3>4. CASE n = 1  BY <1>1, <1>4, <3>1, <3>2, <3>4 DEF BitsValue
    <3>5. CASE n = 2  BY <1>1, <1>4, <3>1, <3>2, <3>5 DEF BitsValue
    <3>6. CASE n = 3  BY <1>1, <1>4, <3>1, <3>2, <3>6 DEF BitsValue
    <3>7. CASE n = 4  BY <1>1, <1>4, <3>1, <3>2, <3>7 DEF BitsValue
    <3>8. CASE n = 5  BY <1>1, <1>4, <3>1, <3>2, <3>8 DEF BitsValue
    <3>9. CASE n = 6  BY <1>1, <1>4, <3>1, <3>2, <3>9 DEF BitsValue
    <3>10. CASE n = 7  BY <1>1, <1>4, <3>1, <3>2, <3>10 DEF BitsValue
    <3>11. QED  BY <3>3, <3>4, <3>5, <3>6, <3>7, <3>8, <3>9, <3>10
  <2>3. QED  BY <1>2, <1>4, <2>1, <2>2
<1>5. QED  BY <1>3, <1>4

(* The rows of the tables, by the number whose digits they are.            *)
LEMMA Rows8 ==
  /\ Len(BINARY_SEQ_FOR_EACH_8) = 2
  /\ \A p1 \in {0, 1} :
       BINARY_SEQ_FOR_EACH_8[1 + p1] = <<p1>>
BY SMTT(30) DEF BINARY_SEQ_FOR_EACH_8

(* Two digits.                                                             *)
LEMMA Rows9 ==
  /\ Len(BINARY_SEQ_FOR_EACH_9) = 4
  /\ \A p1, p2 \in {0, 1} :
       BINARY_SEQ_FOR_EACH_9[1 + p1 + 2 * p2] = <<p1, p2>>
BY SMTT(30) DEF BINARY_SEQ_FOR_EACH_9

(* Three digits.                                                           *)
LEMMA Rows10 ==
  /\ Len(BINARY_SEQ_FOR_EACH_10) = 8
  /\ \A p1, p2, p3 \in {0, 1} :
       BINARY_SEQ_FOR_EACH_10[1 + p1 + 2 * p2 + 4 * p3] = <<p1, p2, p3>>
BY SMTT(30) DEF BINARY_SEQ_FOR_EACH_10

(* Four digits.                                                            *)
LEMMA Rows11 ==
  /\ Len(BINARY_SEQ_FOR_EACH_11) = 16
  /\ \A p1, p2, p3, p4 \in {0, 1} :
       BINARY_SEQ_FOR_EACH_11[1 + p1 + 2 * p2 + 4 * p3 + 8 * p4] = <<p1, p2, p3, p4>>
BY SMTT(30) DEF BINARY_SEQ_FOR_EACH_11

(* Five digits.                                                            *)
LEMMA Rows12 ==
  /\ Len(BINARY_SEQ_FOR_EACH_12) = 32
  /\ \A p1, p2, p3, p4, p5 \in {0, 1} :
       BINARY_SEQ_FOR_EACH_12[1 + p1 + 2 * p2 + 4 * p3 + 8 * p4 + 16 * p5] = <<p1, p2, p3, p4, p5>>
BY SMTT(30) DEF BINARY_SEQ_FOR_EACH_12

(* Six digits.                                                             *)
LEMMA Rows13 ==
  /\ Len(BINARY_SEQ_FOR_EACH_13) = 64
  /\ \A p1, p2, p3, p4, p5, p6 \in {0, 1} :
       BINARY_SEQ_FOR_EACH_13[1 + p1 + 2 * p2 + 4 * p3 + 8 * p4 + 16 * p5 + 32 * p6] = <<p1, p2, p3, p4, p5, p6>>
BY SMTT(30) DEF BINARY_SEQ_FOR_EACH_13

(* Seven digits.                                                           *)
LEMMA Rows14 ==
  /\ Len(BINARY_SEQ_FOR_EACH_14) = 128
  /\ \A p1, p2, p3, p4, p5, p6, p7 \in {0, 1} :
       BINARY_SEQ_FOR_EACH_14[1 + p1 + 2 * p2 + 4 * p3 + 8 * p4 + 16 * p5 + 32 * p6 + 64 * p7] = <<p1, p2, p3, p4, p5, p6, p7>>
BY SMTT(30) DEF BINARY_SEQ_FOR_EACH_14

(* Every number up to 127 has seven digits.                                *)
LEMMA DigitsOfNumbers ==
  \A v \in 0 .. 127 : \E p1, p2, p3, p4, p5, p6, p7 \in {0, 1} :
    v = p1 + 2 * p2 + 4 * p3 + 8 * p4 + 16 * p5 + 32 * p6 + 64 * p7
<1>1. \A m \in Nat : \A v \in 0 .. 2 * m + 1 :
        \E q \in 0 .. m : \E p \in {0, 1} : v = p + 2 * q
  <2>1. SUFFICES ASSUME NEW m \in Nat, NEW v \in 0 .. 2 * m + 1
                 PROVE  \E q \in 0 .. m : \E p \in {0, 1} : v = p + 2 * q
    OBVIOUS
  <2>2. v = (v % 2) + 2 * (v \div 2) /\ v % 2 \in {0, 1} /\ v \div 2 \in 0 .. m
    OBVIOUS
  <2>3. QED  BY <2>2
<1>2. SUFFICES ASSUME NEW v \in 0 .. 127
               PROVE  \E p1, p2, p3, p4, p5, p6, p7 \in {0, 1} :
                        v = p1 + 2 * p2 + 4 * p3 + 8 * p4 + 16 * p5 + 32 * p6 + 64 * p7
  OBVIOUS
<1>3. PICK v2 \in 0 .. 63 : \E p1 \in {0, 1} : v = p1 + 2 * v2
  BY <1>1
<1>4. PICK v3 \in 0 .. 31 : \E p2 \in {0, 1} : v2 = p2 + 2 * v3
  BY <1>1
<1>5. PICK v4 \in 0 .. 15 : \E p3 \in {0, 1} : v3 = p3 + 2 * v4
  BY <1>1
<1>6. PICK v5 \in 0 .. 7 : \E p4 \in {0, 1} : v4 = p4 + 2 * v5
  BY <1>1
<1>7. PICK v6 \in 0 .. 3 : \E p5 \in {0, 1} : v5 = p5 + 2 * v6
  BY <1>1
<1>8. PICK v7 \in 0 .. 1 : \E p6 \in {0, 1} : v6 = p6 + 2 * v7
  BY <1>1
<1>9. v7 \in {0, 1}
  OBVIOUS
<1>10. QED
  BY <1>3, <1>4, <1>5, <1>6, <1>7, <1>8, <1>9

(* The tables: block b of BINARY_SEQ_FOR_EACH_n starts with the digits of  *)
(* b - 1, and there is a block for each number.                            *)
LEMMA TablesAreComplete ==
  ASSUME NEW n \in 0 .. 14
  PROVE  /\ Blocks(n) = PowerOfTwo(FixedDigits(n))
         /\ \A b \in 1 .. Blocks(n) :
              /\ StartDigits(n)[b] \in Bits(FixedDigits(n))
              /\ BitsValue(StartDigits(n)[b]) = b - 1
<1>1. CASE n <= 7
  <2>1. StartDigits(n) = << << >> >> /\ FixedDigits(n) = 0
    BY <1>1 DEF StartDigits, FixedDigits
  <2>2. Blocks(n) = 1 /\ PowerOfTwo(0) = 1
    BY <2>1 DEF Blocks, PowerOfTwo
  <2>3. << >> \in Bits(0) /\ BitsValue(<< >>) = 0
    BY DEF Bits, BitsValue
  <2>4. \A b \in 1 .. 1 : StartDigits(n)[b] = << >> /\ b - 1 = 0
    BY <2>1
  <2>5. QED  BY <2>1, <2>2, <2>3, <2>4
<1>2. CASE n = 8
  <2>1. StartDigits(n) = BINARY_SEQ_FOR_EACH_8 /\ FixedDigits(n) = 1
    BY <1>2 DEF StartDigits, FixedDigits
  <2>2. Blocks(n) = 2 /\ PowerOfTwo(1) = 2
    BY <2>1, Rows8 DEF Blocks, PowerOfTwo
  <2>3. ASSUME NEW b \in 1 .. 2
        PROVE  /\ StartDigits(n)[b] \in Bits(1)
               /\ BitsValue(StartDigits(n)[b]) = b - 1
    <3>1. \E p1, p2, p3, p4, p5, p6, p7 \in {0, 1} :
            b - 1 = p1 + 2 * p2 + 4 * p3 + 8 * p4 + 16 * p5 + 32 * p6 + 64 * p7
      BY DigitsOfNumbers
    <3>2. PICK p1 \in {0, 1} : b - 1 = p1
      BY <3>1
    <3>3. StartDigits(n)[b] = <<p1>>
      <4>1. b = 1 + p1
        BY <3>2
      <4>2. QED  BY <2>1, <4>1, Rows8
    <3>4. <<p1>> \in Bits(1) /\ BitsValue(<<p1>>) = b - 1
      BY <3>2 DEF Bits, BitsValue
    <3>5. QED  BY <3>3, <3>4
  <2>4. QED  BY <2>1, <2>2, <2>3
<1>3. CASE n = 9
  <2>1. StartDigits(n) = BINARY_SEQ_FOR_EACH_9 /\ FixedDigits(n) = 2
    BY <1>3 DEF StartDigits, FixedDigits
  <2>2. Blocks(n) = 4 /\ PowerOfTwo(2) = 4
    BY <2>1, Rows9 DEF Blocks, PowerOfTwo
  <2>3. ASSUME NEW b \in 1 .. 4
        PROVE  /\ StartDigits(n)[b] \in Bits(2)
               /\ BitsValue(StartDigits(n)[b]) = b - 1
    <3>1. \E p1, p2, p3, p4, p5, p6, p7 \in {0, 1} :
            b - 1 = p1 + 2 * p2 + 4 * p3 + 8 * p4 + 16 * p5 + 32 * p6 + 64 * p7
      BY DigitsOfNumbers
    <3>2. PICK p1, p2 \in {0, 1} : b - 1 = p1 + 2 * p2
      BY <3>1
    <3>3. StartDigits(n)[b] = <<p1, p2>>
      <4>1. b = 1 + p1 + 2 * p2
        BY <3>2
      <4>2. QED  BY <2>1, <4>1, Rows9
    <3>4. <<p1, p2>> \in Bits(2) /\ BitsValue(<<p1, p2>>) = b - 1
      BY <3>2 DEF Bits, BitsValue
    <3>5. QED  BY <3>3, <3>4
  <2>4. QED  BY <2>1, <2>2, <2>3
<1>4. CASE n = 10
  <2>1. StartDigits(n) = BINARY_SEQ_FOR_EACH_10 /\ FixedDigits(n) = 3
    BY <1>4 DEF StartDigits, FixedDigits
  <2>2. Blocks(n) = 8 /\ PowerOfTwo(3) = 8
    BY <2>1, Rows10 DEF Blocks, PowerOfTwo
  <2>3. ASSUME NEW b \in 1 .. 8
        PROVE  /\ StartDigits(n)[b] \in Bits(3)
               /\ BitsValue(StartDigits(n)[b]) = b - 1
    <3>1. \E p1, p2, p3, p4, p5, p6, p7 \in {0, 1} :
            b - 1 = p1 + 2 * p2 + 4 * p3 + 8 * p4 + 16 * p5 + 32 * p6 + 64 * p7
      BY DigitsOfNumbers
    <3>2. PICK p1, p2, p3 \in {0, 1} : b - 1 = p1 + 2 * p2 + 4 * p3
      BY <3>1
    <3>3. StartDigits(n)[b] = <<p1, p2, p3>>
      <4>1. b = 1 + p1 + 2 * p2 + 4 * p3
        BY <3>2
      <4>2. QED  BY <2>1, <4>1, Rows10
    <3>4. <<p1, p2, p3>> \in Bits(3) /\ BitsValue(<<p1, p2, p3>>) = b - 1
      BY <3>2 DEF Bits, BitsValue
    <3>5. QED  BY <3>3, <3>4
  <2>4. QED  BY <2>1, <2>2, <2>3
<1>5. CASE n = 11
  <2>1. StartDigits(n) = BINARY_SEQ_FOR_EACH_11 /\ FixedDigits(n) = 4
    BY <1>5 DEF StartDigits, FixedDigits
  <2>2. Blocks(n) = 16 /\ PowerOfTwo(4) = 16
    BY <2>1, Rows11 DEF Blocks, PowerOfTwo
  <2>3. ASSUME NEW b \in 1 .. 16
        PROVE  /\ StartDigits(n)[b] \in Bits(4)
               /\ BitsValue(StartDigits(n)[b]) = b - 1
    <3>1. \E p1, p2, p3, p4, p5, p6, p7 \in {0, 1} :
            b - 1 = p1 + 2 * p2 + 4 * p3 + 8 * p4 + 16 * p5 + 32 * p6 + 64 * p7
      BY DigitsOfNumbers
    <3>2. PICK p1, p2, p3, p4 \in {0, 1} : b - 1 = p1 + 2 * p2 + 4 * p3 + 8 * p4
      BY <3>1
    <3>3. StartDigits(n)[b] = <<p1, p2, p3, p4>>
      <4>1. b = 1 + p1 + 2 * p2 + 4 * p3 + 8 * p4
        BY <3>2
      <4>2. QED  BY <2>1, <4>1, Rows11
    <3>4. <<p1, p2, p3, p4>> \in Bits(4) /\ BitsValue(<<p1, p2, p3, p4>>) = b - 1
      BY <3>2 DEF Bits, BitsValue
    <3>5. QED  BY <3>3, <3>4
  <2>4. QED  BY <2>1, <2>2, <2>3
<1>6. CASE n = 12
  <2>1. StartDigits(n) = BINARY_SEQ_FOR_EACH_12 /\ FixedDigits(n) = 5
    BY <1>6 DEF StartDigits, FixedDigits
  <2>2. Blocks(n) = 32 /\ PowerOfTwo(5) = 32
    BY <2>1, Rows12 DEF Blocks, PowerOfTwo
  <2>3. ASSUME NEW b \in 1 .. 32
        PROVE  /\ StartDigits(n)[b] \in Bits(5)
               /\ BitsValue(StartDigits(n)[b]) = b - 1
    <3>1. \E p1, p2, p3, p4, p5, p6, p7 \in {0, 1} :
            b - 1 = p1 + 2 * p2 + 4 * p3 + 8 * p4 + 16 * p5 + 32 * p6 + 64 * p7
      BY DigitsOfNumbers
    <3>2. PICK p1, p2, p3, p4, p5 \in {0, 1} : b - 1 = p1 + 2 * p2 + 4 * p3 + 8 * p4 + 16 * p5
      BY <3>1
    <3>3. StartDigits(n)[b] = <<p1, p2, p3, p4, p5>>
      <4>1. b = 1 + p1 + 2 * p2 + 4 * p3 + 8 * p4 + 16 * p5
        BY <3>2
      <4>2. BINARY_SEQ_FOR_EACH_12[1 + p1 + 2 * p2 + 4 * p3 + 8 * p4 + 16 * p5]
              = <<p1, p2, p3, p4, p5>>
        BY Rows12, Zenon
      <4>3. QED  BY <2>1, <4>1, <4>2
    <3>4. <<p1, p2, p3, p4, p5>> \in Bits(5) /\ BitsValue(<<p1, p2, p3, p4, p5>>) = b - 1
      BY <3>2 DEF Bits, BitsValue
    <3>5. QED  BY <3>3, <3>4
  <2>4. QED  BY <2>1, <2>2, <2>3
<1>7. CASE n = 13
  <2>1. StartDigits(n) = BINARY_SEQ_FOR_EACH_13 /\ FixedDigits(n) = 6
    BY <1>7 DEF StartDigits, FixedDigits
  <2>2. Blocks(n) = 64 /\ PowerOfTwo(6) = 64
    BY <2>1, Rows13 DEF Blocks, PowerOfTwo
  <2>3. ASSUME NEW b \in 1 .. 64
        PROVE  /\ StartDigits(n)[b] \in Bits(6)
               /\ BitsValue(StartDigits(n)[b]) = b - 1
    <3>1. \E p1, p2, p3, p4, p5, p6, p7 \in {0, 1} :
            b - 1 = p1 + 2 * p2 + 4 * p3 + 8 * p4 + 16 * p5 + 32 * p6 + 64 * p7
      BY DigitsOfNumbers
    <3>2. PICK p1, p2, p3, p4, p5, p6 \in {0, 1} : b - 1 = p1 + 2 * p2 + 4 * p3 + 8 * p4 + 16 * p5 + 32 * p6
      BY <3>1
    <3>3. StartDigits(n)[b] = <<p1, p2, p3, p4, p5, p6>>
      <4>1. b = 1 + p1 + 2 * p2 + 4 * p3 + 8 * p4 + 16 * p5 + 32 * p6
        BY <3>2
      <4>2. BINARY_SEQ_FOR_EACH_13[1 + p1 + 2 * p2 + 4 * p3 + 8 * p4 + 16 * p5 + 32 * p6]
              = <<p1, p2, p3, p4, p5, p6>>
        BY Rows13, SMTT(20)
      <4>3. QED  BY <2>1, <4>1, <4>2
    <3>4. <<p1, p2, p3, p4, p5, p6>> \in Bits(6) /\ BitsValue(<<p1, p2, p3, p4, p5, p6>>) = b - 1
      BY <3>2 DEF Bits, BitsValue
    <3>5. QED  BY <3>3, <3>4
  <2>4. QED  BY <2>1, <2>2, <2>3
<1>8. CASE n = 14
  <2>1. StartDigits(n) = BINARY_SEQ_FOR_EACH_14 /\ FixedDigits(n) = 7
    BY <1>8 DEF StartDigits, FixedDigits
  <2>2. Blocks(n) = 128 /\ PowerOfTwo(7) = 128
    BY <2>1, Rows14 DEF Blocks, PowerOfTwo
  <2>3. ASSUME NEW b \in 1 .. 128
        PROVE  /\ StartDigits(n)[b] \in Bits(7)
               /\ BitsValue(StartDigits(n)[b]) = b - 1
    <3>1. \E p1, p2, p3, p4, p5, p6, p7 \in {0, 1} :
            b - 1 = p1 + 2 * p2 + 4 * p3 + 8 * p4 + 16 * p5 + 32 * p6 + 64 * p7
      BY DigitsOfNumbers
    <3>2. PICK p1, p2, p3, p4, p5, p6, p7 \in {0, 1} : b - 1 = p1 + 2 * p2 + 4 * p3 + 8 * p4 + 16 * p5 + 32 * p6 + 64 * p7
      BY <3>1
    <3>3. StartDigits(n)[b] = <<p1, p2, p3, p4, p5, p6, p7>>
      <4>1. b = 1 + p1 + 2 * p2 + 4 * p3 + 8 * p4 + 16 * p5 + 32 * p6 + 64 * p7
        BY <3>2
      <4>2. BINARY_SEQ_FOR_EACH_14[1 + p1 + 2 * p2 + 4 * p3 + 8 * p4 + 16 * p5 + 32 * p6 + 64 * p7]
              = <<p1, p2, p3, p4, p5, p6, p7>>
        BY Rows14, SMTT(20)
      <4>3. QED  BY <2>1, <4>1, <4>2
    <3>4. <<p1, p2, p3, p4, p5, p6, p7>> \in Bits(7) /\ BitsValue(<<p1, p2, p3, p4, p5, p6, p7>>) = b - 1
      BY <3>2 DEF Bits, BitsValue
    <3>5. QED  BY <3>3, <3>4
  <2>4. QED  BY <2>1, <2>2, <2>3
<1>9. QED  BY <1>1, <1>2, <1>3, <1>4, <1>5, <1>6, <1>7, <1>8

-----------------------------------------------------------------------------
(* The state of a BOOST_PP_FOR: the user's data and binary digits.         *)
Shaped(n, s) ==
  /\ s \in Seq({Data, 0, 1})
  /\ Len(s) = n + 1
  /\ s[1] = Data
  /\ \A j \in 2 .. n + 1 : s[j] \in {0, 1}

(* The digits behind the data.                                             *)
LEMMA DigitsOfState ==
  ASSUME NEW n \in Nat, NEW s, Shaped(n, s)
  PROVE  /\ Tail(s) \in Bits(n)
         /\ \A j \in 1 .. n : Tail(s)[j] = s[j + 1]
         /\ s # << >> /\ Head(s) = Data
<1>1. s \in Seq({Data, 0, 1}) /\ s # << >>
  BY DEF Shaped
<1>2. /\ Tail(s) \in Seq({Data, 0, 1}) /\ Len(Tail(s)) = n
      /\ \A j \in 1 .. n : Tail(s)[j] = s[j + 1]
  BY <1>1, HeadTailProperties DEF Shaped
<1>3. Tail(s) \in [1 .. n -> {Data, 0, 1}]
  BY <1>2, LenProperties
<1>4. \A j \in 1 .. n : Tail(s)[j] \in {0, 1}
  BY <1>2 DEF Shaped
<1>5. Tail(s) \in Bits(n)
  BY <1>3, <1>4 DEF Bits
<1>6. Head(s) = Data
  BY <1>1 DEF Shaped
<1>7. QED  BY <1>1, <1>2, <1>5, <1>6

(* The fixed and the free part of a combination are digits.                *)
LEMMA PartsAreBits ==
  ASSUME NEW n \in 0 .. 14, NEW x \in Bits(n)
  PROVE  /\ HighDigits(n, x) \in Bits(FixedDigits(n))
         /\ LowDigits(n, x) \in Bits(FreeDigits(n))
<1>1. /\ FixedDigits(n) \in 0 .. 7 /\ FreeDigits(n) \in 0 .. 7
      /\ FixedDigits(n) + FreeDigits(n) = n
  BY DigitCounts
<1>2. \A j \in 1 .. n : x[j] \in {0, 1}
  BY DEF Bits
<1>3. \A j \in 1 .. FixedDigits(n) : x[j] \in {0, 1}
  BY <1>1, <1>2
<1>4. \A j \in 1 .. FreeDigits(n) : x[FixedDigits(n) + j] \in {0, 1}
  BY <1>1, <1>2
<1>5. QED  BY <1>3, <1>4 DEF Bits, HighDigits, LowDigits

(* A BOOST_PP_FOR starts from the digits of its block and zeros.           *)
LEMMA StartOfBlock ==
  ASSUME NEW n \in 0 .. 14, NEW b \in 1 .. Blocks(n)
  PROVE  /\ Shaped(n, ForStart(n, b))
         /\ BitsValue(HighDigits(n, Tail(ForStart(n, b)))) = b - 1
         /\ BitsValue(LowDigits(n, Tail(ForStart(n, b)))) = 0
<1> DEFINE row   == StartDigits(n)[b]
           zeros == [j \in 1 .. n - FixedDigits(n) |-> 0]
           s     == ForStart(n, b)
           k     == FixedDigits(n)
<1>1. k \in 0 .. 7 /\ n - k \in 0 .. 7 /\ n - k = FreeDigits(n)
  BY DigitCounts DEF FreeDigits
<1>2. row \in Bits(k) /\ BitsValue(row) = b - 1
  BY TablesAreComplete
<1>3. row \in Seq({0, 1}) /\ Len(row) = k
  BY <1>1, <1>2, BitsAreSequences
<1>4. zeros \in Bits(FreeDigits(n))
  BY <1>1 DEF Bits
<1>5. zeros \in Seq({0, 1}) /\ Len(zeros) = n - k /\ \A j \in 1 .. n - k : zeros[j] = 0
  BY <1>1, <1>4, BitsAreSequences
<1>6. s = (<<Data>> \o row) \o zeros
  BY DEF ForStart
<1> HIDE DEF row, zeros, s, k
<1>7. <<Data>> \in Seq({Data, 0, 1}) /\ Len(<<Data>>) = 1 /\ <<Data>>[1] = Data
  OBVIOUS
<1>8. row \in Seq({Data, 0, 1}) /\ zeros \in Seq({Data, 0, 1})
  BY <1>3, <1>5, SeqMonotonic, {0, 1} \subseteq {Data, 0, 1}
<1>9. /\ <<Data>> \o row \in Seq({Data, 0, 1})
      /\ Len(<<Data>> \o row) = k + 1
      /\ (<<Data>> \o row)[1] = Data
      /\ \A j \in 1 .. k : (<<Data>> \o row)[j + 1] = row[j]
  BY <1>1, <1>3, <1>7, <1>8, ConcatProperties
<1>10. /\ s \in Seq({Data, 0, 1}) /\ Len(s) = n + 1 /\ s[1] = Data
       /\ \A j \in 1 .. k : s[j + 1] = row[j]
       /\ \A j \in k + 2 .. n + 1 : s[j] = 0
  BY <1>1, <1>5, <1>6, <1>8, <1>9, ConcatProperties
<1>11. Shaped(n, s)
  <2>1. ASSUME NEW j \in 2 .. n + 1
        PROVE  s[j] \in {0, 1}
    <3>1. CASE j <= k + 1
      <4>1. j - 1 \in 1 .. k /\ s[(j - 1) + 1] = row[j - 1]
        BY <1>1, <1>10, <3>1
      <4>2. QED  BY <1>2, <4>1 DEF Bits
    <3>2. CASE j > k + 1
      <4>1. j \in k + 2 .. n + 1
        BY <1>1, <3>2
      <4>2. QED  BY <1>10, <4>1
    <3>3. QED  BY <1>1, <3>1, <3>2
  <2>2. QED  BY <1>10, <2>1 DEF Shaped
<1>12. /\ Tail(s) \in Bits(n)
       /\ \A j \in 1 .. n : Tail(s)[j] = s[j + 1]
  BY <1>11, n \in Nat, DigitsOfState
<1>13. HighDigits(n, Tail(s)) = row
  <2>1. \A j \in 1 .. k : Tail(s)[j] = row[j]
    BY <1>1, <1>10, <1>12
  <2>2. row = [j \in 1 .. k |-> row[j]]
    BY <1>2 DEF Bits
  <2>3. QED  BY <2>1, <2>2 DEF HighDigits, k
<1>14. LowDigits(n, Tail(s)) = zeros
  <2>1. ASSUME NEW j \in 1 .. n - k
        PROVE  Tail(s)[k + j] = 0
    <3>1. k + j \in 1 .. n /\ k + j + 1 \in k + 2 .. n + 1
      BY <1>1
    <3>2. QED  BY <1>10, <1>12, <3>1
  <2>2. zeros = [j \in 1 .. n - k |-> 0]
    BY DEF zeros, k
  <2>3. QED  BY <1>1, <2>1, <2>2 DEF LowDigits, FreeDigits, k
<1>15. BitsValue(zeros) = 0
  <2>1. \A j \in DOMAIN zeros : zeros[j] = 0
    BY DEF zeros
  <2>2. QED  BY <2>1 DEF BitsValue
<1>16. QED  BY <1>2, <1>11, <1>13, <1>14, <1>15 DEF s

(* SubSeq cuts the state into the digits left alone and those that move.   *)
LEMMA PartsOfState ==
  ASSUME NEW n \in 0 .. 14, NEW s, Shaped(n, s)
  PROVE  /\ SubSeq(s, 2, FixedDigits(n) + 1) = HighDigits(n, Tail(s))
         /\ SubSeq(s, FixedDigits(n) + 2, Len(s)) = LowDigits(n, Tail(s))
<1> DEFINE k == FixedDigits(n)
           f == FreeDigits(n)
<1>1. k \in 0 .. 7 /\ f \in 0 .. 7 /\ k + f = n /\ n \in Nat
  BY DigitCounts
<1>2. /\ Tail(s) \in Bits(n) /\ Len(s) = n + 1
      /\ \A j \in 1 .. n : Tail(s)[j] = s[j + 1]
  BY <1>1, DigitsOfState DEF Shaped
<1>3. \A j \in 2 .. n + 1 : s[j] \in {0, 1}
  BY DEF Shaped
<1>4. HighDigits(n, Tail(s)) \in Bits(k) /\ LowDigits(n, Tail(s)) \in Bits(f)
  BY <1>2, PartsAreBits
<1>5. /\ HighDigits(n, Tail(s)) \in Seq({0, 1}) /\ Len(HighDigits(n, Tail(s))) = k
      /\ LowDigits(n, Tail(s)) \in Seq({0, 1}) /\ Len(LowDigits(n, Tail(s))) = f
  BY <1>1, <1>4, BitsAreSequences
<1>6. /\ \A j \in 1 .. k : HighDigits(n, Tail(s))[j] = s[j + 1]
      /\ \A j \in 1 .. f : LowDigits(n, Tail(s))[j] = s[k + 1 + j]
  <2>1. ASSUME NEW j \in 1 .. k
        PROVE  HighDigits(n, Tail(s))[j] = s[j + 1]
    <3>1. j \in 1 .. n
      BY <1>1
    <3>2. QED  BY <1>2, <3>1 DEF HighDigits
  <2>2. ASSUME NEW j \in 1 .. f
        PROVE  LowDigits(n, Tail(s))[j] = s[k + 1 + j]
    <3>1. k + j \in 1 .. n /\ (k + j) + 1 = k + 1 + j
      BY <1>1
    <3>2. QED  BY <1>2, <3>1 DEF LowDigits
  <2>3. QED  BY <2>1, <2>2
<1> HIDE DEF k, f
<1>7. /\ \A i \in 2 .. k + 1 : s[i] \in {0, 1}
      /\ \A i \in k + 2 .. n + 1 : s[i] \in {0, 1}
  BY <1>1, <1>3
<1>8. /\ SubSeq(s, 2, k + 1) \in Seq({0, 1}) /\ Len(SubSeq(s, 2, k + 1)) = k
      /\ \A j \in 1 .. k : SubSeq(s, 2, k + 1)[j] = s[j + 1]
  <2>1. PICK e \in Int : e = k + 1
    BY <1>1
  <2>2. \A i \in 2 .. e : s[i] \in {0, 1}
    BY <1>7, <2>1
  <2>3. /\ SubSeq(s, 2, e) \in Seq({0, 1})
        /\ Len(SubSeq(s, 2, e)) = IF 2 <= e THEN e - 2 + 1 ELSE 0
        /\ \A i \in 1 .. e - 2 + 1 : SubSeq(s, 2, e)[i] = s[2 + i - 1]
    BY ONLY <2>2, SubSeqProperties, e \in Int, 2 \in Int
  <2>4. /\ Len(SubSeq(s, 2, e)) = k
        /\ \A i \in 1 .. k : SubSeq(s, 2, e)[i] = s[i + 1]
    BY <1>1, <2>1, <2>3
  <2>5. QED  BY <2>1, <2>3, <2>4
<1>9. /\ SubSeq(s, k + 2, n + 1) \in Seq({0, 1}) /\ Len(SubSeq(s, k + 2, n + 1)) = f
      /\ \A j \in 1 .. f : SubSeq(s, k + 2, n + 1)[j] = s[k + 1 + j]
  <2>1. k + 2 \in Int /\ n + 1 \in Int
    BY <1>1
  <2>2. /\ SubSeq(s, k + 2, n + 1) \in Seq({0, 1})
        /\ Len(SubSeq(s, k + 2, n + 1)) = IF k + 2 <= n + 1 THEN n + 1 - (k + 2) + 1 ELSE 0
        /\ \A i \in 1 .. n + 1 - (k + 2) + 1 :
             SubSeq(s, k + 2, n + 1)[i] = s[k + 2 + i - 1]
    BY <1>7, <2>1, SubSeqProperties
  <2>3. QED  BY <1>1, <2>2
<1>10. SubSeq(s, 2, k + 1) = HighDigits(n, Tail(s))
  <2>1. \A j \in 1 .. k : SubSeq(s, 2, k + 1)[j] = HighDigits(n, Tail(s))[j]
    BY <1>6, <1>8
  <2>2. QED  BY <1>5, <1>8, <2>1, SeqEqual
<1>11. SubSeq(s, k + 2, n + 1) = LowDigits(n, Tail(s))
  <2>1. \A j \in 1 .. f : SubSeq(s, k + 2, n + 1)[j] = LowDigits(n, Tail(s))[j]
    BY <1>6, <1>9
  <2>2. QED  BY <1>5, <1>9, <2>1, SeqEqual
<1>12. QED  BY <1>2, <1>10, <1>11 DEF k

(* The operation of a BOOST_PP_FOR adds one to the low digits and leaves   *)
(* the others alone, or grows the sequence, which ends the BOOST_PP_FOR.   *)
LEMMA NextOfBlock ==
  ASSUME NEW n \in 0 .. 14, NEW s, Shaped(n, s)
  PROVE  IF BitsValue(LowDigits(n, Tail(s))) = PowerOfTwo(FreeDigits(n)) - 1
         THEN Shaped(n + 1, ForNext(n, s))
         ELSE /\ Shaped(n, ForNext(n, s))
              /\ HighDigits(n, Tail(ForNext(n, s))) = HighDigits(n, Tail(s))
              /\ BitsValue(LowDigits(n, Tail(ForNext(n, s))))
                 = BitsValue(LowDigits(n, Tail(s))) + 1
<1> DEFINE k     == FixedDigits(n)
           f     == FreeDigits(n)
           low   == LowDigits(n, Tail(s))
           first == SubSeq(s, 1, k + 1)
           inc   == INC_BINARY_SEQ(low)
           t     == ForNext(n, s)
<1>1. k \in 0 .. 7 /\ f \in 0 .. 7 /\ k + f = n /\ n \in Nat
  BY DigitCounts
<1>2. /\ s \in Seq({Data, 0, 1}) /\ Len(s) = n + 1 /\ s[1] = Data
      /\ \A j \in 2 .. n + 1 : s[j] \in {0, 1}
  BY DEF Shaped
<1>3. /\ Tail(s) \in Bits(n)
      /\ \A j \in 1 .. n : Tail(s)[j] = s[j + 1]
  BY <1>1, DigitsOfState
<1>4. low \in Bits(f)
  BY <1>3, PartsAreBits
<1>5. t = first \o inc
  <2>1. Kept(k + 1) = k + 1 /\ (k + 1) + 1 = k + 2
    BY <1>1 DEF Kept
  <2>2. SubSeq(s, k + 2, Len(s)) = low
    BY PartsOfState
  <2>3. QED  BY <2>1, <2>2 DEF ForNext, INC_N, SEQ_MERGE, FirstN, RestN
<1>6. /\ first \in Seq({Data, 0, 1}) /\ Len(first) = k + 1
      /\ \A j \in 1 .. k + 1 : first[j] = s[j]
  <2>1. 1 \in Int /\ k + 1 \in Int
    BY <1>1
  <2>2. \A i \in 1 .. k + 1 : s[i] \in {Data, 0, 1}
    <3>1. s \in [1 .. n + 1 -> {Data, 0, 1}]
      BY <1>2, LenProperties
    <3>2. QED  BY <1>1, <3>1
  <2>3. /\ first \in Seq({Data, 0, 1})
        /\ Len(first) = k + 1
        /\ \A i \in 1 .. k + 1 : first[i] = s[i]
    <3>1. PICK e \in Int : e = k + 1
      BY <2>1
    <3>2. \A i \in 1 .. e : s[i] \in {Data, 0, 1}
      BY <2>2, <3>1
    <3>3. /\ SubSeq(s, 1, e) \in Seq({Data, 0, 1})
          /\ Len(SubSeq(s, 1, e)) = IF 1 <= e THEN e - 1 + 1 ELSE 0
          /\ \A i \in 1 .. e - 1 + 1 : SubSeq(s, 1, e)[i] = s[1 + i - 1]
      BY ONLY <3>2, SubSeqProperties, e \in Int, 1 \in Int
    <3>4. /\ Len(SubSeq(s, 1, e)) = e
          /\ \A i \in 1 .. e : SubSeq(s, 1, e)[i] = s[i]
      BY <1>1, <3>1, <3>3
    <3>5. QED  BY <3>1, <3>3, <3>4
  <2>4. QED  BY <2>3
<1> HIDE DEF k, f, low, first, inc, t
<1>7. BitsValue(low) = PowerOfTwo(f) - 1 <=> \A i \in 1 .. f : low[i] = 1
  BY <1>1, <1>4, ValueOfDigits
<1>8. inc \in Seq({0, 1})
      /\ Len(inc) = IF BitsValue(low) = PowerOfTwo(f) - 1 THEN f + 1 ELSE f
  <2>1. CASE \A i \in 1 .. f : low[i] = 1
    BY <1>1, <1>4, <1>7, <2>1, IncrementAddsOne DEF inc
  <2>2. CASE ~\A i \in 1 .. f : low[i] = 1
    <3>1. inc \in Bits(f)
      BY <1>1, <1>4, <2>2, IncrementAddsOne DEF inc
    <3>2. QED  BY <1>1, <1>7, <2>2, <3>1, BitsAreSequences
  <2>3. QED  BY <2>1, <2>2
<1>9. Len(inc) \in Nat /\ \A j \in 1 .. Len(inc) : inc[j] \in {0, 1}
  BY <1>8, LenProperties
<1>10. inc \in Seq({Data, 0, 1})
  BY <1>8, SeqMonotonic, {0, 1} \subseteq {Data, 0, 1}
<1>11. /\ t \in Seq({Data, 0, 1}) /\ Len(t) = k + 1 + Len(inc)
       /\ \A j \in 1 .. k + 1 + Len(inc) :
            t[j] = IF j <= k + 1 THEN s[j] ELSE inc[j - (k + 1)]
  BY <1>1, <1>5, <1>6, <1>9, <1>10, ConcatProperties
<1>12. Shaped(k + Len(inc), t)
  <2>1. ASSUME NEW j \in 2 .. k + Len(inc) + 1
        PROVE  t[j] \in {0, 1}
    <3>0. j \in 1 .. k + 1 + Len(inc)
      BY <1>1, <1>9
    <3>1. CASE j <= k + 1
      <4>1. j \in 2 .. n + 1
        BY <1>1, <3>1
      <4>2. QED  BY <1>2, <1>11, <3>0, <3>1, <4>1
    <3>2. CASE j > k + 1
      <4>1. j - (k + 1) \in 1 .. Len(inc)
        BY <1>1, <1>9, <3>2
      <4>2. t[j] = inc[j - (k + 1)]
        BY <1>1, <1>11, <3>0, <3>2
      <4>3. QED  BY <1>9, <4>1, <4>2
    <3>3. QED  BY <1>1, <3>1, <3>2
  <2>2. t[1] = Data
    BY <1>1, <1>2, <1>9, <1>11
  <2>3. QED  BY <1>1, <1>9, <1>11, <2>1, <2>2 DEF Shaped
<1>13. CASE BitsValue(low) = PowerOfTwo(f) - 1
  <2>1. k + Len(inc) = n + 1
    BY <1>1, <1>8, <1>13
  <2>2. QED  BY <1>12, <1>13, <2>1 DEF t, low, f
<1>14. CASE BitsValue(low) # PowerOfTwo(f) - 1
  <2>1. k + Len(inc) = n /\ Len(inc) = f
    BY <1>1, <1>8, <1>14
  <2>2. Shaped(n, t)
    BY <1>12, <2>1
  <2>3. /\ Tail(t) \in Bits(n)
        /\ \A j \in 1 .. n : Tail(t)[j] = t[j + 1]
    BY <1>1, <2>2, DigitsOfState
  <2>4. \A j \in 1 .. k : Tail(t)[j] = Tail(s)[j]
    <3>1. ASSUME NEW j \in 1 .. k
          PROVE  Tail(t)[j] = Tail(s)[j]
      <4>1. j \in 1 .. n /\ j + 1 \in 1 .. k + 1 + Len(inc) /\ j + 1 <= k + 1
        BY <1>1, <2>1
      <4>2. QED  BY <1>3, <1>11, <2>3, <4>1
    <3>2. QED  BY <3>1
  <2>5. \A j \in 1 .. f : Tail(t)[k + j] = inc[j]
    <3>1. ASSUME NEW j \in 1 .. f
          PROVE  Tail(t)[k + j] = inc[j]
      <4>1. k + j \in 1 .. n
        BY <1>1, <2>1
      <4>2. PICK m \in 1 .. k + 1 + Len(inc) : m = k + j + 1
        BY <1>1, <2>1
      <4>3. ~(m <= k + 1) /\ m - (k + 1) = j
        BY <1>1, <4>2
      <4>4. t[m] = inc[j]
        BY <1>11, <4>3
      <4>5. QED  BY <2>3, <4>1, <4>2, <4>4
    <3>2. QED  BY <3>1
  <2>6. inc \in Bits(f) /\ BitsValue(inc) = BitsValue(low) + 1
    BY <1>1, <1>4, <1>7, <1>14, IncrementAddsOne DEF inc
  <2>7. LowDigits(n, Tail(t)) = inc
    <3>1. inc = [j \in 1 .. f |-> inc[j]]
      BY <2>6 DEF Bits
    <3>2. QED  BY <2>5, <3>1 DEF LowDigits, k, f
  <2>8. HighDigits(n, Tail(t)) = HighDigits(n, Tail(s))
    BY <2>4 DEF HighDigits, k
  <2>9. QED  BY <1>14, <2>2, <2>6, <2>7, <2>8 DEF t, low, f
<1>15. QED  BY <1>13, <1>14 DEF low, f

-----------------------------------------------------------------------------
(* The places of the combinations: 2^n of them, none taken twice.          *)
LEMMA PlaceParts ==
  ASSUME NEW n \in 0 .. 14, NEW x \in Bits(n)
  PROVE  /\ BitsValue(HighDigits(n, x)) \in 0 .. PowerOfTwo(FixedDigits(n)) - 1
         /\ BitsValue(LowDigits(n, x)) \in 0 .. PowerOfTwo(FreeDigits(n)) - 1
BY DigitCounts, PartsAreBits, ValueOfDigits

(* As many blocks as the fixed digits have values; the free ones have 128, *)
(* unless there is one block.                                              *)
LEMMA BlockSizes ==
  ASSUME NEW n \in 0 .. 14
  PROVE  /\ Blocks(n) \in 1 .. 128
         /\ PowerOfTwo(FreeDigits(n)) \in 1 .. 128
         /\ 128 * (Blocks(n) - 1) + PowerOfTwo(FreeDigits(n)) = PowerOfTwo(n)
         /\ Blocks(n) > 1 => PowerOfTwo(FreeDigits(n)) = 128
<1>1. Blocks(n) = PowerOfTwo(FixedDigits(n))
  BY TablesAreComplete
<1>2. CASE n <= 7
  <2>1. FixedDigits(n) = 0 /\ FreeDigits(n) = n
    BY <1>2 DEF FixedDigits, FreeDigits
  <2>2. PowerOfTwo(n) \in 1 .. 128
    <3>1. n = 0 \/ n = 1 \/ n = 2 \/ n = 3 \/ n = 4 \/ n = 5 \/ n = 6 \/ n = 7
      BY <1>2
    <3>2. QED  BY <3>1, PowersOfTwo
  <2>3. QED  BY <1>1, <2>1, <2>2, PowersOfTwo
<1>3. CASE n > 7
  <2>1. FixedDigits(n) = n - 7 /\ FreeDigits(n) = 7
    BY <1>3 DEF FixedDigits, FreeDigits
  <2>2. PowerOfTwo(n - 7) \in 2 .. 128 /\ 128 * PowerOfTwo(n - 7) = PowerOfTwo(n)
    <3>1. n = 8 \/ n = 9 \/ n = 10 \/ n = 11 \/ n = 12 \/ n = 13 \/ n = 14
      BY <1>3
    <3>2. /\ PowerOfTwo(8) = 256 /\ PowerOfTwo(9) = 512 /\ PowerOfTwo(10) = 1024
          /\ PowerOfTwo(11) = 2048 /\ PowerOfTwo(12) = 4096
          /\ PowerOfTwo(13) = 8192 /\ PowerOfTwo(14) = 16384
      BY DEF PowerOfTwo
    <3>3. QED  BY <3>1, <3>2, PowersOfTwo
  <2>3. QED  BY <1>1, <2>1, <2>2, PowersOfTwo
<1>4. QED  BY <1>2, <1>3

(* A power of two is positive.                                             *)
LEMMA PowersAreNat ==
  ASSUME NEW n \in 0 .. 14
  PROVE  PowerOfTwo(n) \in Nat /\ PowerOfTwo(n) > 0
<1>1. \/ n \in {0, 1, 2, 3, 4, 5, 6, 7}
      \/ n \in {8, 9, 10, 11, 12, 13, 14}
  OBVIOUS
<1>2. QED  BY <1>1 DEF PowerOfTwo

(* A combination of n digits has one of the first 2^n places.              *)
LEMMA PlaceIsBounded ==
  ASSUME NEW n \in 0 .. 14, NEW x \in Bits(n)
  PROVE  Place(n, x) \in 0 .. PowerOfTwo(n) - 1
<1>1. /\ BitsValue(HighDigits(n, x)) \in 0 .. Blocks(n) - 1
      /\ BitsValue(LowDigits(n, x)) \in 0 .. PowerOfTwo(FreeDigits(n)) - 1
  BY PlaceParts, TablesAreComplete
<1>2. /\ Blocks(n) \in 1 .. 128 /\ PowerOfTwo(FreeDigits(n)) \in 1 .. 128
      /\ PowerOfTwo(n) \in Nat
      /\ 128 * (Blocks(n) - 1) + PowerOfTwo(FreeDigits(n)) = PowerOfTwo(n)
  BY BlockSizes, PowersAreNat
<1> DEFINE h == BitsValue(HighDigits(n, x))
           k == BitsValue(LowDigits(n, x))
           b == Blocks(n)
           c == PowerOfTwo(FreeDigits(n))
           e == PowerOfTwo(n)
<1>3. /\ h \in 0 .. b - 1 /\ k \in 0 .. c - 1
      /\ b \in 1 .. 128 /\ c \in 1 .. 128 /\ e \in Nat
      /\ 128 * (b - 1) + c = e
  BY <1>1, <1>2
<1> HIDE DEF h, k, b, c, e
<1>4. 128 * h + k \in 0 .. e - 1
  BY ONLY <1>3
<1>5. QED  BY <1>4 DEF Place, h, k, e

(* And no other combination has it.                                        *)
LEMMA PlaceIsInjective ==
  ASSUME NEW n \in 0 .. 14, NEW x \in Bits(n), NEW y \in Bits(n),
         Place(n, x) = Place(n, y)
  PROVE  x = y
<1>1. /\ FixedDigits(n) \in 0 .. 7 /\ FreeDigits(n) \in 0 .. 7
      /\ FixedDigits(n) + FreeDigits(n) = n
  BY DigitCounts
<1>2. \A z \in Bits(n) : /\ BitsValue(HighDigits(n, z)) \in Nat
                         /\ BitsValue(LowDigits(n, z)) \in 0 .. 127
  <2>1. TAKE z \in Bits(n)
  <2>2. /\ BitsValue(HighDigits(n, z)) \in 0 .. Blocks(n) - 1
        /\ BitsValue(LowDigits(n, z)) \in 0 .. PowerOfTwo(FreeDigits(n)) - 1
    BY PlaceParts, TablesAreComplete
  <2>3. Blocks(n) \in 1 .. 128 /\ PowerOfTwo(FreeDigits(n)) \in 1 .. 128
    BY BlockSizes
  <2>4. QED  BY <2>2, <2>3, SMTT(30)
<1>3. /\ BitsValue(HighDigits(n, x)) = BitsValue(HighDigits(n, y))
      /\ BitsValue(LowDigits(n, x)) = BitsValue(LowDigits(n, y))
  <2>1. PICK h, i \in Nat : /\ h = BitsValue(HighDigits(n, x))
                           /\ i = BitsValue(HighDigits(n, y))
    BY <1>2
  <2>2. PICK k, l \in 0 .. 127 : /\ k = BitsValue(LowDigits(n, x))
                                /\ l = BitsValue(LowDigits(n, y))
    BY <1>2
  <2>3. 128 * h + k = 128 * i + l
    BY <2>1, <2>2 DEF Place
  <2>4. h = i /\ k = l
    BY ONLY <2>3, h \in Nat, i \in Nat, k \in 0 .. 127, l \in 0 .. 127
  <2>5. QED  BY <2>1, <2>2, <2>4
<1>4. /\ HighDigits(n, x) = HighDigits(n, y)
      /\ LowDigits(n, x) = LowDigits(n, y)
  BY <1>1, <1>3, PartsAreBits, ValueIsInjective
<1>5. /\ \A j \in 1 .. FixedDigits(n) : x[j] = y[j]
      /\ \A j \in 1 .. FreeDigits(n) : x[FixedDigits(n) + j] = y[FixedDigits(n) + j]
  <2>1. ASSUME NEW j \in 1 .. FixedDigits(n)
        PROVE  x[j] = y[j]
    <3>1. HighDigits(n, x)[j] = x[j] /\ HighDigits(n, y)[j] = y[j]
      BY DEF HighDigits
    <3>2. QED  BY <1>4, <3>1
  <2>2. ASSUME NEW j \in 1 .. FreeDigits(n)
        PROVE  x[FixedDigits(n) + j] = y[FixedDigits(n) + j]
    <3>1. /\ LowDigits(n, x)[j] = x[FixedDigits(n) + j]
          /\ LowDigits(n, y)[j] = y[FixedDigits(n) + j]
      BY DEF LowDigits
    <3>2. QED  BY <1>4, <3>1
  <2>3. QED  BY <2>1, <2>2
<1>6. ASSUME NEW j \in 1 .. n
      PROVE  x[j] = y[j]
  <2>1. CASE j <= FixedDigits(n)
    BY <1>1, <1>5, <2>1
  <2>2. CASE j > FixedDigits(n)
    <3>1. PICK i \in 1 .. FreeDigits(n) : j = FixedDigits(n) + i
      <4>1. j - FixedDigits(n) \in 1 .. FreeDigits(n)
        BY <1>1, <2>2
      <4>2. QED  BY <1>1, <4>1
    <3>2. QED  BY <1>5, <3>1
  <2>3. QED  BY <1>1, <2>1, <2>2
<1>7. QED  BY <1>6 DEF Bits

(* Every list of & and const& is spelled by some combination of bits.      *)
LEMMA EveryListIsSpelled ==
  ASSUME NEW n \in Nat, NEW p \in [1 .. n -> {"&", "const&"}]
  PROVE  \E x \in Bits(n) : p = BINARY_SEQ_TO_ARGS(x)
<1> DEFINE x == [j \in 1 .. n |-> IF p[j] = "&" THEN 1 ELSE 0]
<1>1. x \in Bits(n) /\ DOMAIN x = 1 .. n
  BY DEF Bits
<1>2. \A j \in 1 .. n : BINARY_SEQ_TO_ARG(x[j]) = p[j]
  BY DEF BINARY_SEQ_TO_ARG
<1> HIDE DEF x
<1>3. BINARY_SEQ_TO_ARGS(x) = [j \in 1 .. n |-> p[j]]
  BY <1>1, <1>2 DEF BINARY_SEQ_TO_ARGS
<1>4. QED  BY <1>1, <1>3

(* What a combination spells is a list of & and const&.                    *)
LEMMA SpelledLists ==
  ASSUME NEW n \in Nat, NEW x \in Bits(n)
  PROVE  BINARY_SEQ_TO_ARGS(x) \in [1 .. n -> {"&", "const&"}]
BY DEF Bits, BINARY_SEQ_TO_ARGS, BINARY_SEQ_TO_ARG

-----------------------------------------------------------------------------
(* Overload resolution.                                                    *)

(* The parameter lists an arity gets, by the form of its declaration.      *)
ListsOf(form, n) ==
  CASE form = "binary" -> [1 .. n -> {"&", "const&"}]
    [] form \in {"none", "ill_formed"} -> {}
    [] OTHER -> {[j \in 1 .. n |-> ParameterOf(form)]}

(* & for the mutable arguments, const& for the others.                     *)
ByMutability(cats) ==
  [j \in DOMAIN cats |-> IF cats[j] = "mutable" THEN "&" ELSE "const&"]

(* The categories of n arguments are a sequence of n of them.              *)
LEMMA CategoryLists ==
  ASSUME NEW n \in Nat, NEW cats \in [1 .. n -> Categories]
  PROVE  /\ cats \in Seq(Categories) /\ Len(cats) = n /\ DOMAIN cats = 1 .. n
         /\ \A j \in 1 .. n : cats[j] \in {"mutable", "const", "rvalue"}
BY DEF Categories

(* No two overloads are each better than the other.                        *)
LEMMA BestIsUnique ==
  ASSUME NEW n \in Nat, NEW cats \in [1 .. n -> Categories],
         NEW set, \A p \in set : Len(p) = n => DOMAIN p = 1 .. n /\ p = [j \in 1 .. n |-> p[j]],
         NEW p \in Best(set, cats), NEW q \in Best(set, cats)
  PROVE  p = q
<1>1. SUFFICES ASSUME p # q
               PROVE  FALSE
  OBVIOUS
<1>2. Len(cats) = n
  BY CategoryLists
<1>3. /\ p \in set /\ Len(p) = n /\ q \in set /\ Len(q) = n
      /\ Better(p, q, cats) /\ Better(q, p, cats)
  BY <1>1, <1>2 DEF Best, Viable
<1>4. \A j \in 1 .. n : p[j] = q[j]
  BY <1>3 DEF Better
<1>5. QED  BY <1>1, <1>3, <1>4

(* Of all combinations of & and const&, a call takes the one that says     *)
(* which of its arguments are mutable.                                     *)
LEMMA BestOfCombinations ==
  ASSUME NEW n \in Nat, NEW cats \in [1 .. n -> Categories], NEW set,
         \A p \in set : Len(p) = n => p \in [1 .. n -> {"&", "const&"}],
         [1 .. n -> {"&", "const&"}] \subseteq set
  PROVE  Best(set, cats) = {ByMutability(cats)}
<1> DEFINE best == ByMutability(cats)
<1>1. /\ Len(cats) = n /\ DOMAIN cats = 1 .. n
      /\ \A j \in 1 .. n : cats[j] \in {"mutable", "const", "rvalue"}
  BY CategoryLists
<1>2. /\ best \in [1 .. n -> {"&", "const&"}]
      /\ \A j \in 1 .. n : best[j] = IF cats[j] = "mutable" THEN "&" ELSE "const&"
  BY <1>1 DEF ByMutability
<1> HIDE DEF best
<1>3. best \in set /\ Len(best) = n /\ DOMAIN best = 1 .. n
  BY <1>2
<1>4. \A j \in 1 .. n : Binds(best[j], cats[j])
  BY <1>1, <1>2 DEF Binds
<1>5. best \in Viable(set, cats)
  BY <1>1, <1>3, <1>4 DEF Viable
<1>6. \A q \in Viable(set, cats) : Better(best, q, cats)
  <2>1. ASSUME NEW q \in Viable(set, cats)
        PROVE  Better(best, q, cats)
    <3>1. q \in [1 .. n -> {"&", "const&"}]
      BY <1>1 DEF Viable
    <3>2. \A j \in 1 .. n : ~AddsConst(best[j], cats[j])
      BY <1>1, <1>2 DEF AddsConst
    <3>3. ASSUME ~\E j \in 1 .. n : AddsConst(q[j], cats[j]) /\ ~AddsConst(best[j], cats[j]),
                 NEW j \in 1 .. n
          PROVE  best[j] = q[j] \/ (best[j] = "const&" /\ q[j] = "&")
      BY <1>1, <1>2, <3>1, <3>2, <3>3 DEF AddsConst
    <3>4. QED  BY <1>3, <3>2, <3>3 DEF Better
  <2>2. QED  BY <2>1
<1>7. best \in Best(set, cats)
  BY <1>5, <1>6 DEF Best
<1>8. \A p \in set : Len(p) = n => DOMAIN p = 1 .. n /\ p = [j \in 1 .. n |-> p[j]]
  OBVIOUS
<1>9. \A q \in Best(set, cats) : q = best
  BY <1>7, <1>8, BestIsUnique
<1>10. QED  BY <1>7, <1>9 DEF best

(* An overload that is alone and binds its arguments is taken.             *)
LEMMA BestOfOne ==
  ASSUME NEW n \in Nat, NEW cats \in [1 .. n -> Categories], NEW set, NEW only \in set,
         Len(only) = n, \A p \in set : Len(p) = n => p = only,
         \A j \in 1 .. n : Binds(only[j], cats[j])
  PROVE  Best(set, cats) = {only}
<1>1. Len(cats) = n /\ DOMAIN cats = 1 .. n
  BY CategoryLists
<1>2. Viable(set, cats) = {only}
  BY <1>1 DEF Viable
<1>3. QED  BY <1>2 DEF Best

-----------------------------------------------------------------------------
(* The inductive invariant.                                                *)
(* The overload sets of an interface: operator() and the macro's.          *)
Sets == {"operator", "macro"}

(* The arities of the macro.                                               *)
MacroRange == RangeOfMacro(FLATTEN(interface.specs))

(* The arities of a set.                                                   *)
RangeOf(w) == IF w = "operator" THEN <<0, maxArity + 1>> ELSE MacroRange

(* The form of an arity of the macro's.                                    *)
MacroForm(k) ==
  CASE interface.kind = "function" -> ForwardForm(k)
    [] interface.kind = "fun" -> FunForm(k)
    [] OTHER -> NoSpecForm(k)

(* The form of an arity of a set.                                          *)
FormIn(w, k) == IF w = "operator" THEN OperatorForm(k) ELSE MacroForm(k)

(* The arities of w that are done with.                                    *)
Passed(w) ==
  IF w = what THEN range[1] .. (arity - 1)
  ELSE IF w = "operator" THEN 0 .. maxArity ELSE {}

(* The control: which set is declared and where its arities go.            *)
ControlInv ==
  /\ interface \in Interfaces
  /\ what \in Sets
  /\ pc \in {"repeat", "for", "declared", "call", "compose", "build", "bound",
             "not_callable", "hard_error"}
  /\ range = RangeOf(what)
  /\ arity \in range[1] .. range[2]
  /\ pc \in {"declared", "call", "compose", "build", "bound", "not_callable"}
       => what = "macro" /\ arity = range[2]
  /\ FailsOnlyAtItsLimits

(* A BOOST_PP_FOR: its state is that of its block, and the iterations and  *)
(* the overloads emitted count what its digits spell.                      *)
InBlock ==
  /\ 1 <= block
  /\ emitted = 128 * (block - 1) + iterations
  /\ \/ /\ Shaped(arity, seq)
        /\ BitsValue(HighDigits(arity, Tail(seq))) = block - 1
        /\ BitsValue(LowDigits(arity, Tail(seq))) = iterations
     \/ /\ Shaped(arity + 1, seq)
        /\ iterations = PowerOfTwo(FreeDigits(arity))

(* While BOOST_PP_FORs run they are in one of their blocks or done, with   *)
(* all the combinations declared.                                          *)
ForInv ==
  IF pc = "for"
  THEN /\ arity \in 1 .. 14
       /\ arity < range[2]
       /\ FormIn(what, arity) = "binary"
       /\ block \in 1 .. Blocks(arity) + 1
       /\ IF block <= Blocks(arity) THEN InBlock
          ELSE emitted = PowerOfTwo(arity) /\ seq = << >> /\ iterations = 0
  ELSE block \in 0 .. 129 /\ seq = << >> /\ iterations = 0

(* What is declared: of the arities passed everything, of the one that is  *)
(* declared the combinations that come first.                              *)
Expanding(w) == pc = "for" /\ w = what

(* The arities covered are those passed that get a declaration.            *)
CoveredInv ==
  /\ covered \in [Sets -> SUBSET Nat]
  /\ \A w \in Sets :
       covered[w] = {n \in Passed(w) : FormIn(w, n) # "none"}
                    \union (IF Expanding(w) /\ emitted > 0 THEN {arity} ELSE {})

(* An overload that is kept belongs to an arity passed or in progress.     *)
OnlyTheseLists ==
  \A w \in Sets : \A p \in overloads[w] :
    \E n \in Nat : /\ n \in Passed(w) \/ (Expanding(w) /\ n = arity)
                   /\ n <= MaxCallArity
                   /\ p \in ListsOf(FormIn(w, n), n)

(* An arity that is passed has all its overloads.                          *)
AllTheseLists ==
  \A w \in Sets : \A n \in Passed(w) :
    /\ FormIn(w, n) # "ill_formed"
    /\ n <= MaxCallArity => ListsOf(FormIn(w, n), n) \subseteq overloads[w]

(* An arity in progress has those of the places emitted.                   *)
CombinationsSoFar ==
  pc = "for" /\ arity <= MaxCallArity =>
    \A x \in Bits(arity) :
      Place(arity, x) < emitted => BINARY_SEQ_TO_ARGS(x) \in overloads[what]

(* The three together.                                                     *)
ListsInv ==
  /\ overloads \in [Sets -> SUBSET UNION {[1 .. n -> {"&", "const&", "&&"}] : n \in Nat}]
  /\ OnlyTheseLists
  /\ AllTheseLists
  /\ CombinationsSoFar

(* The call: overload resolution has one answer where it was asked.        *)
CallInv ==
  IF pc \in {"call", "compose", "build", "bound", "not_callable"}
  THEN /\ Len(args) \in range[1] .. range[2] - 1
       /\ Len(args) <= MaxCallArity
       /\ args \in [1 .. Len(args) -> Categories]
       /\ chosen.macro = Best(overloads.macro, args)
       /\ chosen.macro # {}
       /\ pc = "compose" <=> interface.kind = "no_spec"
       /\ chosen.operator = IF pc \in {"call", "compose"} THEN {}
                            ELSE Best(overloads.operator, ForwardedArgs)
       /\ CallsAreForwarded
  ELSE args = << >> /\ chosen = [operator |-> {}, macro |-> {}]

(* The pack under construction: what was stored, and what is still passed. *)
PackInv ==
  /\ nodes \in Seq(Nat)
  /\ Len(nodes) <= Len(args)
  /\ pc = "call" => nodes = << >>
  /\ \A m \in 1 .. Len(nodes) : nodes[m] = Len(args) + 1 - m
  /\ pc = "build" =>
       inits = [j \in 1 .. COMPOSE_MAX_ARITY |->
                  IF j <= Len(args) - Len(nodes)
                  THEN Len(args) - Len(nodes) + 1 - j ELSE 0]
  /\ pc = "bound" /\ ~perfect => Len(nodes) = Len(args)

(* The inductive invariant.                                                *)
OverloadsInv ==
  /\ ControlInv
  /\ ForInv
  /\ CoveredInv
  /\ ListsInv
  /\ chosen \in [Sets -> SUBSET UNION {[1 .. n -> {"&", "const&", "&&"}] : n \in Nat}]
  /\ CallInv
  /\ PackInv

-----------------------------------------------------------------------------
(* Facts about the interface and the arities.                              *)
LEMMA InterfaceFacts ==
  ASSUME interface \in Interfaces
  PROVE  /\ perfect \in BOOLEAN /\ threshold \in Nat
         /\ maxArity \in Nat /\ 2 <= maxArity /\ maxArity <= COMPOSE_MAX_ARITY
         /\ interface.kind \in {"function", "fun", "no_spec"}
BY InterfacesAssumption DEF InterfacesAssumption, perfect, threshold, maxArity

(* arity_range.hpp counts no more required parameters than there are.      *)
LEMMA RequiredAreCounted ==
  ASSUME NEW list, Len(list) \in Nat
  PROVE  /\ ARITY_RANGE(list)[1] \in 0 .. Len(list)
         /\ ARITY_RANGE(list)[2] = Len(list) + 1
<1> DEFINE required == {j \in 1 .. Len(list) :
                          list[j].qual \in {"required", "deduced_required"}}
<1>1. IsFiniteSet(1 .. Len(list)) /\ Cardinality(1 .. Len(list)) = Len(list)
  <2>1. 1 \in Int /\ Len(list) \in Int
    OBVIOUS
  <2>2. /\ IsFiniteSet(1 .. Len(list))
        /\ Cardinality(1 .. Len(list)) = IF 1 > Len(list) THEN 0 ELSE Len(list) - 1 + 1
    BY <2>1, FS_Interval, Zenon
  <2>3. QED  BY <2>2
<1>2. required \subseteq 1 .. Len(list)
  OBVIOUS
<1> HIDE DEF required
<1>3. IsFiniteSet(required) /\ Cardinality(required) <= Len(list)
  BY <1>1, <1>2, FS_Subset
<1>4. Cardinality(required) \in Nat
  BY <1>3, FS_CardinalityType
<1>5. ARITY_RANGE(list) = <<Cardinality(required), Len(list) + 1>>
  BY DEF ARITY_RANGE, required
<1>6. QED  BY <1>3, <1>4, <1>5

(* The bounds of the arities of a set.                                     *)
LEMMA RangeFacts ==
  ASSUME interface \in Interfaces
  PROVE  /\ \A w \in Sets : /\ RangeOf(w)[1] \in Nat /\ RangeOf(w)[2] \in Nat
                           /\ RangeOf(w)[1] < RangeOf(w)[2]
                           /\ RangeOf(w)[2] <= COMPOSE_MAX_ARITY + 1
         /\ interface.kind # "no_spec" => MacroRange[2] <= maxArity + 1
         /\ RangeOf("operator")[1] = 0 /\ RangeOf("operator")[2] = maxArity + 1
         /\ RangeOf("macro") = MacroRange
<1>1. /\ MacroRange[1] \in Nat /\ MacroRange[2] \in Nat /\ MacroRange[1] < MacroRange[2]
      /\ interface.kind # "no_spec" => MacroRange[2] <= maxArity + 1
      /\ MacroRange[2] <= COMPOSE_MAX_ARITY + 1
  <2>1. CASE interface.kind = "function"
    <3>1. Len(FLATTEN(interface.specs)) \in 0 .. maxArity
      BY <2>1, InterfacesAssumption DEF InterfacesAssumption, maxArity
    <3>2. MacroRange = ARITY_RANGE(FLATTEN(interface.specs))
      BY <2>1 DEF MacroRange, RangeOfMacro
    <3>3. QED  BY <3>1, <3>2, RequiredAreCounted, InterfaceFacts, InterfacesAssumption
               DEF InterfacesAssumption
  <2>2. CASE interface.kind = "fun"
    <3>1. /\ interface.lo \in Nat /\ interface.hi \in interface.lo .. maxArity
      BY <2>2, InterfacesAssumption DEF InterfacesAssumption, maxArity
    <3>2. MacroRange = <<interface.lo, interface.hi + 1>>
      BY <2>2 DEF MacroRange, RangeOfMacro
    <3>3. QED  BY <3>1, <3>2, InterfaceFacts, InterfacesAssumption
               DEF InterfacesAssumption
  <2>3. CASE interface.kind = "no_spec"
    <3>1. MacroRange = <<1, COMPOSE_MAX_ARITY + 1>>
      BY <2>3 DEF MacroRange, RangeOfMacro
    <3>2. QED  BY <2>3, <3>1, InterfaceFacts, InterfacesAssumption DEF InterfacesAssumption
  <2>4. QED  BY <2>1, <2>2, <2>3, InterfaceFacts
<1>2. /\ RangeOf("operator") = <<0, maxArity + 1>> /\ RangeOf("macro") = MacroRange
  BY DEF RangeOf
<1>3. QED  BY <1>1, <1>2, InterfaceFacts, InterfacesAssumption DEF Sets, InterfacesAssumption

(* The form of the set that is declared.                                   *)
LEMMA FormOfIsFormIn ==
  ASSUME what \in Sets, interface \in Interfaces
  PROVE  \A k : FormOf(k) = FormIn(what, k)
<1>1. CASE what = "operator"
  BY <1>1 DEF FormOf, FormIn
<1>2. CASE what = "macro"
  BY <1>2, InterfaceFacts DEF FormOf, FormIn, MacroForm
<1>3. QED  BY <1>1, <1>2 DEF Sets

(* The forms of operator() and of the macros.                              *)
LEMMA FormKinds ==
  ASSUME interface \in Interfaces, NEW w \in Sets, NEW k \in Nat
  PROVE  /\ FormIn(w, k) \in {"nullary", "forwarding", "const", "mutable", "binary",
                              "none", "ill_formed"}
         /\ FormIn(w, k) \in {"binary", "ill_formed"} => ~perfect
         /\ FormIn(w, k) = "binary" => k # 0
         /\ FormIn(w, k) = "ill_formed" =>
              w = "macro" /\ interface.kind = "fun" /\ k = 0 /\ threshold = 0
<1>1. OperatorForm(k) \in {"nullary", "forwarding", "mutable", "none"}
      \/ (OperatorForm(k) = "binary" /\ ~perfect /\ k # 0)
  BY InterfaceFacts DEF OperatorForm
<1>2. ForwardForm(k) \in {"nullary", "forwarding"}
      \/ (ForwardForm(k) = "binary" /\ ~perfect /\ k # 0)
  BY InterfaceFacts DEF ForwardForm
<1>3. \/ FunForm(k) \in {"nullary", "forwarding", "const"}
      \/ (FunForm(k) = "binary" /\ ~perfect /\ k # 0)
      \/ (FunForm(k) = "ill_formed" /\ ~perfect /\ k = 0 /\ threshold = 0)
  BY InterfaceFacts DEF FunForm
<1>4. NoSpecForm(k) = "const"
  BY DEF NoSpecForm
<1>5. CASE w = "operator"
  BY <1>1, <1>5 DEF FormIn
<1>6. CASE w = "macro"
  BY <1>2, <1>3, <1>4, <1>6, InterfaceFacts DEF FormIn, MacroForm
<1>7. QED  BY <1>5, <1>6 DEF Sets

(* A declaration other than by combinations is one list.                   *)
LEMMA ListsOfForms ==
  ASSUME NEW n \in Nat, NEW form
  PROVE  /\ form = "binary" => ListsOf(form, n) = [1 .. n -> {"&", "const&"}]
         /\ form \in {"nullary", "forwarding", "const", "mutable"} =>
              ListsOf(form, n) = {[j \in 1 .. n |-> ParameterOf(form)]}
         /\ form \in {"none", "ill_formed"} => ListsOf(form, n) = {}
         /\ \A p \in ListsOf(form, n) :
              /\ p \in [1 .. n -> {"&", "const&", "&&"}]
              /\ Len(p) = n /\ DOMAIN p = 1 .. n /\ p = [j \in 1 .. n |-> p[j]]
<1>1. ParameterOf(form) \in {"&", "const&", "&&"}
  BY DEF ParameterOf
<1>2. CASE form = "binary"
  BY <1>2 DEF ListsOf
<1>3. CASE form \in {"none", "ill_formed"}
  BY <1>3 DEF ListsOf
<1>4. CASE form \notin {"binary", "none", "ill_formed"}
  BY <1>1, <1>4 DEF ListsOf
<1>5. QED  BY <1>2, <1>3, <1>4

-----------------------------------------------------------------------------
(* What does not change when its variables do not.                         *)
LEMMA SameInterface ==
  ASSUME interface' = interface
  PROVE  /\ perfect' = perfect /\ maxArity' = maxArity /\ threshold' = threshold
         /\ \A w, k : FormIn(w, k)' = FormIn(w, k)
         /\ \A w : RangeOf(w)' = RangeOf(w)
         /\ MacroRange' = MacroRange
<1>1. perfect' = perfect /\ maxArity' = maxArity /\ threshold' = threshold
  BY DEF perfect, maxArity, threshold
<1>2. \A k : OperatorForm(k)' = OperatorForm(k)
  BY <1>1 DEF OperatorForm
<1>3. \A k : MacroForm(k)' = MacroForm(k)
  BY <1>1 DEF MacroForm, ForwardForm, FunForm, NoSpecForm
<1>4. MacroRange' = MacroRange
  BY DEF MacroRange, RangeOfMacro
<1>5. QED  BY <1>1, <1>2, <1>3, <1>4 DEF FormIn, RangeOf

(* The arities passed, while the arity stays.                              *)
LEMMA PassedStays ==
  ASSUME interface' = interface, what' = what, range' = range, arity' = arity
  PROVE  \A w : Passed(w)' = Passed(w)
BY SameInterface DEF Passed

(* And when it is passed.                                                  *)
LEMMA PassedGrows ==
  ASSUME ControlInv, interface' = interface, what' = what, range' = range,
         arity < range[2], arity' = arity + 1
  PROVE  /\ arity \in Nat
         /\ \A w \in Sets : Passed(w)' = IF w = what THEN Passed(w) \union {arity}
                                         ELSE Passed(w)
<1>1. range[1] \in Nat /\ range[2] \in Nat /\ arity \in range[1] .. range[2]
  BY RangeFacts DEF ControlInv
<1>2. arity \in Nat /\ range[1] .. (arity + 1 - 1) = (range[1] .. (arity - 1)) \union {arity}
  BY <1>1
<1>3. ASSUME NEW w \in Sets
      PROVE  Passed(w)' = IF w = what THEN Passed(w) \union {arity} ELSE Passed(w)
  <2>1. CASE w = what
    BY <1>2, <2>1 DEF Passed
  <2>2. CASE w # what
    BY <2>2, SameInterface DEF Passed
  <2>3. QED  BY <2>1, <2>2
<1>4. QED  BY <1>2, <1>3

(* The declarations, while a call goes on.                                 *)
LEMMA DeclarationsStay ==
  ASSUME declVars' = declVars, pc # "for", pc' # "for", ForInv, CoveredInv, ListsInv
  PROVE  ForInv' /\ CoveredInv' /\ ListsInv'
<1>1. /\ interface' = interface /\ what' = what /\ range' = range /\ arity' = arity
      /\ block' = block /\ seq' = seq /\ iterations' = iterations
      /\ covered' = covered /\ overloads' = overloads
  BY DEF declVars
<1>2. /\ \A w : Passed(w)' = Passed(w)
      /\ \A w, k : FormIn(w, k)' = FormIn(w, k)
  BY <1>1, PassedStays, SameInterface
<1>3. \A w : ~Expanding(w) /\ ~Expanding(w)'
  BY DEF Expanding
<1>4. ForInv'
  BY <1>1 DEF ForInv
<1>5. CoveredInv'
  BY <1>1, <1>2, <1>3 DEF CoveredInv
<1>6. ListsInv'
  BY <1>1, <1>2, <1>3 DEF ListsInv, OnlyTheseLists, AllTheseLists, CombinationsSoFar
<1>7. QED  BY <1>4, <1>5, <1>6

(* The call, while declarations go on.                                     *)
LEMMA NoCallYet ==
  ASSUME callVars' = callVars, CallInv, PackInv,
         chosen \in [Sets -> SUBSET UNION {[1 .. n -> {"&", "const&", "&&"}] : n \in Nat}],
         pc \in {"repeat", "for", "declared", "hard_error"},
         pc' \in {"repeat", "for", "declared", "hard_error"}
  PROVE  /\ CallInv' /\ PackInv'
         /\ chosen' \in [Sets -> SUBSET UNION {[1 .. n -> {"&", "const&", "&&"}] : n \in Nat}]
BY DEF callVars, CallInv, PackInv

-----------------------------------------------------------------------------
(* The steps of the expansion.                                             *)
LEMMA InitHolds ==
  ASSUME Init
  PROVE  OverloadsInv
<1>1. /\ what = "operator" /\ pc = "repeat" /\ arity = 0
      /\ range[1] = 0 /\ range[2] = maxArity + 1 /\ range = RangeOf(what)
      /\ interface \in Interfaces
  BY DEF Init, RangeOf, maxArity
<1>2. Passed("operator") = {} /\ Passed("macro") = {} /\ \A w : ~Expanding(w)
  BY <1>1 DEF Passed, Expanding
<1>3. ControlInv
  BY <1>1, InterfaceFacts DEF ControlInv, FailsOnlyAtItsLimits, Sets
<1>4. ForInv
  BY DEF Init, ForInv
<1>5. CoveredInv
  BY <1>2 DEF Init, CoveredInv, Sets
<1>6. ListsInv
  BY <1>1, <1>2 DEF Init, ListsInv, OnlyTheseLists, AllTheseLists, CombinationsSoFar, Sets
<1>7. /\ chosen \in [Sets -> SUBSET UNION {[1 .. n -> {"&", "const&", "&&"}] : n \in Nat}]
      /\ CallInv
  BY DEF Init, CallInv, Sets
<1>8. PackInv
  BY DEF Init, PackInv
<1>9. QED  BY <1>3, <1>4, <1>5, <1>6, <1>7, <1>8 DEF OverloadsInv

(* An arity with one overload.                                             *)
LEMMA DeclareOneStep ==
  ASSUME OverloadsInv, DeclareOne
  PROVE  OverloadsInv'
<1> DEFINE form == FormIn(what, arity)
           list == [j \in 1 .. arity |-> ParameterOf(form)]
<1>1. /\ pc = "repeat" /\ pc' = pc /\ arity < range[2] /\ arity' = arity + 1
      /\ interface' = interface /\ what' = what /\ range' = range
      /\ block' = block /\ seq' = seq /\ iterations' = iterations
      /\ callVars' = callVars /\ Declare([j \in 1 .. arity |-> ParameterOf(FormOf(arity))])
      /\ FormOf(arity) \in {"nullary", "forwarding", "const", "mutable"}
  BY DEF DeclareOne, callVars
<1>2. /\ ControlInv /\ ForInv /\ CoveredInv /\ ListsInv /\ CallInv /\ PackInv
      /\ chosen \in [Sets -> SUBSET UNION {[1 .. n -> {"&", "const&", "&&"}] : n \in Nat}]
      /\ what \in Sets /\ interface \in Interfaces
  BY DEF OverloadsInv, ControlInv
<1>3. /\ arity \in Nat
      /\ \A w \in Sets : Passed(w)' = IF w = what THEN Passed(w) \union {arity}
                                      ELSE Passed(w)
  BY <1>1, <1>2, PassedGrows
<1>4. /\ \A w, k : FormIn(w, k)' = FormIn(w, k)
      /\ \A w : RangeOf(w)' = RangeOf(w)
      /\ \A w : ~Expanding(w) /\ ~Expanding(w)'
  BY <1>1, SameInterface DEF Expanding
<1>5. /\ form \in {"nullary", "forwarding", "const", "mutable"}
      /\ Declare(list)
      /\ ListsOf(form, arity) = {list}
  BY <1>1, <1>2, <1>3, FormOfIsFormIn, ListsOfForms
<1>6. ControlInv'
  <2>1. range[2] \in Nat /\ range[1] \in Nat /\ arity' \in range[1] .. range[2]
    BY <1>1, <1>2, RangeFacts DEF ControlInv
  <2>2. QED  BY <1>1, <1>2, <1>4, <2>1 DEF ControlInv, FailsOnlyAtItsLimits
<1>7. ForInv'
  BY <1>1, <1>2 DEF ForInv
<1>8. CoveredInv'
  <2>1. covered' = [covered EXCEPT ![what] = @ \union {arity}]
    BY <1>5 DEF Declare
  <2>2. covered' \in [Sets -> SUBSET Nat]
    BY <1>2, <1>3, <2>1 DEF CoveredInv
  <2>3. ASSUME NEW w \in Sets
        PROVE  covered'[w] = {n \in Passed(w)' : FormIn(w, n) # "none"}
    <3>1. covered[w] = {n \in Passed(w) : FormIn(w, n) # "none"}
      BY <1>2, <1>4 DEF CoveredInv
    <3>2. covered'[w] = IF w = what THEN covered[w] \union {arity} ELSE covered[w]
      BY <1>2, <2>1 DEF CoveredInv
    <3> HIDE DEF list
    <3>3. QED  BY <1>3, <1>5, <3>1, <3>2
  <2>4. QED  BY <1>1, <1>4, <2>2, <2>3 DEF CoveredInv
<1>9. ListsInv'
  <2>1. overloads \in [Sets -> SUBSET UNION {[1 .. n -> {"&", "const&", "&&"}] : n \in Nat}]
    BY <1>2 DEF ListsInv
  <2>2. list \in UNION {[1 .. n -> {"&", "const&", "&&"}] : n \in Nat}
    BY <1>3, <1>5, ListsOfForms
  <2>3. overloads' = IF arity <= MaxCallArity
                     THEN [overloads EXCEPT ![what] = @ \union {list}] ELSE overloads
    BY <1>5 DEF Declare
  <2> HIDE DEF list, form
  <2>4. overloads' \in [Sets -> SUBSET UNION {[1 .. n -> {"&", "const&", "&&"}] : n \in Nat}]
    BY <1>2, <2>1, <2>2, <2>3
  <2>5. \A w \in Sets : overloads'[w] = IF w = what /\ arity <= MaxCallArity
                                        THEN overloads[w] \union {list} ELSE overloads[w]
    BY <2>1, <2>3
  <2>6. OnlyTheseLists'
    <3>1. ASSUME NEW w \in Sets, NEW p \in overloads'[w]
          PROVE  \E n \in Nat : /\ n \in Passed(w)'
                                /\ n <= MaxCallArity
                                /\ p \in ListsOf(FormIn(w, n), n)
      <4>1. CASE p \in overloads[w]
        <5>1. PICK n \in Nat : /\ n \in Passed(w)
                              /\ n <= MaxCallArity
                              /\ p \in ListsOf(FormIn(w, n), n)
          BY <1>2, <1>4, <4>1 DEF ListsInv, OnlyTheseLists
        <5>2. QED  BY <1>3, <5>1
      <4>2. CASE p \notin overloads[w]
        <5>1. w = what /\ arity <= MaxCallArity /\ p = list
          BY <2>5, <3>1, <4>2
        <5>2. QED  BY <1>3, <1>5, <5>1 DEF form
      <4>3. QED  BY <4>1, <4>2
    <3>2. QED  BY <1>4, <3>1 DEF OnlyTheseLists
  <2>7. AllTheseLists'
    <3>1. ASSUME NEW w \in Sets, NEW n \in Passed(w)'
          PROVE  /\ FormIn(w, n) # "ill_formed"
                 /\ n <= MaxCallArity => ListsOf(FormIn(w, n), n) \subseteq overloads'[w]
      <4>1. CASE n \in Passed(w)
        <5>1. /\ FormIn(w, n) # "ill_formed"
              /\ n <= MaxCallArity => ListsOf(FormIn(w, n), n) \subseteq overloads[w]
          BY <1>2, <4>1 DEF ListsInv, AllTheseLists
        <5>2. QED  BY <2>5, <5>1
      <4>2. CASE n \notin Passed(w)
        <5>1. w = what /\ n = arity
          BY <1>3, <3>1, <4>2
        <5>2. QED  BY <1>5, <2>5, <5>1 DEF form
      <4>3. QED  BY <4>1, <4>2
    <3>2. QED  BY <1>4, <3>1 DEF AllTheseLists
  <2>8. QED  BY <1>1, <2>4, <2>6, <2>7 DEF ListsInv, CombinationsSoFar
<1>10. /\ CallInv' /\ PackInv'
       /\ chosen' \in [Sets -> SUBSET UNION {[1 .. n -> {"&", "const&", "&&"}] : n \in Nat}]
  BY <1>1, <1>2, NoCallYet
<1>11. QED  BY <1>6, <1>7, <1>8, <1>9, <1>10 DEF OverloadsInv

(* An arity without any.                                                   *)
LEMMA DeclareNoneStep ==
  ASSUME OverloadsInv, DeclareNone
  PROVE  OverloadsInv'
<1>1. /\ pc = "repeat" /\ pc' = pc /\ arity < range[2] /\ arity' = arity + 1
      /\ interface' = interface /\ what' = what /\ range' = range
      /\ block' = block /\ seq' = seq /\ iterations' = iterations
      /\ covered' = covered /\ overloads' = overloads
      /\ callVars' = callVars /\ FormOf(arity) = "none"
  BY DEF DeclareNone, callVars
<1>2. /\ ControlInv /\ ForInv /\ CoveredInv /\ ListsInv /\ CallInv /\ PackInv
      /\ chosen \in [Sets -> SUBSET UNION {[1 .. n -> {"&", "const&", "&&"}] : n \in Nat}]
      /\ what \in Sets /\ interface \in Interfaces
  BY DEF OverloadsInv, ControlInv
<1>3. /\ arity \in Nat
      /\ \A w \in Sets : Passed(w)' = IF w = what THEN Passed(w) \union {arity}
                                      ELSE Passed(w)
  BY <1>1, <1>2, PassedGrows
<1>4. /\ \A w, k : FormIn(w, k)' = FormIn(w, k)
      /\ \A w : RangeOf(w)' = RangeOf(w)
      /\ \A w : ~Expanding(w) /\ ~Expanding(w)'
  BY <1>1, SameInterface DEF Expanding
<1>5. FormIn(what, arity) = "none" /\ ListsOf("none", arity) = {}
  BY <1>1, <1>2, <1>3, FormOfIsFormIn, ListsOfForms
<1>6. ControlInv'
  <2>1. range[2] \in Nat /\ range[1] \in Nat /\ arity' \in range[1] .. range[2]
    BY <1>1, <1>2, RangeFacts DEF ControlInv
  <2>2. QED  BY <1>1, <1>2, <1>4, <2>1 DEF ControlInv, FailsOnlyAtItsLimits
<1>7. ForInv'
  BY <1>1, <1>2 DEF ForInv
<1>8. CoveredInv'
  <2>1. ASSUME NEW w \in Sets
        PROVE  covered[w] = {n \in Passed(w)' : FormIn(w, n) # "none"}
    <3>1. covered[w] = {n \in Passed(w) : FormIn(w, n) # "none"}
      BY <1>2, <1>4 DEF CoveredInv
    <3>2. QED  BY <1>3, <1>5, <3>1
  <2>2. QED  BY <1>1, <1>2, <1>4, <2>1 DEF CoveredInv
<1>9. ListsInv'
  <2>1. OnlyTheseLists'
    <3>1. ASSUME NEW w \in Sets, NEW p \in overloads[w]
          PROVE  \E n \in Nat : /\ n \in Passed(w)'
                                /\ n <= MaxCallArity
                                /\ p \in ListsOf(FormIn(w, n), n)
      BY <1>2, <1>3, <1>4 DEF ListsInv, OnlyTheseLists
    <3>2. QED  BY <1>1, <1>4, <3>1 DEF OnlyTheseLists
  <2>2. AllTheseLists'
    <3>1. ASSUME NEW w \in Sets, NEW n \in Passed(w)'
          PROVE  /\ FormIn(w, n) # "ill_formed"
                 /\ n <= MaxCallArity => ListsOf(FormIn(w, n), n) \subseteq overloads[w]
      <4>1. n \in Passed(w) \/ (w = what /\ n = arity)
        BY <1>3, <3>1
      <4>2. QED  BY <1>2, <1>5, <4>1 DEF ListsInv, AllTheseLists
    <3>2. QED  BY <1>1, <1>4, <3>1 DEF AllTheseLists
  <2>3. QED  BY <1>1, <1>2, <2>1, <2>2 DEF ListsInv, CombinationsSoFar
<1>10. /\ CallInv' /\ PackInv'
       /\ chosen' \in [Sets -> SUBSET UNION {[1 .. n -> {"&", "const&", "&&"}] : n \in Nat}]
  BY <1>1, <1>2, NoCallYet
<1>11. QED  BY <1>6, <1>7, <1>8, <1>9, <1>10 DEF OverloadsInv

(* The first BOOST_PP_FOR of an arity starts.                              *)
LEMMA EnterBinarySeqStep ==
  ASSUME OverloadsInv, EnterBinarySeq
  PROVE  OverloadsInv'
<1>1. /\ pc = "repeat" /\ pc' = "for" /\ arity < range[2] /\ arity' = arity
      /\ interface' = interface /\ what' = what /\ range' = range
      /\ block' = 1 /\ seq' = ForStart(arity, 1) /\ iterations' = 0 /\ emitted' = 0
      /\ covered' = covered /\ overloads' = overloads
      /\ callVars' = callVars /\ FormOf(arity) = "binary" /\ arity <= 14
  BY DEF EnterBinarySeq, callVars, MaxBinaryArity
<1>2.  /\ ControlInv /\ ForInv /\ CoveredInv /\ ListsInv /\ CallInv /\ PackInv
      /\ chosen \in [Sets -> SUBSET UNION {[1 .. n -> {"&", "const&", "&&"}] : n \in Nat}]
      /\ what \in Sets /\ interface \in Interfaces
  BY DEF OverloadsInv, ControlInv
<1>3. \A w : Passed(w)' = Passed(w)
  BY <1>1, PassedStays
<1>4. /\ \A w, k : FormIn(w, k)' = FormIn(w, k)
      /\ \A w : RangeOf(w)' = RangeOf(w)
      /\ \A w : ~Expanding(w)
  BY <1>1, SameInterface DEF Expanding
<1>5. arity \in Nat /\ range[2] \in Nat
  BY <1>2, RangeFacts DEF ControlInv
<1>6. FormIn(what, arity) = "binary" /\ arity \in 1 .. 14 /\ arity \in 0 .. 14
  BY <1>1, <1>2, <1>5, FormOfIsFormIn, FormKinds
<1>7. ControlInv'
  BY <1>1, <1>2, <1>4 DEF ControlInv, FailsOnlyAtItsLimits
<1>8. ForInv'
  <2>1. Blocks(arity) \in 1 .. 128 /\ 1 \in 1 .. Blocks(arity)
    BY <1>6, BlockSizes
  <2>2. /\ Shaped(arity, seq')
        /\ BitsValue(HighDigits(arity, Tail(seq'))) = 1 - 1
        /\ BitsValue(LowDigits(arity, Tail(seq'))) = 0
    BY <1>1, <1>6, <2>1, StartOfBlock
  <2>3. InBlock'
    BY <1>1, <2>2 DEF InBlock
  <2>4. block' \in 1 .. Blocks(arity) + 1 /\ block' <= Blocks(arity)
    BY <1>1, <2>1
  <2>5. QED  BY <1>1, <1>4, <1>6, <2>3, <2>4 DEF ForInv
<1>9. CoveredInv'
  <2>1. \A w : ~(Expanding(w)' /\ emitted' > 0)
    BY <1>1
  <2>2. QED  BY <1>1, <1>2, <1>3, <1>4, <2>1 DEF CoveredInv
<1>10. ListsInv'
  <2>1. OnlyTheseLists'
    BY <1>1, <1>2, <1>3, <1>4 DEF ListsInv, OnlyTheseLists
  <2>2. AllTheseLists'
    BY <1>1, <1>2, <1>3, <1>4 DEF ListsInv, AllTheseLists
  <2>3. CombinationsSoFar'
    <3>1. \A x \in Bits(arity) : ~(Place(arity, x) < emitted')
      BY <1>1, <1>6, PlaceIsBounded
    <3>2. QED  BY <1>1, <3>1 DEF CombinationsSoFar
  <2>4. QED  BY <1>1, <1>2, <2>1, <2>2, <2>3 DEF ListsInv
<1>11. /\ CallInv' /\ PackInv'
       /\ chosen' \in [Sets -> SUBSET UNION {[1 .. n -> {"&", "const&", "&&"}] : n \in Nat}]
  BY <1>1, <1>2, NoCallYet
<1>12. QED  BY <1>7, <1>8, <1>9, <1>10, <1>11 DEF OverloadsInv

(* BOOST_PP_FOR never comes to its limit.                                  *)
LEMMA ForHasNoLimit ==
  ASSUME OverloadsInv, pc = "for", block <= Blocks(arity), FOR_EACH_PRED(arity + 1, seq)
  PROVE  /\ arity \in 0 .. 14 /\ block \in 1 .. Blocks(arity)
         /\ Shaped(arity, seq)
         /\ BitsValue(HighDigits(arity, Tail(seq))) = block - 1
         /\ BitsValue(LowDigits(arity, Tail(seq))) = iterations
         /\ iterations \in 0 .. PowerOfTwo(FreeDigits(arity)) - 1
         /\ iterations < PPForLimit
<1>1. /\ arity \in 1 .. 14 /\ block \in 1 .. Blocks(arity) + 1 /\ InBlock
  BY DEF OverloadsInv, ForInv
<1>2. arity \in 0 .. 14 /\ arity \in Nat /\ Blocks(arity) \in 1 .. 128
  BY <1>1, BlockSizes
<1>3. ~Shaped(arity + 1, seq)
  BY <1>2 DEF Shaped, FOR_EACH_PRED
<1>4. /\ Shaped(arity, seq)
      /\ BitsValue(HighDigits(arity, Tail(seq))) = block - 1
      /\ BitsValue(LowDigits(arity, Tail(seq))) = iterations
  BY <1>1, <1>3 DEF InBlock
<1>5. Tail(seq) \in Bits(arity)
  BY <1>2, <1>4, DigitsOfState
<1>6. iterations \in 0 .. PowerOfTwo(FreeDigits(arity)) - 1
  BY <1>2, <1>4, <1>5, PlaceParts
<1>7. iterations < PPForLimit
  <2>1. PowerOfTwo(FreeDigits(arity)) \in 1 .. 128
    BY <1>2, BlockSizes
  <2>2. QED  BY <1>6, <2>1, PPForLimitAssumption, SMTT(30) DEF PPForLimitAssumption
<1>8. QED  BY <1>1, <1>2, <1>4, <1>6, <1>7

(* An expansion that fails does so for one of its two reasons.             *)
LEMMA FailExpansionStep ==
  ASSUME OverloadsInv, FailExpansion
  PROVE  OverloadsInv'
<1>1. /\ Stuck /\ pc' = "hard_error" /\ declVars' = declVars /\ callVars' = callVars
      /\ interface' = interface /\ what' = what /\ range' = range /\ arity' = arity
  BY DEF FailExpansion, declVars, callVars
<1>2.  /\ ControlInv /\ ForInv /\ CoveredInv /\ ListsInv /\ CallInv /\ PackInv
      /\ chosen \in [Sets -> SUBSET UNION {[1 .. n -> {"&", "const&", "&&"}] : n \in Nat}]
      /\ what \in Sets /\ interface \in Interfaces
  BY DEF OverloadsInv, ControlInv
<1>3. pc = "repeat"
  <2>1. SUFFICES ASSUME pc # "repeat"
                 PROVE  FALSE
    OBVIOUS
  <2>2. /\ pc = "for" /\ block <= Blocks(arity) /\ FOR_EACH_PRED(arity + 1, seq)
        /\ iterations = PPForLimit
    BY <1>1, <2>1 DEF Stuck, Blocks
  <2>3. iterations < PPForLimit /\ PPForLimit \in Nat
    BY <2>2, ForHasNoLimit, PPForLimitAssumption DEF PPForLimitAssumption
  <2>4. QED  BY <2>2, <2>3
<1>4. ForInv' /\ CoveredInv' /\ ListsInv'
  BY <1>1, <1>2, <1>3, DeclarationsStay
<1>5. /\ CallInv' /\ PackInv'
      /\ chosen' \in [Sets -> SUBSET UNION {[1 .. n -> {"&", "const&", "&&"}] : n \in Nat}]
  BY <1>1, <1>2, <1>3, NoCallYet
<1>6. ControlInv'
  <2>1. arity \in Nat
    BY <1>2, RangeFacts DEF ControlInv
  <2>2. FormIn(what, arity) = "ill_formed" \/ (FormIn(what, arity) = "binary" /\ arity > 14)
    BY <1>1, <1>2, <1>3, <2>1, FormOfIsFormIn DEF Stuck, MaxBinaryArity
  <2>3. /\ ~perfect
        /\ (interface.kind = "fun" /\ arity = 0 /\ threshold = 0) \/ arity > 14
    BY <1>2, <2>1, <2>2, FormKinds
  <2>4. /\ perfect' = perfect /\ threshold' = threshold
        /\ \A w : RangeOf(w)' = RangeOf(w)
    BY <1>1, SameInterface
  <2>5. FailsOnlyAtItsLimits'
    BY <1>1, <2>3, <2>4 DEF FailsOnlyAtItsLimits, MaxBinaryArity
  <2>6. QED  BY <1>1, <1>2, <2>4, <2>5 DEF ControlInv
<1>7. QED  BY <1>4, <1>5, <1>6 DEF OverloadsInv

(* One iteration: the overload at the place that is next.                  *)
LEMMA ExpandForStep ==
  ASSUME OverloadsInv, ExpandFor
  PROVE  OverloadsInv'
<1> DEFINE bits == Tail(seq)
           list == BINARY_SEQ_TO_ARGS(bits)
<1>1. /\ pc = "for" /\ pc' = pc /\ arity' = arity
      /\ interface' = interface /\ what' = what /\ range' = range /\ block' = block
      /\ block <= Blocks(arity) /\ FOR_EACH_PRED(arity + 1, seq)
      /\ seq' = ForNext(arity, seq)
      /\ iterations' = iterations + 1 /\ emitted' = emitted + 1
      /\ Declare(list) /\ callVars' = callVars
  BY DEF ExpandFor, callVars, Blocks
<1>2.  /\ ControlInv /\ ForInv /\ CoveredInv /\ ListsInv /\ CallInv /\ PackInv
      /\ chosen \in [Sets -> SUBSET UNION {[1 .. n -> {"&", "const&", "&&"}] : n \in Nat}]
      /\ what \in Sets /\ interface \in Interfaces
  BY DEF OverloadsInv, ControlInv
<1>3. /\ \A w : Passed(w)' = Passed(w)
      /\ \A w : Expanding(w)' = Expanding(w) /\ (Expanding(w) <=> w = what)
  BY <1>1, PassedStays DEF Expanding
<1>4. /\ \A w, k : FormIn(w, k)' = FormIn(w, k)
      /\ \A w : RangeOf(w)' = RangeOf(w)
  BY <1>1, SameInterface
<1>5. /\ arity \in 0 .. 14 /\ block \in 1 .. Blocks(arity)
      /\ Shaped(arity, seq)
      /\ BitsValue(HighDigits(arity, bits)) = block - 1
      /\ BitsValue(LowDigits(arity, bits)) = iterations
      /\ iterations \in 0 .. PowerOfTwo(FreeDigits(arity)) - 1
  BY <1>1, ForHasNoLimit
<1>6. /\ arity \in 1 .. 14 /\ arity < range[2] /\ FormIn(what, arity) = "binary"
      /\ block \in 1 .. Blocks(arity) + 1 /\ InBlock
  BY <1>1, <1>2 DEF ForInv
<1>7. /\ Blocks(arity) \in 1 .. 128 /\ PowerOfTwo(FreeDigits(arity)) \in 1 .. 128
      /\ emitted = 128 * (block - 1) + iterations /\ emitted \in Nat
      /\ arity \in Nat
  BY <1>5, <1>6, BlockSizes DEF InBlock
<1>8. bits \in Bits(arity) /\ Place(arity, bits) = emitted
  BY <1>5, <1>7, DigitsOfState DEF Place
<1> HIDE DEF bits, list
<1>9. ControlInv'
  BY <1>1, <1>2, <1>4 DEF ControlInv, FailsOnlyAtItsLimits
<1>10. ForInv'
  <2>1. emitted' = 128 * (block - 1) + iterations' /\ 1 <= block
    BY <1>1, <1>5, <1>7
  <2>2. CASE iterations = PowerOfTwo(FreeDigits(arity)) - 1
    <3>1. Shaped(arity + 1, seq')
      BY <1>1, <1>5, <2>2, NextOfBlock DEF bits
    <3>2. iterations' = PowerOfTwo(FreeDigits(arity))
      BY <1>1, <1>7, <2>2
    <3>3. InBlock'
      BY <1>1, <2>1, <3>1, <3>2 DEF InBlock
    <3>4. QED  BY <1>1, <1>4, <1>6, <3>3 DEF ForInv
  <2>3. CASE iterations # PowerOfTwo(FreeDigits(arity)) - 1
    <3>1. /\ Shaped(arity, seq')
          /\ HighDigits(arity, Tail(seq')) = HighDigits(arity, bits)
          /\ BitsValue(LowDigits(arity, Tail(seq'))) = iterations + 1
      BY <1>1, <1>5, <2>3, NextOfBlock DEF bits
    <3>2. InBlock'
      BY <1>1, <1>5, <2>1, <3>1 DEF InBlock
    <3>3. QED  BY <1>1, <1>4, <1>6, <3>2 DEF ForInv
  <2>4. QED  BY <2>2, <2>3
<1>11. CoveredInv'
  <2>1. covered' = [covered EXCEPT ![what] = @ \union {arity}]
    BY <1>1 DEF Declare
  <2>2. covered' \in [Sets -> SUBSET Nat]
    BY <1>2, <1>7, <2>1 DEF CoveredInv
  <2>3. emitted' > 0
    BY <1>1, <1>7
  <2>4. ASSUME NEW w \in Sets
        PROVE  covered'[w] = {n \in Passed(w) : FormIn(w, n) # "none"}
                             \union (IF w = what THEN {arity} ELSE {})
    <3>1. covered[w] = {n \in Passed(w) : FormIn(w, n) # "none"}
                       \union (IF w = what /\ emitted > 0 THEN {arity} ELSE {})
      BY <1>2, <1>3 DEF CoveredInv
    <3>2. covered'[w] = IF w = what THEN covered[w] \union {arity} ELSE covered[w]
      BY <1>2, <2>1 DEF CoveredInv
    <3>3. CASE w = what
      BY <3>1, <3>2, <3>3
    <3>4. CASE w # what
      BY <3>1, <3>2, <3>4
    <3>5. QED  BY <3>3, <3>4
  <2>5. QED  BY <1>1, <1>3, <1>4, <2>2, <2>3, <2>4 DEF CoveredInv
<1>12. ListsInv'
  <2>1. overloads \in [Sets -> SUBSET UNION {[1 .. n -> {"&", "const&", "&&"}] : n \in Nat}]
    BY <1>2 DEF ListsInv
  <2>2. list \in [1 .. arity -> {"&", "const&"}]
    BY <1>7, <1>8, SpelledLists DEF list
  <2>3. list \in ListsOf("binary", arity)
    BY <2>2, <1>7, ListsOfForms
  <2>4. list \in UNION {[1 .. n -> {"&", "const&", "&&"}] : n \in Nat}
    BY <1>7, <2>3, ListsOfForms
  <2>5. overloads' = IF arity <= MaxCallArity
                     THEN [overloads EXCEPT ![what] = @ \union {list}] ELSE overloads
    BY <1>1 DEF Declare
  <2>6. overloads' \in [Sets -> SUBSET UNION {[1 .. n -> {"&", "const&", "&&"}] : n \in Nat}]
    BY <1>2, <2>1, <2>4, <2>5
  <2>7. \A w \in Sets : overloads'[w] = IF w = what /\ arity <= MaxCallArity
                                        THEN overloads[w] \union {list} ELSE overloads[w]
    BY <2>1, <2>5
  <2>8. OnlyTheseLists'
    <3>1. ASSUME NEW w \in Sets, NEW p \in overloads'[w]
          PROVE  \E n \in Nat : /\ n \in Passed(w) \/ (Expanding(w) /\ n = arity)
                                /\ n <= MaxCallArity
                                /\ p \in ListsOf(FormIn(w, n), n)
      <4>1. CASE p \in overloads[w]
        BY <1>2, <4>1 DEF ListsInv, OnlyTheseLists
      <4>2. CASE p \notin overloads[w]
        <5>1. w = what /\ arity <= MaxCallArity /\ p = list
          BY <2>7, <3>1, <4>2
        <5>2. QED  BY <1>3, <1>6, <1>7, <2>3, <5>1
      <4>3. QED  BY <4>1, <4>2
    <3>2. QED  BY <1>1, <1>3, <1>4, <3>1 DEF OnlyTheseLists
  <2>9. AllTheseLists'
    <3>1. ASSUME NEW w \in Sets, NEW n \in Passed(w)
          PROVE  /\ FormIn(w, n) # "ill_formed"
                 /\ n <= MaxCallArity => ListsOf(FormIn(w, n), n) \subseteq overloads'[w]
      <4>1. /\ FormIn(w, n) # "ill_formed"
            /\ n <= MaxCallArity => ListsOf(FormIn(w, n), n) \subseteq overloads[w]
        BY <1>2 DEF ListsInv, AllTheseLists
      <4>2. QED  BY <2>7, <4>1
    <3>2. QED  BY <1>3, <1>4, <3>1 DEF AllTheseLists
  <2>10. CombinationsSoFar'
    <3>1. ASSUME arity <= MaxCallArity, NEW x \in Bits(arity), Place(arity, x) < emitted + 1
          PROVE  BINARY_SEQ_TO_ARGS(x) \in overloads'[what]
      <4>1. Place(arity, x) \in Nat
        BY <1>5, PlaceIsBounded
      <4>2. CASE Place(arity, x) < emitted
        <5>1. BINARY_SEQ_TO_ARGS(x) \in overloads[what]
          BY <1>1, <1>2, <3>1, <4>2 DEF ListsInv, CombinationsSoFar
        <5>2. QED  BY <1>2, <2>7, <5>1
      <4>3. CASE Place(arity, x) = emitted
        <5>1. x = bits
          BY <1>5, <1>8, <4>3, PlaceIsInjective
        <5>2. QED  BY <1>2, <2>7, <3>1, <5>1 DEF list
      <4>4. QED  BY <1>7, <3>1, <4>1, <4>2, <4>3
    <3>2. QED  BY <1>1, <3>1 DEF CombinationsSoFar
  <2>11. QED  BY <2>6, <2>8, <2>9, <2>10 DEF ListsInv
<1>13. /\ CallInv' /\ PackInv'
       /\ chosen' \in [Sets -> SUBSET UNION {[1 .. n -> {"&", "const&", "&&"}] : n \in Nat}]
  BY <1>1, <1>2, NoCallYet
<1>14. QED  BY <1>9, <1>10, <1>11, <1>12, <1>13 DEF OverloadsInv

(* The next BOOST_PP_FOR, or the end of the last: then the places emitted  *)
(* are all of them.                                                        *)
LEMMA NextForStep ==
  ASSUME OverloadsInv, NextFor
  PROVE  OverloadsInv'
<1>1. /\ pc = "for" /\ pc' = pc /\ arity' = arity
      /\ interface' = interface /\ what' = what /\ range' = range
      /\ block <= Blocks(arity) /\ ~FOR_EACH_PRED(arity + 1, seq)
      /\ block' = block + 1 /\ iterations' = 0 /\ emitted' = emitted
      /\ seq' = IF block < Blocks(arity) THEN ForStart(arity, block + 1) ELSE << >>
      /\ covered' = covered /\ overloads' = overloads /\ callVars' = callVars
  BY DEF NextFor, callVars, Blocks
<1>2.  /\ ControlInv /\ ForInv /\ CoveredInv /\ ListsInv /\ CallInv /\ PackInv
      /\ chosen \in [Sets -> SUBSET UNION {[1 .. n -> {"&", "const&", "&&"}] : n \in Nat}]
      /\ what \in Sets /\ interface \in Interfaces
  BY DEF OverloadsInv, ControlInv
<1>3. /\ \A w : Passed(w)' = Passed(w)
      /\ \A w : Expanding(w)' = Expanding(w)
  BY <1>1, PassedStays DEF Expanding
<1>4. /\ \A w, k : FormIn(w, k)' = FormIn(w, k)
      /\ \A w : RangeOf(w)' = RangeOf(w)
  BY <1>1, SameInterface
<1>5. /\ arity \in 1 .. 14 /\ arity < range[2] /\ FormIn(what, arity) = "binary"
      /\ block \in 1 .. Blocks(arity) + 1 /\ InBlock
  BY <1>1, <1>2 DEF ForInv
<1>6. /\ arity \in 0 .. 14
      /\ Blocks(arity) \in 1 .. 128 /\ PowerOfTwo(FreeDigits(arity)) \in 1 .. 128
      /\ 128 * (Blocks(arity) - 1) + PowerOfTwo(FreeDigits(arity)) = PowerOfTwo(arity)
      /\ Blocks(arity) > 1 => PowerOfTwo(FreeDigits(arity)) = 128
  BY <1>5, BlockSizes
<1>7. emitted = 128 * (block - 1) + PowerOfTwo(FreeDigits(arity))
  <2>1. ~Shaped(arity, seq)
    BY <1>1, <1>5 DEF Shaped, FOR_EACH_PRED
  <2>2. QED  BY <1>5, <2>1 DEF InBlock
<1>8. ForInv'
  <2>1. CASE block < Blocks(arity)
    <3>1. /\ block' \in 1 .. Blocks(arity) /\ block' <= Blocks(arity)
          /\ seq' = ForStart(arity, block') /\ block' \in 1 .. Blocks(arity) + 1
      BY <1>1, <1>5, <1>6, <2>1
    <3>2. /\ Shaped(arity, seq')
          /\ BitsValue(HighDigits(arity, Tail(seq'))) = block' - 1
          /\ BitsValue(LowDigits(arity, Tail(seq'))) = 0
      BY <1>6, <3>1, StartOfBlock
    <3>3. emitted = 128 * (block' - 1) + 0 /\ 1 <= block'
      <4>1. PowerOfTwo(FreeDigits(arity)) = 128
        BY <1>5, <1>6, <2>1
      <4>2. emitted = 128 * (block - 1) + 128 /\ block \in Nat /\ 1 <= block
        BY <1>5, <1>7, <4>1
      <4>3. QED  BY <1>1, <4>2
    <3>4. InBlock'
      BY <1>1, <3>2, <3>3 DEF InBlock
    <3>5. QED  BY <1>1, <1>4, <1>5, <3>1, <3>4 DEF ForInv
  <2>2. CASE block = Blocks(arity)
    <3>1. /\ block' \in 1 .. Blocks(arity) + 1 /\ ~(block' <= Blocks(arity))
          /\ seq' = << >> /\ emitted' = PowerOfTwo(arity)
      <4>1. emitted = PowerOfTwo(arity)
        BY <1>6, <1>7, <2>2
      <4>2. QED  BY <1>1, <1>5, <1>6, <2>2, <4>1
    <3>2. QED  BY <1>1, <1>4, <1>5, <3>1 DEF ForInv
  <2>3. block \in Int /\ Blocks(arity) \in Int
    BY <1>5, <1>6
  <2>4. block < Blocks(arity) \/ block = Blocks(arity)
    BY <1>1, <2>3
  <2>5. QED  BY <2>1, <2>2, <2>4
<1>9. ControlInv'
  BY <1>1, <1>2, <1>4 DEF ControlInv, FailsOnlyAtItsLimits
<1>10. CoveredInv'
  BY <1>1, <1>2, <1>3, <1>4 DEF CoveredInv
<1>11. ListsInv'
  BY <1>1, <1>2, <1>3, <1>4 DEF ListsInv, OnlyTheseLists, AllTheseLists, CombinationsSoFar
<1>12. /\ CallInv' /\ PackInv'
       /\ chosen' \in [Sets -> SUBSET UNION {[1 .. n -> {"&", "const&", "&&"}] : n \in Nat}]
  BY <1>1, <1>2, NoCallYet
<1>13. QED  BY <1>8, <1>9, <1>10, <1>11, <1>12 DEF OverloadsInv

(* The arity is passed: its combinations are all declared.                 *)
LEMMA LeaveBinarySeqStep ==
  ASSUME OverloadsInv, LeaveBinarySeq
  PROVE  OverloadsInv'
<1>1. /\ pc = "for" /\ pc' = "repeat" /\ arity' = arity + 1
      /\ interface' = interface /\ what' = what /\ range' = range
      /\ block > Blocks(arity)
      /\ block' = block /\ iterations' = iterations /\ seq' = seq
      /\ covered' = covered /\ overloads' = overloads /\ callVars' = callVars
  BY DEF LeaveBinarySeq, callVars, Blocks
<1>2.  /\ ControlInv /\ ForInv /\ CoveredInv /\ ListsInv /\ CallInv /\ PackInv
      /\ chosen \in [Sets -> SUBSET UNION {[1 .. n -> {"&", "const&", "&&"}] : n \in Nat}]
      /\ what \in Sets /\ interface \in Interfaces
  BY DEF OverloadsInv, ControlInv
<1>3. /\ arity \in 1 .. 14 /\ arity \in 0 .. 14
      /\ arity < range[2] /\ FormIn(what, arity) = "binary"
      /\ block \in 1 .. Blocks(arity) + 1
      /\ Blocks(arity) \in 1 .. 128
  <2>1. /\ arity \in 1 .. 14 /\ arity < range[2] /\ FormIn(what, arity) = "binary"
        /\ block \in 1 .. Blocks(arity) + 1
    BY <1>1, <1>2 DEF ForInv
  <2>2. arity \in 0 .. 14
    BY <2>1
  <2>3. QED  BY <2>1, <2>2, BlockSizes
<1>4. emitted = PowerOfTwo(arity) /\ seq = << >> /\ iterations = 0
  <2>1. ~(block <= Blocks(arity))
    BY <1>1, <1>3
  <2>2. QED  BY <1>1, <1>2, <2>1 DEF ForInv
<1>5. /\ arity \in Nat
      /\ \A w \in Sets : Passed(w)' = IF w = what THEN Passed(w) \union {arity}
                                      ELSE Passed(w)
  BY <1>1, <1>2, <1>3, PassedGrows
<1>6. /\ \A w, k : FormIn(w, k)' = FormIn(w, k)
      /\ \A w : RangeOf(w)' = RangeOf(w)
      /\ \A w : ~Expanding(w)' /\ (Expanding(w) <=> w = what)
  BY <1>1, SameInterface DEF Expanding
<1>7. ControlInv'
  <2>1. range[2] \in Nat /\ range[1] \in Nat /\ arity \in range[1] .. range[2]
    BY <1>2, RangeFacts DEF ControlInv
  <2>2. arity' \in range'[1] .. range'[2]
    BY <1>1, <1>3, <2>1
  <2>3. QED  BY <1>1, <1>2, <1>6, <2>2 DEF ControlInv, FailsOnlyAtItsLimits
<1>8. ForInv'
  <2>1. block \in 0 .. 129
    BY <1>3
  <2>2. QED  BY <1>1, <1>4, <2>1 DEF ForInv
<1>9. CoveredInv'
  <2>1. emitted > 0
    BY <1>3, <1>4, PowersAreNat
  <2>2. ASSUME NEW w \in Sets
        PROVE  covered[w] = {n \in Passed(w)' : FormIn(w, n) # "none"}
    <3>1. covered[w] = {n \in Passed(w) : FormIn(w, n) # "none"}
                       \union (IF w = what THEN {arity} ELSE {})
      BY <1>2, <1>6, <2>1 DEF CoveredInv
    <3>2. CASE w = what
      BY <1>3, <1>5, <3>1, <3>2
    <3>3. CASE w # what
      BY <1>5, <3>1, <3>3
    <3>4. QED  BY <3>2, <3>3
  <2>3. QED  BY <1>1, <1>2, <1>6, <2>2 DEF CoveredInv
<1>10. ListsInv'
  <2>1. OnlyTheseLists'
    <3>1. ASSUME NEW w \in Sets, NEW p \in overloads[w]
          PROVE  \E n \in Nat : /\ n \in Passed(w)'
                                /\ n <= MaxCallArity
                                /\ p \in ListsOf(FormIn(w, n), n)
      <4>1. PICK n \in Nat : /\ n \in Passed(w) \/ (Expanding(w) /\ n = arity)
                            /\ n <= MaxCallArity
                            /\ p \in ListsOf(FormIn(w, n), n)
        BY <1>2 DEF ListsInv, OnlyTheseLists
      <4>2. n \in Passed(w)'
        BY <1>5, <1>6, <4>1
      <4>3. QED  BY <4>1, <4>2
    <3>2. QED  BY <1>1, <1>6, <3>1 DEF OnlyTheseLists
  <2>2. AllTheseLists'
    <3>1. ASSUME NEW w \in Sets, NEW n \in Passed(w)'
          PROVE  /\ FormIn(w, n) # "ill_formed"
                 /\ n <= MaxCallArity => ListsOf(FormIn(w, n), n) \subseteq overloads[w]
      <4>1. CASE n \in Passed(w)
        BY <1>2, <4>1 DEF ListsInv, AllTheseLists
      <4>2. CASE n \notin Passed(w)
        <5>1. w = what /\ n = arity
          BY <1>5, <3>1, <4>2
        <5>2. ASSUME arity <= MaxCallArity, NEW p \in ListsOf("binary", arity)
              PROVE  p \in overloads[what]
          <6>1. p \in [1 .. arity -> {"&", "const&"}]
            BY <1>5, <5>2, ListsOfForms
          <6>2. PICK x \in Bits(arity) : p = BINARY_SEQ_TO_ARGS(x)
            BY <1>5, <6>1, EveryListIsSpelled
          <6>3. Place(arity, x) < emitted
            <7>1. Place(arity, x) \in 0 .. PowerOfTwo(arity) - 1
              BY <1>3, PlaceIsBounded
            <7>2. PowerOfTwo(arity) \in Nat
              BY <1>3, PowersAreNat
            <7>3. QED  BY <1>4, <7>1, <7>2
          <6>4. QED  BY <1>1, <1>2, <5>2, <6>2, <6>3 DEF ListsInv, CombinationsSoFar
        <5>3. QED  BY <1>3, <5>1, <5>2
      <4>3. QED  BY <4>1, <4>2
    <3>2. QED  BY <1>1, <1>6, <3>1 DEF AllTheseLists
  <2>3. QED  BY <1>1, <1>2, <2>1, <2>2 DEF ListsInv, CombinationsSoFar
<1>11. /\ CallInv' /\ PackInv'
       /\ chosen' \in [Sets -> SUBSET UNION {[1 .. n -> {"&", "const&", "&&"}] : n \in Nat}]
  BY <1>1, <1>2, NoCallYet
<1>12. QED  BY <1>7, <1>8, <1>9, <1>10, <1>11 DEF OverloadsInv

(* From operator() to the macro.                                           *)
LEMMA BeginMacroStep ==
  ASSUME OverloadsInv, BeginMacro
  PROVE  OverloadsInv'
<1>1. /\ pc = "repeat" /\ pc' = pc /\ what = "operator" /\ what' = "macro"
      /\ arity >= range[2] /\ interface' = interface
      /\ range' = MacroRange /\ arity' = MacroRange[1]
      /\ block' = block /\ iterations' = iterations /\ seq' = seq
      /\ covered' = covered /\ overloads' = overloads /\ callVars' = callVars
  BY DEF BeginMacro, callVars, MacroRange
<1>2.  /\ ControlInv /\ ForInv /\ CoveredInv /\ ListsInv /\ CallInv /\ PackInv
      /\ chosen \in [Sets -> SUBSET UNION {[1 .. n -> {"&", "const&", "&&"}] : n \in Nat}]
      /\ what \in Sets /\ interface \in Interfaces
  BY DEF OverloadsInv, ControlInv
<1>3. /\ \A w, k : FormIn(w, k)' = FormIn(w, k)
      /\ \A w : RangeOf(w)' = RangeOf(w)
      /\ maxArity' = maxArity /\ maxArity \in Nat
      /\ \A w : ~Expanding(w)' /\ ~Expanding(w)
  BY <1>1, <1>2, SameInterface, InterfaceFacts DEF Expanding
<1>4. /\ RangeOf("macro") = MacroRange
      /\ MacroRange[1] \in Nat /\ MacroRange[2] \in Nat /\ MacroRange[1] < MacroRange[2]
      /\ range[1] = 0 /\ range[2] = maxArity + 1 /\ arity \in range[1] .. range[2]
  BY <1>1, <1>2, RangeFacts DEF ControlInv, Sets
<1>5. \A w \in Sets : Passed(w)' = Passed(w)
  <2>1. Passed("operator") = 0 .. (arity - 1) /\ arity - 1 = maxArity
    BY <1>1, <1>3, <1>4 DEF Passed
  <2>2. Passed("macro") = {}
    BY <1>1 DEF Passed
  <2>3. Passed("operator")' = 0 .. maxArity
    BY <1>1, <1>3 DEF Passed
  <2>4. Passed("macro")' = MacroRange[1] .. (MacroRange[1] - 1)
    BY <1>1 DEF Passed
  <2>5. MacroRange[1] .. (MacroRange[1] - 1) = {}
    BY <1>4
  <2>6. QED  BY <2>1, <2>2, <2>3, <2>4, <2>5 DEF Sets
<1>6. ControlInv'
  <2>1. arity' \in range'[1] .. range'[2]
    BY <1>1, <1>4
  <2>2. QED  BY <1>1, <1>2, <1>3, <1>4, <2>1 DEF ControlInv, FailsOnlyAtItsLimits, Sets
<1>7. ForInv'
  BY <1>1, <1>2 DEF ForInv
<1>8. CoveredInv'
  BY <1>1, <1>2, <1>3, <1>5 DEF CoveredInv
<1>9. ListsInv'
  BY <1>1, <1>2, <1>3, <1>5 DEF ListsInv, OnlyTheseLists, AllTheseLists, CombinationsSoFar
<1>10. /\ CallInv' /\ PackInv'
       /\ chosen' \in [Sets -> SUBSET UNION {[1 .. n -> {"&", "const&", "&&"}] : n \in Nat}]
  BY <1>1, <1>2, NoCallYet
<1>11. QED  BY <1>6, <1>7, <1>8, <1>9, <1>10 DEF OverloadsInv

(* The interface is finished.                                              *)
LEMMA EndMacroStep ==
  ASSUME OverloadsInv, EndMacro
  PROVE  OverloadsInv'
<1>1. /\ pc = "repeat" /\ pc' = "declared" /\ what = "macro" /\ arity >= range[2]
      /\ declVars' = declVars /\ callVars' = callVars
      /\ interface' = interface /\ what' = what /\ range' = range /\ arity' = arity
  BY DEF EndMacro, declVars, callVars
<1>2.  /\ ControlInv /\ ForInv /\ CoveredInv /\ ListsInv /\ CallInv /\ PackInv
      /\ chosen \in [Sets -> SUBSET UNION {[1 .. n -> {"&", "const&", "&&"}] : n \in Nat}]
      /\ what \in Sets /\ interface \in Interfaces
  BY DEF OverloadsInv, ControlInv
<1>3. ForInv' /\ CoveredInv' /\ ListsInv'
  BY <1>1, <1>2, DeclarationsStay
<1>4. /\ CallInv' /\ PackInv'
      /\ chosen' \in [Sets -> SUBSET UNION {[1 .. n -> {"&", "const&", "&&"}] : n \in Nat}]
  BY <1>1, <1>2, NoCallYet
<1>5. ControlInv'
  <2>1. arity = range[2]
    BY <1>1, <1>2, RangeFacts DEF ControlInv
  <2>2. \A w : RangeOf(w)' = RangeOf(w)
    BY <1>1, SameInterface
  <2>3. QED  BY <1>1, <1>2, <2>1, <2>2 DEF ControlInv, FailsOnlyAtItsLimits
<1>6. QED  BY <1>3, <1>4, <1>5 DEF OverloadsInv

-----------------------------------------------------------------------------
(* The call.                                                               *)

(* Of a set that is finished with an arity, the overloads of that arity    *)
(* are the lists its form stands for.                                      *)
LEMMA OverloadsOfArity ==
  ASSUME ListsInv, pc # "for", NEW w \in Sets, NEW n \in Nat, n \in Passed(w),
         n <= MaxCallArity
  PROVE  /\ FormIn(w, n) # "ill_formed"
         /\ ListsOf(FormIn(w, n), n) \subseteq overloads[w]
         /\ \A p \in overloads[w] : Len(p) = n => p \in ListsOf(FormIn(w, n), n)
<1>1. /\ FormIn(w, n) # "ill_formed"
      /\ ListsOf(FormIn(w, n), n) \subseteq overloads[w]
  BY DEF ListsInv, AllTheseLists
<1>2. ASSUME NEW p \in overloads[w], Len(p) = n
      PROVE  p \in ListsOf(FormIn(w, n), n)
  <2>1. PICK m \in Nat : p \in ListsOf(FormIn(w, m), m)
    BY DEF ListsInv, OnlyTheseLists
  <2>2. Len(p) = m
    BY <2>1, ListsOfForms
  <2>3. QED  BY <1>2, <2>1, <2>2
<1>3. QED  BY <1>1, <1>2

(* All arguments bind to parameters of one kind.                           *)
BindsAll(param, cats) == \A j \in DOMAIN cats : Binds(param, cats[j])

(* What overload resolution finds, by the form of the arity.               *)
LEMMA Resolution ==
  ASSUME ListsInv, interface \in Interfaces, pc # "for", NEW w \in Sets,
         NEW n \in Nat, n \in Passed(w), n <= MaxCallArity,
         NEW cats \in [1 .. n -> Categories]
  PROVE  /\ FormIn(w, n) = "binary" =>
              /\ Best(overloads[w], cats) = {ByMutability(cats)}
              /\ ByMutability(cats) \in overloads[w]
         /\ (FormIn(w, n) \in {"nullary", "forwarding", "const", "mutable"}
               /\ BindsAll(ParameterOf(FormIn(w, n)), cats))
              => /\ Best(overloads[w], cats) = {[j \in 1 .. n |-> ParameterOf(FormIn(w, n))]}
                 /\ [j \in 1 .. n |-> ParameterOf(FormIn(w, n))] \in overloads[w]
         /\ FormIn(w, n) = "none" => Best(overloads[w], cats) = {}
<1> DEFINE form == FormIn(w, n)
<1>1. /\ ListsOf(form, n) \subseteq overloads[w]
      /\ \A p \in overloads[w] : Len(p) = n => p \in ListsOf(form, n)
  BY OverloadsOfArity
<1>2. /\ Len(cats) = n /\ DOMAIN cats = 1 .. n
  BY CategoryLists
<1> HIDE DEF form
<1>3. ASSUME form = "binary"
      PROVE  /\ Best(overloads[w], cats) = {ByMutability(cats)}
             /\ ByMutability(cats) \in overloads[w]
  <2>1. ListsOf(form, n) = [1 .. n -> {"&", "const&"}]
    BY <1>3, ListsOfForms
  <2>2. Best(overloads[w], cats) = {ByMutability(cats)}
    BY <1>1, <2>1, BestOfCombinations
  <2>3. QED  BY <2>2 DEF Best, Viable
<1>4. ASSUME form \in {"nullary", "forwarding", "const", "mutable"},
             BindsAll(ParameterOf(form), cats)
      PROVE  /\ Best(overloads[w], cats) = {[j \in 1 .. n |-> ParameterOf(form)]}
             /\ [j \in 1 .. n |-> ParameterOf(form)] \in overloads[w]
  <2> DEFINE only == [j \in 1 .. n |-> ParameterOf(form)]
  <2>1. /\ ListsOf(form, n) = {only}
        /\ \A j \in 1 .. n : only[j] = ParameterOf(form)
    BY <1>4, ListsOfForms
  <2>2. Len(only) = n
    OBVIOUS
  <2> HIDE DEF only
  <2>3. only \in overloads[w] /\ \A p \in overloads[w] : Len(p) = n => p = only
    BY <1>1, <2>1
  <2>4. \A j \in 1 .. n : Binds(only[j], cats[j])
    BY <1>2, <1>4, <2>1 DEF BindsAll
  <2>5. Best(overloads[w], cats) = {only}
    BY <2>2, <2>3, <2>4, BestOfOne
  <2>6. QED  BY <2>3, <2>5 DEF only
<1>5. ASSUME form = "none"
      PROVE  Best(overloads[w], cats) = {}
  <2>1. ListsOf(form, n) = {}
    BY <1>5, ListsOfForms
  <2>2. Viable(overloads[w], cats) = {}
    BY <1>1, <1>2, <2>1 DEF Viable
  <2>3. QED  BY <2>2 DEF Best
<1>6. form \in {"nullary", "forwarding", "const", "mutable"} /\ BindsAll(ParameterOf(form), cats)
        => /\ Best(overloads[w], cats) = {[j \in 1 .. n |-> ParameterOf(form)]}
           /\ [j \in 1 .. n |-> ParameterOf(form)] \in overloads[w]
  BY <1>4, Zenon
<1>7. form = "binary" => /\ Best(overloads[w], cats) = {ByMutability(cats)}
                         /\ ByMutability(cats) \in overloads[w]
  BY <1>3, Zenon
<1>8. form = "none" => Best(overloads[w], cats) = {}
  BY <1>5, Zenon
<1>9. QED  BY <1>6, <1>7, <1>8 DEF form

(* The forwarding function a call takes: && if there is perfect forwarding,*)
(* but const& in the no-spec macros; else the one that tells the mutable   *)
(* arguments from the others, or, not with BOOST_PARAMETER_FUNCTION, one   *)
(* that takes all of them by const&.                                       *)
CalleeOf(q, cats) ==
  /\ perfect =>
       \/ \A j \in DOMAIN cats : q[j] = "&&"
       \/ /\ interface.kind = "no_spec"
          /\ \A j \in DOMAIN cats : q[j] = "const&"
  /\ ~perfect =>
       \/ \A j \in DOMAIN cats : q[j] = IF cats[j] = "mutable" THEN "&" ELSE "const&"
       \/ /\ interface.kind # "function"
          /\ \A j \in DOMAIN cats : q[j] = "const&"

(* The forms of a macro's arities, with and without perfect forwarding.    *)
LEMMA MacroForms ==
  ASSUME interface \in Interfaces, NEW n \in Nat
  PROVE  /\ perfect => \/ FormIn("macro", n) \in {"nullary", "forwarding"}
                       \/ interface.kind = "no_spec" /\ FormIn("macro", n) = "const"
         /\ ~perfect => FormIn("macro", n) \in {"nullary", "binary", "const", "ill_formed"}
         /\ ~perfect /\ interface.kind = "function" =>
              FormIn("macro", n) \in {"nullary", "binary"}
         /\ FormIn("macro", n) = "nullary" => n = 0
<1>1. interface.kind \in {"function", "fun", "no_spec"} /\ perfect \in BOOLEAN
      /\ threshold \in Nat
  BY InterfaceFacts
<1>2. CASE interface.kind = "function"
  BY <1>1, <1>2 DEF FormIn, MacroForm, ForwardForm
<1>3. CASE interface.kind = "fun"
  BY <1>1, <1>3 DEF FormIn, MacroForm, FunForm
<1>4. CASE interface.kind = "no_spec"
  BY <1>1, <1>4 DEF FormIn, MacroForm, NoSpecForm
<1>5. QED  BY <1>1, <1>2, <1>3, <1>4

(* Overload resolution finds one forwarding function, and it is that.      *)
LEMMA ChosenMacro ==
  ASSUME ListsInv, interface \in Interfaces, pc # "for",
         NEW n \in Nat, n \in Passed("macro"), n <= MaxCallArity,
         NEW cats \in [1 .. n -> Categories]
  PROVE  \E q \in overloads.macro : /\ Best(overloads.macro, cats) = {q}
                                    /\ CalleeOf(q, cats)
<1> DEFINE form == FormIn("macro", n)
<1>1. form # "ill_formed"
  BY OverloadsOfArity DEF Sets
<1>2. /\ DOMAIN cats = 1 .. n
      /\ \A j \in 1 .. n : cats[j] \in {"mutable", "const", "rvalue"}
  BY CategoryLists
<1>3. /\ perfect => \/ form \in {"nullary", "forwarding"}
                    \/ interface.kind = "no_spec" /\ form = "const"
      /\ ~perfect => form \in {"nullary", "binary", "const"}
      /\ ~perfect /\ interface.kind = "function" => form \in {"nullary", "binary"}
      /\ form = "nullary" => n = 0
  BY <1>1, MacroForms
<1>4. /\ form = "binary" =>
              /\ Best(overloads["macro"], cats) = {ByMutability(cats)}
              /\ ByMutability(cats) \in overloads["macro"]
      /\ (form \in {"nullary", "forwarding", "const", "mutable"}
            /\ BindsAll(ParameterOf(form), cats))
           => /\ Best(overloads["macro"], cats) = {[j \in 1 .. n |-> ParameterOf(form)]}
              /\ [j \in 1 .. n |-> ParameterOf(form)] \in overloads["macro"]
  BY Resolution DEF Sets
<1> HIDE DEF form
<1>5. CASE form = "binary"
  <2>1. ~perfect
    BY <1>3, <1>5
  <2>2. \A j \in DOMAIN cats : ByMutability(cats)[j] =
                                 IF cats[j] = "mutable" THEN "&" ELSE "const&"
    BY DEF ByMutability
  <2>3. CalleeOf(ByMutability(cats), cats)
    BY <2>1, <2>2 DEF CalleeOf
  <2>4. QED  BY <1>4, <1>5, <2>3
<1>6. CASE form # "binary"
  <2> DEFINE q == [j \in 1 .. n |-> ParameterOf(form)]
  <2>1. /\ form \in {"nullary", "forwarding", "const"}
        /\ form = "forwarding" => perfect
        /\ form = "const" => IF perfect THEN interface.kind = "no_spec"
                                        ELSE interface.kind # "function"
    BY <1>3, <1>6
  <2>2. /\ form = "forwarding" => ParameterOf(form) = "&&"
        /\ form = "const" => ParameterOf(form) = "const&"
    BY DEF ParameterOf
  <2>3. BindsAll(ParameterOf(form), cats)
    BY <1>2, <1>3, <2>1, <2>2 DEF Binds, BindsAll
  <2>4. \A j \in DOMAIN cats : q[j] = ParameterOf(form)
    BY <1>2
  <2>5. /\ Best(overloads["macro"], cats) = {q} /\ q \in overloads["macro"]
    BY <1>4, <2>1, <2>3
  <2> HIDE DEF q
  <2>6. CalleeOf(q, cats)
    <3>1. CASE form = "nullary"
      <4>1. DOMAIN cats = {}
        BY <1>2, <1>3, <3>1
      <4>2. QED  BY <4>1 DEF CalleeOf
    <3>2. CASE form = "forwarding"
      BY <2>1, <2>2, <2>4, <3>2 DEF CalleeOf
    <3>3. CASE form = "const"
      BY <2>1, <2>2, <2>4, <3>3 DEF CalleeOf
    <3>4. QED  BY <2>1, <3>1, <3>2, <3>3
  <2>7. QED  BY <2>5, <2>6
<1>7. QED  BY <1>5, <1>6

(* operator() takes what the forwarding function passes on, and keeps its  *)
(* mutable arguments mutable, unless its largest arity is missing.         *)
LEMMA OperatorAnswers ==
  ASSUME ListsInv, interface \in Interfaces, pc # "for", what = "macro",
         NEW n \in 0 .. maxArity, n <= MaxCallArity,
         NEW cats \in [1 .. n -> Categories],
         ~perfect => \A j \in DOMAIN cats : cats[j] # "rvalue"
  PROVE  \/ \E q \in overloads.operator :
              /\ Best(overloads.operator, cats) = {q}
              /\ \A j \in DOMAIN cats : cats[j] = "mutable" => q[j] # "const&"
         \/ /\ Best(overloads.operator, cats) = {}
            /\ ~perfect /\ threshold = maxArity /\ n = maxArity
<1> DEFINE form == FormIn("operator", n)
<1>1. /\ n \in Nat /\ n \in Passed("operator") /\ "operator" \in Sets
      /\ maxArity \in Nat /\ threshold \in Nat /\ n <= maxArity
  BY InterfaceFacts DEF Passed, Sets
<1>2. DOMAIN cats = 1 .. n
  BY <1>1, CategoryLists
<1>3. /\ form \in {"nullary", "forwarding", "binary", "mutable", "none"}
      /\ form = "nullary" => n = 0
      /\ form = "forwarding" => perfect
      /\ form = "mutable" => ~perfect
      /\ form = "none" => ~perfect /\ n >= threshold /\ ~(threshold < maxArity)
  <2>1. perfect \in BOOLEAN
    BY InterfaceFacts
  <2>2. form = OperatorForm(n)
    BY DEF FormIn
  <2>3. QED  BY <1>1, <2>1, <2>2 DEF OperatorForm
<1>4. /\ form = "binary" =>
              /\ Best(overloads["operator"], cats) = {ByMutability(cats)}
              /\ ByMutability(cats) \in overloads["operator"]
      /\ (form \in {"nullary", "forwarding", "const", "mutable"}
            /\ BindsAll(ParameterOf(form), cats))
           => /\ Best(overloads["operator"], cats) = {[j \in 1 .. n |-> ParameterOf(form)]}
              /\ [j \in 1 .. n |-> ParameterOf(form)] \in overloads["operator"]
      /\ form = "none" => Best(overloads["operator"], cats) = {}
  BY <1>1, Resolution
<1> HIDE DEF form
<1>5. CASE form = "binary"
  <2>1. \A j \in DOMAIN cats : cats[j] = "mutable" => ByMutability(cats)[j] # "const&"
    BY DEF ByMutability
  <2>2. QED  BY <1>4, <1>5, <2>1
<1>6. CASE form = "none"
  BY <1>1, <1>3, <1>4, <1>6
<1>7. CASE form \in {"nullary", "forwarding", "mutable"}
  <2> DEFINE q == [j \in 1 .. n |-> ParameterOf(form)]
  <2>1. /\ form = "forwarding" => ParameterOf(form) = "&&"
        /\ form \in {"nullary", "mutable"} => ParameterOf(form) = "&"
    BY DEF ParameterOf
  <2>2. BindsAll(ParameterOf(form), cats)
    <3>1. form = "nullary" => DOMAIN cats = {}
      BY <1>2, <1>3
    <3>2. QED  BY <1>3, <1>7, <2>1, <3>1 DEF BindsAll, Binds
  <2>3. \A j \in DOMAIN cats : q[j] # "const&"
    BY <1>2, <1>7, <2>1
  <2>4. Best(overloads["operator"], cats) = {q} /\ q \in overloads["operator"]
    BY <1>4, <1>7, <2>2
  <2> HIDE DEF q
  <2>5. QED  BY <2>3, <2>4
<1>8. QED  BY <1>3, <1>5, <1>6, <1>7

(* What the chosen function passes on: as many arguments, without perfect  *)
(* forwarding no rvalue, and with BOOST_PARAMETER_FUNCTION the mutable ones*)
(* as such.                                                                *)
LEMMA ForwardedFacts ==
  ASSUME interface \in Interfaces, NEW n \in Nat, args \in [1 .. n -> Categories],
         NEW q, chosen.macro = {q}, CalleeOf(q, args)
  PROVE  /\ ForwardedArgs \in [1 .. n -> Categories]
         /\ ~perfect => \A j \in DOMAIN ForwardedArgs : ForwardedArgs[j] # "rvalue"
         /\ interface.kind = "function" =>
              \A j \in 1 .. n : args[j] = "mutable" => ForwardedArgs[j] = "mutable"
<1>1. perfect \in BOOLEAN
  BY InterfaceFacts
<1>2. (CHOOSE p \in chosen.macro : TRUE) = q
  OBVIOUS
<1>3. /\ DOMAIN args = 1 .. n
      /\ \A j \in 1 .. n : args[j] \in {"mutable", "const", "rvalue"}
  BY CategoryLists
<1>4. ForwardedArgs = [j \in 1 .. n |-> Forwarded(q[j], args[j])]
  BY <1>2, <1>3 DEF ForwardedArgs
<1>5. ASSUME NEW j \in 1 .. n
      PROVE  /\ Forwarded(q[j], args[j]) \in {"mutable", "const", "rvalue"}
             /\ ~perfect => Forwarded(q[j], args[j]) # "rvalue"
             /\ interface.kind = "function" /\ args[j] = "mutable" =>
                  Forwarded(q[j], args[j]) = "mutable"
  <2>1. args[j] \in {"mutable", "const", "rvalue"}
    BY <1>3
  <2>2. /\ perfect => q[j] = "&&" \/ (interface.kind = "no_spec" /\ q[j] = "const&")
        /\ ~perfect => q[j] \in {"&", "const&"}
        /\ ~perfect /\ q[j] = "&" => args[j] = "mutable"
        /\ ~perfect /\ interface.kind = "function" /\ args[j] = "mutable" => q[j] = "&"
    BY <1>3 DEF CalleeOf
  <2>3. CASE perfect
    BY <2>1, <2>2, <2>3 DEF Forwarded
  <2>4. CASE ~perfect
    BY <2>1, <2>2, <2>4 DEF Forwarded
  <2>5. QED  BY <2>3, <2>4
<1>6. QED  BY <1>4, <1>5 DEF Categories

(* Where a call is, the macro is finished and its arities are passed.      *)
LEMMA CallFacts ==
  ASSUME OverloadsInv, pc \in {"declared", "call", "compose", "build", "bound", "not_callable"}
  PROVE  /\ interface \in Interfaces /\ what = "macro" /\ "macro" \in Sets
         /\ range = RangeOf("macro") /\ arity = range[2]
         /\ range[1] \in Nat /\ range[2] \in Nat
         /\ Passed("macro") = range[1] .. (range[2] - 1)
         /\ MaxCallArity \in Nat /\ MaxCallArity <= COMPOSE_MAX_ARITY
         /\ interface.kind # "no_spec" => range[2] <= maxArity + 1
<1>1. /\ interface \in Interfaces /\ what = "macro" /\ "macro" \in Sets
      /\ range = RangeOf("macro") /\ arity = range[2]
  BY DEF OverloadsInv, ControlInv, Sets
<1>2. /\ range[1] \in Nat /\ range[2] \in Nat
      /\ interface.kind # "no_spec" => range[2] <= maxArity + 1
  BY <1>1, RangeFacts
<1>3. Passed("macro") = range[1] .. (range[2] - 1)
  BY <1>1 DEF Passed
<1>4. COMPOSE_MAX_ARITY \in Nat /\ MaxCallArity \in 0 .. COMPOSE_MAX_ARITY
  BY InterfacesAssumption, BoundsAssumption DEF InterfacesAssumption, BoundsAssumption
<1>5. QED  BY <1>1, <1>2, <1>3, <1>4

(* A call, from its arguments to the macro's function.                     *)
LEMMA CallStep ==
  ASSUME OverloadsInv, Call
  PROVE  OverloadsInv'
<1>1. /\ pc = "declared" /\ declVars' = declVars /\ inits' = inits /\ nodes' = nodes
      /\ interface' = interface /\ what' = what /\ range' = range /\ arity' = arity
      /\ overloads' = overloads
      /\ pc' = IF chosen'.macro = {} THEN "not_callable"
               ELSE IF interface.kind = "no_spec" THEN "compose" ELSE "call"
  BY DEF Call, declVars
<1>2. /\ ControlInv /\ ForInv /\ CoveredInv /\ ListsInv /\ CallInv /\ PackInv
      /\ chosen \in [Sets -> SUBSET UNION {[1 .. n -> {"&", "const&", "&&"}] : n \in Nat}]
      /\ overloads \in [Sets -> SUBSET UNION {[1 .. n -> {"&", "const&", "&&"}] : n \in Nat}]
      /\ what \in Sets /\ interface \in Interfaces
  BY DEF OverloadsInv, ControlInv, ListsInv
<1>3. /\ what = "macro" /\ "macro" \in Sets
      /\ range[1] \in Nat /\ range[2] \in Nat
      /\ Passed("macro") = range[1] .. (range[2] - 1)
      /\ MaxCallArity \in Nat
  BY <1>1, CallFacts
<1>4. PICK n \in 0 .. MaxCallArity :
        /\ range[1] <= n /\ n < range[2]
        /\ args' \in [1 .. n -> Categories]
        /\ chosen' = [chosen EXCEPT !.macro = Best(overloads.macro, args')]
  BY DEF Call
<1>5. /\ n \in Nat /\ n <= MaxCallArity /\ n \in Passed("macro")
      /\ Len(args') = n
  <2>1. n \in Nat
    BY <1>3, <1>4
  <2>2. Len(args') = n
    BY <1>4, <2>1, CategoryLists
  <2>3. QED  BY <1>3, <1>4, <2>1, <2>2
<1>6. PICK q \in overloads.macro : Best(overloads.macro, args') = {q}
  BY <1>1, <1>2, <1>4, <1>5, ChosenMacro
<1>7. /\ args = << >> /\ chosen = [operator |-> {}, macro |-> {}]
  BY <1>1, <1>2 DEF CallInv
<1>8. chosen' = [operator |-> {}, macro |-> {q}]
  BY <1>4, <1>6, <1>7
<1>9. pc' = IF interface.kind = "no_spec" THEN "compose" ELSE "call"
  BY <1>1, <1>8
<1>10. ForInv' /\ CoveredInv' /\ ListsInv'
  BY <1>1, <1>2, <1>9, DeclarationsStay
<1>11. ControlInv'
  <2>1. arity = range[2]
    BY <1>1, CallFacts
  <2>2. \A w : RangeOf(w)' = RangeOf(w)
    BY <1>1, SameInterface
  <2>3. QED  BY <1>1, <1>2, <1>3, <1>9, <2>1, <2>2 DEF ControlInv, FailsOnlyAtItsLimits
<1>12. chosen' \in [Sets -> SUBSET UNION {[1 .. m -> {"&", "const&", "&&"}] : m \in Nat}]
  <2>1. q \in UNION {[1 .. m -> {"&", "const&", "&&"}] : m \in Nat}
    BY <1>2, <1>3, <1>6
  <2>2. QED  BY <1>8, <2>1 DEF Sets
<1>13. CallInv'
  <2>1. Len(args') \in range[1] .. range[2] - 1
    BY <1>3, <1>4, <1>5
  <2>2. pc' \in {"call", "compose"} /\ (pc' = "compose" <=> interface.kind = "no_spec")
    BY <1>9
  <2>3. CallsAreForwarded'
    BY <2>2 DEF CallsAreForwarded
  <2>4. QED  BY <1>1, <1>4, <1>5, <1>6, <1>8, <2>1, <2>2, <2>3 DEF CallInv
<1>14. PackInv'
  <2>1. nodes = << >>
    <3>1. Len(nodes) <= 0 /\ nodes \in Seq(Nat)
      BY <1>2, <1>7 DEF PackInv
    <3>2. QED  BY <3>1
  <2>2. pc' \in {"call", "compose"} /\ Len(args') \in Nat
    BY <1>5, <1>9
  <2>3. QED  BY <1>1, <2>1, <2>2 DEF PackInv
<1>15. QED  BY <1>10, <1>11, <1>12, <1>13, <1>14 DEF OverloadsInv

(* The call of operator().                                                 *)
LEMMA CallOperatorStep ==
  ASSUME OverloadsInv, CallOperator
  PROVE  OverloadsInv'
<1>1. /\ pc = "call" /\ declVars' = declVars /\ args' = args /\ nodes' = nodes
      /\ interface' = interface /\ what' = what /\ range' = range /\ arity' = arity
      /\ overloads' = overloads
      /\ chosen' = [chosen EXCEPT !.operator = Best(overloads.operator, ForwardedArgs)]
      /\ pc' = IF chosen'.operator = {} THEN "not_callable"
               ELSE IF (perfect \/ args = << >>) THEN "bound" ELSE "build"
      /\ inits' = IF pc' = "build" THEN ArgPackInit(Len(args)) ELSE inits
  BY DEF CallOperator, declVars
<1>2. /\ ControlInv /\ ForInv /\ CoveredInv /\ ListsInv /\ CallInv /\ PackInv
      /\ chosen \in [Sets -> SUBSET UNION {[1 .. n -> {"&", "const&", "&&"}] : n \in Nat}]
      /\ overloads \in [Sets -> SUBSET UNION {[1 .. n -> {"&", "const&", "&&"}] : n \in Nat}]
      /\ what \in Sets /\ interface \in Interfaces
  BY DEF OverloadsInv, ControlInv, ListsInv
<1>3. /\ what = "macro" /\ "macro" \in Sets
      /\ range[1] \in Nat /\ range[2] \in Nat
      /\ Passed("macro") = range[1] .. (range[2] - 1)
      /\ MaxCallArity \in Nat /\ MaxCallArity <= COMPOSE_MAX_ARITY
      /\ interface.kind # "no_spec" => range[2] <= maxArity + 1
  BY <1>1, CallFacts
<1>4. /\ Len(args) \in range[1] .. range[2] - 1
      /\ Len(args) <= MaxCallArity
      /\ args \in [1 .. Len(args) -> Categories]
      /\ chosen.macro = Best(overloads.macro, args)
      /\ interface.kind # "no_spec" /\ chosen.operator = {}
  BY <1>1, <1>2 DEF CallInv
<1>5. /\ Len(args) \in Nat /\ Len(args) \in Passed("macro") /\ Len(args) \in 0 .. maxArity
      /\ maxArity \in Nat
  <2>1. maxArity \in Nat
    BY <1>2, InterfaceFacts
  <2>2. QED  BY <1>3, <1>4, <2>1
<1>6. PICK q \in overloads.macro : chosen.macro = {q} /\ CalleeOf(q, args)
  BY <1>1, <1>2, <1>4, <1>5, ChosenMacro
<1>7. /\ ForwardedArgs \in [1 .. Len(args) -> Categories]
      /\ ~perfect => \A j \in DOMAIN ForwardedArgs : ForwardedArgs[j] # "rvalue"
  BY <1>2, <1>4, <1>5, <1>6, ForwardedFacts
<1>8. \/ \E p \in overloads.operator : Best(overloads.operator, ForwardedArgs) = {p}
      \/ /\ Best(overloads.operator, ForwardedArgs) = {}
         /\ ~perfect /\ threshold = maxArity /\ Len(args) = maxArity
  BY <1>1, <1>2, <1>3, <1>4, <1>5, <1>7, OperatorAnswers
<1>9. /\ "operator" \in Sets /\ chosen'.macro = chosen.macro
      /\ chosen'.operator = Best(overloads.operator, ForwardedArgs)
  BY <1>1, <1>2 DEF Sets
<1>10. ForInv' /\ CoveredInv' /\ ListsInv'
  BY <1>1, <1>2, DeclarationsStay
<1>11. ControlInv'
  <2>1. arity = range[2]
    BY <1>1, CallFacts
  <2>2. \A w : RangeOf(w)' = RangeOf(w)
    BY <1>1, SameInterface
  <2>3. QED  BY <1>1, <1>2, <1>3, <2>1, <2>2 DEF ControlInv, FailsOnlyAtItsLimits
<1>12. chosen' \in [Sets -> SUBSET UNION {[1 .. m -> {"&", "const&", "&&"}] : m \in Nat}]
  <2>1. Best(overloads.operator, ForwardedArgs)
          \subseteq UNION {[1 .. m -> {"&", "const&", "&&"}] : m \in Nat}
    BY <1>2, <1>9 DEF Best, Viable
  <2>2. QED  BY <1>1, <1>2, <2>1 DEF Sets
<1>13. CallInv'
  <2>1. pc' \in {"not_callable", "bound", "build"}
    BY <1>1
  <2>2. ForwardedArgs' = ForwardedArgs
    BY <1>1, <1>9 DEF ForwardedArgs
  <2>3. CallsAreForwarded'
    <3>1. pc' = "not_callable" => Best(overloads.operator, ForwardedArgs) = {}
      BY <1>1, <1>9
    <3>2. perfect' = perfect /\ threshold' = threshold /\ maxArity' = maxArity
      BY <1>1, SameInterface
    <3>3. QED  BY <1>1, <1>8, <3>1, <3>2 DEF CallsAreForwarded
  <2>4. chosen'.macro # {}
    BY <1>6, <1>9
  <2>5. QED  BY <1>1, <1>4, <1>9, <2>1, <2>2, <2>3, <2>4 DEF CallInv
<1>14. PackInv'
  <2>1. nodes = << >>
    BY <1>1, <1>2 DEF PackInv
  <2>2. pc' = "build" => inits' = ArgPackInit(Len(args))
    BY <1>1
  <2>3. /\ Len(nodes) = 0 /\ Len(args) - 0 = Len(args)
    BY <1>5, <2>1
  <2>4. pc' = "bound" /\ ~perfect => args = << >>
    BY <1>1
  <2>5. perfect' = perfect
    BY <1>1, SameInterface
  <2>6. ArgPackInit(Len(args)) = [j \in 1 .. COMPOSE_MAX_ARITY |->
                                    IF j <= Len(args) - Len(nodes)
                                    THEN Len(args) - Len(nodes) + 1 - j ELSE 0]
    BY <2>3 DEF ArgPackInit
  <2>7. pc' # "call"
    BY <1>1
  <2>8. QED  BY <1>1, <1>5, <2>1, <2>2, <2>3, <2>4, <2>5, <2>6, <2>7 DEF PackInv
<1>15. QED  BY <1>10, <1>11, <1>12, <1>13, <1>14 DEF OverloadsInv

(* What the construction of the pack leaves alone.                         *)
LEMMA ConstructionKeepsTheCall ==
  ASSUME OverloadsInv, pc = "build", pc' \in {"build", "bound"},
         declVars' = declVars, args' = args, chosen' = chosen
  PROVE  /\ ControlInv' /\ ForInv' /\ CoveredInv' /\ ListsInv' /\ CallInv'
         /\ chosen' \in [Sets -> SUBSET UNION {[1 .. n -> {"&", "const&", "&&"}] : n \in Nat}]
<1>1. /\ interface' = interface /\ what' = what /\ range' = range /\ arity' = arity
      /\ overloads' = overloads
  BY DEF declVars
<1>2. /\ ControlInv /\ ForInv /\ CoveredInv /\ ListsInv /\ CallInv
      /\ chosen \in [Sets -> SUBSET UNION {[1 .. n -> {"&", "const&", "&&"}] : n \in Nat}]
  BY DEF OverloadsInv
<1>3. ForInv' /\ CoveredInv' /\ ListsInv'
  BY <1>2, DeclarationsStay
<1>4. ControlInv'
  <2>1. \A w : RangeOf(w)' = RangeOf(w)
    BY <1>1, SameInterface
  <2>2. QED  BY <1>1, <1>2, <2>1 DEF ControlInv, FailsOnlyAtItsLimits
<1>5. CallInv'
  <2>1. ForwardedArgs' = ForwardedArgs
    BY DEF ForwardedArgs
  <2>2. QED  BY <1>1, <1>2, <2>1 DEF CallInv, CallsAreForwarded
<1>6. QED  BY <1>2, <1>3, <1>4, <1>5

(* A constructor of arg_list.                                              *)
LEMMA ConstructNodeStep ==
  ASSUME OverloadsInv, ConstructNode
  PROVE  OverloadsInv'
<1>1. /\ pc = "build" /\ pc' = pc /\ declVars' = declVars /\ args' = args
      /\ chosen' = chosen /\ Len(nodes) < Len(args)
      /\ nodes' = Append(nodes, Head(inits)) /\ inits' = Append(Tail(inits), 0)
  BY DEF ConstructNode
<1>2. /\ ControlInv' /\ ForInv' /\ CoveredInv' /\ ListsInv' /\ CallInv'
      /\ chosen' \in [Sets -> SUBSET UNION {[1 .. n -> {"&", "const&", "&&"}] : n \in Nat}]
  BY <1>1, ConstructionKeepsTheCall
<1>3. PackInv /\ CallInv
  BY DEF OverloadsInv
<1>4. /\ Len(args) \in Nat /\ Len(args) <= COMPOSE_MAX_ARITY /\ COMPOSE_MAX_ARITY \in Nat
  <2>1. /\ range[1] \in Nat /\ range[2] \in Nat
        /\ MaxCallArity \in Nat /\ MaxCallArity <= COMPOSE_MAX_ARITY
    BY <1>1, CallFacts
  <2>2. Len(args) \in range[1] .. range[2] - 1 /\ Len(args) <= MaxCallArity
    BY <1>1, <1>3 DEF CallInv
  <2>3. COMPOSE_MAX_ARITY \in Nat
    BY InterfacesAssumption DEF InterfacesAssumption
  <2>4. QED  BY <2>1, <2>2, <2>3
<1>5. PICK l, k \in Nat : l = Len(args) /\ k = Len(nodes) /\ k < l
  <2>1. nodes \in Seq(Nat)
    BY <1>3 DEF PackInv
  <2>2. QED  BY <1>1, <1>4, <2>1
<1>6. /\ inits = [j \in 1 .. COMPOSE_MAX_ARITY |-> IF j <= l - k THEN l - k + 1 - j ELSE 0]
      /\ nodes \in Seq(Nat)
      /\ \A m \in 1 .. k : nodes[m] = l + 1 - m
  BY <1>1, <1>3, <1>5 DEF PackInv
<1>7. COMPOSE_MAX_ARITY >= 1 /\ l <= COMPOSE_MAX_ARITY
  BY <1>4, <1>5
<1>8. Head(inits) = l - k /\ Len(inits) = COMPOSE_MAX_ARITY /\ inits \in Seq(Nat)
  <2>1. \A j \in 1 .. COMPOSE_MAX_ARITY : (IF j <= l - k THEN l - k + 1 - j ELSE 0) \in Nat
    BY <1>5
  <2>2. inits \in [1 .. COMPOSE_MAX_ARITY -> Nat]
    BY <1>6, <2>1
  <2>3. inits \in Seq(Nat) /\ Len(inits) = COMPOSE_MAX_ARITY
    BY <1>4, <2>2
  <2>4. inits[1] = l - k
    BY <1>4, <1>5, <1>6, <1>7
  <2>5. QED  BY <1>7, <2>3, <2>4
<1>9. /\ nodes' \in Seq(Nat) /\ Len(nodes') = k + 1
      /\ \A m \in 1 .. k + 1 : nodes'[m] = l + 1 - m
  <2>1. l - k \in Nat
    BY <1>5
  <2>2. nodes' = Append(nodes, l - k)
    BY <1>1, <1>8
  <2>3. /\ nodes' \in Seq(Nat) /\ Len(nodes') = k + 1
        /\ \A m \in 1 .. k : nodes'[m] = nodes[m]
        /\ nodes'[k + 1] = l - k
    BY <1>5, <1>6, <2>1, <2>2
  <2>4. \A m \in 1 .. k + 1 : m \in 1 .. k \/ m = k + 1
    OBVIOUS
  <2>5. QED  BY <1>6, <2>3, <2>4
<1>10. inits' = [j \in 1 .. COMPOSE_MAX_ARITY |->
                   IF j <= l - (k + 1) THEN l - (k + 1) + 1 - j ELSE 0]
  <2> DEFINE shifted == [j \in 1 .. COMPOSE_MAX_ARITY |->
                           IF j <= l - (k + 1) THEN l - (k + 1) + 1 - j ELSE 0]
  <2>1. /\ inits' \in Seq(Nat) /\ Len(inits') = COMPOSE_MAX_ARITY
        /\ \A j \in 1 .. COMPOSE_MAX_ARITY - 1 : inits'[j] = inits[j + 1]
        /\ inits'[COMPOSE_MAX_ARITY] = 0
    <3>1. /\ Tail(inits) \in Seq(Nat) /\ Len(Tail(inits)) = COMPOSE_MAX_ARITY - 1
          /\ \A j \in 1 .. COMPOSE_MAX_ARITY - 1 : Tail(inits)[j] = inits[j + 1]
      BY <1>4, <1>7, <1>8
    <3>2. QED  BY <1>1, <1>4, <1>7, <3>1
  <2>2. shifted \in [1 .. COMPOSE_MAX_ARITY -> Nat]
    BY <1>5
  <2>3. /\ shifted \in Seq(Nat) /\ Len(shifted) = COMPOSE_MAX_ARITY
        /\ \A j \in 1 .. COMPOSE_MAX_ARITY :
             shifted[j] = IF j <= l - (k + 1) THEN l - (k + 1) + 1 - j ELSE 0
    BY <1>4, <2>2
  <2> HIDE DEF shifted
  <2>4. ASSUME NEW j \in 1 .. COMPOSE_MAX_ARITY
        PROVE  inits'[j] = shifted[j]
    <3>1. CASE j = COMPOSE_MAX_ARITY
      BY <1>4, <1>5, <1>7, <2>1, <2>3, <3>1
    <3>2. CASE j < COMPOSE_MAX_ARITY
      <4>1. inits'[j] = inits[j + 1] /\ j + 1 \in 1 .. COMPOSE_MAX_ARITY
        BY <1>4, <2>1, <3>2
      <4>2. inits[j + 1] = IF j + 1 <= l - k THEN l - k + 1 - (j + 1) ELSE 0
        BY <1>6, <4>1
      <4>3. QED  BY <1>5, <2>3, <4>1, <4>2
    <3>3. QED  BY <1>4, <3>1, <3>2
  <2>5. inits' = shifted
    BY <2>1, <2>3, <2>4, SeqEqual
  <2>6. QED  BY <2>5 DEF shifted
<1>11. PackInv'
  <2>1. Len(args') = l /\ k + 1 <= l
    BY <1>1, <1>5
  <2>2. QED  BY <1>1, <1>5, <1>9, <1>10, <2>1 DEF PackInv
<1>12. QED  BY <1>2, <1>11 DEF OverloadsInv

(* The constructor of empty_arg_list: only void_reference() is left.       *)
LEMMA ConstructTerminatorStep ==
  ASSUME OverloadsInv, ConstructTerminator
  PROVE  OverloadsInv'
<1>1. /\ pc = "build" /\ declVars' = declVars
      /\ args' = args /\ chosen' = chosen /\ inits' = inits /\ nodes' = nodes
      /\ Len(nodes) = Len(args)
      /\ pc' = IF \A j \in DOMAIN inits : inits[j] = 0 THEN "bound" ELSE "hard_error"
  BY DEF ConstructTerminator, callVars
<1>2. PackInv /\ CallInv
  BY DEF OverloadsInv
<1>3. \A j \in DOMAIN inits : inits[j] = 0
  <2>1. Len(nodes) \in Nat
    BY <1>2 DEF PackInv
  <2>2. inits = [j \in 1 .. COMPOSE_MAX_ARITY |->
                   IF j <= Len(args) - Len(nodes)
                   THEN Len(args) - Len(nodes) + 1 - j ELSE 0]
    BY <1>1, <1>2 DEF PackInv
  <2>3. Len(args) - Len(nodes) = 0
    BY <1>1, <2>1
  <2>4. QED  BY <2>2, <2>3
<1>4. pc' = "bound"
  BY <1>1, <1>3
<1>5. /\ ControlInv' /\ ForInv' /\ CoveredInv' /\ ListsInv' /\ CallInv'
      /\ chosen' \in [Sets -> SUBSET UNION {[1 .. n -> {"&", "const&", "&&"}] : n \in Nat}]
  BY <1>1, <1>4, ConstructionKeepsTheCall
<1>6. PackInv'
  BY <1>1, <1>2, <1>4 DEF PackInv
<1>7. QED  BY <1>5, <1>6 DEF OverloadsInv

(* Nothing happens.                                                        *)
LEMMA StutterStep ==
  ASSUME OverloadsInv, UNCHANGED vars
  PROVE  OverloadsInv'
<1>1. /\ interface' = interface /\ what' = what /\ range' = range /\ arity' = arity
      /\ block' = block /\ seq' = seq /\ iterations' = iterations /\ emitted' = emitted
      /\ covered' = covered /\ overloads' = overloads /\ pc' = pc
      /\ args' = args /\ chosen' = chosen /\ inits' = inits /\ nodes' = nodes
  BY DEF vars, declVars, callVars
<1>2. /\ \A w : Passed(w)' = Passed(w)
      /\ \A w, k : FormIn(w, k)' = FormIn(w, k)
      /\ \A w : RangeOf(w)' = RangeOf(w)
      /\ perfect' = perfect /\ threshold' = threshold /\ maxArity' = maxArity
  BY <1>1, PassedStays, SameInterface
<1>3. /\ \A w : Expanding(w)' = Expanding(w)
      /\ ForwardedArgs' = ForwardedArgs
  BY <1>1 DEF Expanding, ForwardedArgs
<1>4. ControlInv'
  BY <1>1, <1>2 DEF OverloadsInv, ControlInv, FailsOnlyAtItsLimits
<1>5. ForInv'
  BY <1>1, <1>2 DEF OverloadsInv, ForInv, InBlock
<1>6. CoveredInv'
  BY <1>1, <1>2, <1>3 DEF OverloadsInv, CoveredInv
<1>7. ListsInv'
  BY <1>1, <1>2, <1>3
     DEF OverloadsInv, ListsInv, OnlyTheseLists, AllTheseLists, CombinationsSoFar
<1>8. CallInv'
  BY <1>1, <1>2, <1>3 DEF OverloadsInv, CallInv, CallsAreForwarded
<1>9. PackInv'
  BY <1>1, <1>2 DEF OverloadsInv, PackInv
<1>10. QED  BY <1>1, <1>4, <1>5, <1>6, <1>7, <1>8, <1>9 DEF OverloadsInv

(* The invariant is inductive.                                             *)
LEMMA NextHolds == OverloadsInv /\ [Next]_vars => OverloadsInv'
<1> SUFFICES ASSUME OverloadsInv, [Next]_vars
             PROVE  OverloadsInv'
  OBVIOUS
<1>1. CASE DeclareOne           BY <1>1, DeclareOneStep
<1>2. CASE DeclareNone          BY <1>2, DeclareNoneStep
<1>3. CASE EnterBinarySeq       BY <1>3, EnterBinarySeqStep
<1>4. CASE FailExpansion        BY <1>4, FailExpansionStep
<1>5. CASE ExpandFor            BY <1>5, ExpandForStep
<1>6. CASE NextFor              BY <1>6, NextForStep
<1>7. CASE LeaveBinarySeq       BY <1>7, LeaveBinarySeqStep
<1>8. CASE BeginMacro           BY <1>8, BeginMacroStep
<1>9. CASE EndMacro             BY <1>9, EndMacroStep
<1>10. CASE Call                BY <1>10, CallStep
<1>11. CASE CallOperator        BY <1>11, CallOperatorStep
<1>12. CASE ConstructNode       BY <1>12, ConstructNodeStep
<1>13. CASE ConstructTerminator BY <1>13, ConstructTerminatorStep
<1>14. CASE UNCHANGED vars      BY <1>14, StutterStep
<1>15. QED
  BY <1>1, <1>2, <1>3, <1>4, <1>5, <1>6, <1>7, <1>8, <1>9, <1>10, <1>11, <1>12,
     <1>13, <1>14 DEF Next, Expansion

(* It holds in every state.                                                *)
LEMMA OverloadsInvariant == Spec => []OverloadsInv
BY InitHolds, NextHolds, PTL DEF Spec

-----------------------------------------------------------------------------
(* The properties.                                                         *)

(* In every state of an expansion and of a call the variables have their   *)
(* types; in particular BOOST_PP_FOR stays within its iterations, and      *)
(* overload resolution never finds two best overloads.                     *)
THEOREM OverloadsTypes == Spec => []TypeOK
<1>1. OverloadsInv => TypeOK
  <2> SUFFICES ASSUME OverloadsInv
               PROVE  TypeOK
    OBVIOUS
  <2>1. ControlInv /\ ForInv /\ ListsInv /\ CallInv /\ PackInv
    BY DEF OverloadsInv
  <2>2. /\ interface \in Interfaces /\ what \in {"operator", "macro"}
        /\ pc \in {"repeat", "for", "declared", "call", "compose", "build", "bound",
                   "not_callable", "hard_error"}
    BY <2>1 DEF ControlInv, Sets
  <2>3. arity \in 0 .. range[2]
    BY <2>1, RangeFacts DEF ControlInv
  <2>4. /\ block \in 0 .. 129
        /\ seq # << >> => Head(seq) = Data /\ \A j \in 2 .. Len(seq) : seq[j] \in 0 .. 1
        /\ iterations \in 0 .. PPForLimit
    <3>1. CASE pc # "for"
      BY <2>1, <3>1, PPForLimitAssumption DEF ForInv, PPForLimitAssumption
    <3>2. CASE pc = "for"
      <4>1. /\ arity \in 0 .. 14 /\ arity \in Nat /\ block \in 1 .. Blocks(arity) + 1
            /\ IF block <= Blocks(arity) THEN InBlock ELSE seq = << >> /\ iterations = 0
        BY <2>1, <3>2 DEF ForInv
      <4>2. Blocks(arity) \in 1 .. 128 /\ PowerOfTwo(FreeDigits(arity)) \in 1 .. 128
        BY <4>1, BlockSizes
      <4>3. block \in 0 .. 129 /\ (block > Blocks(arity) <=> ~(block <= Blocks(arity)))
        <5>1. PICK b \in 1 .. 128 : b = Blocks(arity)
          BY <4>2
        <5>2. block \in 1 .. b + 1
          BY <4>1, <5>1
        <5>3. block \in 0 .. 129 /\ (block > b <=> ~(block <= b))
          BY <5>2
        <5>4. QED  BY <5>1, <5>3
      <4>4. CASE block > Blocks(arity)
        <5>1. seq = << >> /\ iterations = 0
          BY <4>1, <4>3, <4>4
        <5>2. QED  BY <4>3, <5>1, PPForLimitAssumption DEF PPForLimitAssumption
      <4>5. CASE block <= Blocks(arity)
        <5>1. PICK n \in {arity, arity + 1} : Shaped(n, seq)
          BY <4>1, <4>5 DEF InBlock
        <5>2. n \in Nat /\ Len(seq) = n + 1
          BY <4>1, <5>1 DEF Shaped
        <5>3. Head(seq) = Data /\ \A j \in 2 .. Len(seq) : seq[j] \in 0 .. 1
          <6>1. Head(seq) = Data
            BY <5>1, <5>2, DigitsOfState
          <6>2. \A j \in 2 .. n + 1 : seq[j] \in {0, 1}
            BY <5>1 DEF Shaped
          <6>3. QED  BY <5>2, <6>1, <6>2
        <5>4. iterations \in 0 .. 128
          <6>1. CASE iterations = PowerOfTwo(FreeDigits(arity))
            BY <4>2, <6>1
          <6>2. CASE /\ Shaped(arity, seq)
                     /\ BitsValue(LowDigits(arity, Tail(seq))) = iterations
            <7>1. Tail(seq) \in Bits(arity)
              BY <4>1, <6>2, DigitsOfState
            <7>2. iterations \in 0 .. PowerOfTwo(FreeDigits(arity)) - 1
              BY <4>1, <6>2, <7>1, PlaceParts
            <7>3. QED  BY <4>2, <7>2
          <6>3. QED  BY <4>1, <4>5, <6>1, <6>2 DEF InBlock
        <5>5. 128 <= PPForLimit /\ PPForLimit \in Nat
          BY PPForLimitAssumption DEF PPForLimitAssumption
        <5>6. iterations \in 0 .. PPForLimit
          BY <5>4, <5>5
        <5>7. QED  BY <4>3, <5>3, <5>6
      <4>6. QED  BY <4>3, <4>4, <4>5
    <3>3. QED  BY <3>1, <3>2
  <2>5. ASSUME NEW w \in Sets
        PROVE  /\ overloads[w] \subseteq ParameterLists
               /\ chosen[w] \subseteq overloads[w]
               /\ Cardinality(chosen[w]) <= 1
    <3>1. ASSUME NEW p \in overloads[w]
          PROVE  /\ p \in ParameterLists
                 /\ \E n \in Nat : p \in [1 .. n -> {"&", "const&", "&&"}]
      <4>1. PICK n \in Nat : /\ n <= MaxCallArity
                            /\ p \in ListsOf(FormIn(w, n), n)
        BY <2>1 DEF ListsInv, OnlyTheseLists
      <4>2. p \in [1 .. n -> {"&", "const&", "&&"}]
        BY <4>1, ListsOfForms
      <4>3. n \in 0 .. MaxCallArity
        BY <4>1, InterfacesAssumption, BoundsAssumption
           DEF InterfacesAssumption, BoundsAssumption
      <4>4. QED  BY <4>2, <4>3 DEF ParameterLists
    <3>2. CASE chosen[w] = {}
      BY <3>1, <3>2, FS_EmptySet
    <3>3. CASE chosen[w] # {}
      <4>1. pc \in {"call", "compose", "build", "bound", "not_callable"}
        BY <2>1, <3>3 DEF CallInv, Sets
      <4>2. /\ Len(args) \in range[1] .. range[2] - 1
            /\ args \in [1 .. Len(args) -> Categories]
            /\ Len(args) <= MaxCallArity
            /\ chosen.macro = Best(overloads.macro, args)
            /\ chosen.operator # {} =>
                 /\ interface.kind # "no_spec"
                 /\ chosen.operator = Best(overloads.operator, ForwardedArgs)
        BY <2>1, <4>1 DEF CallInv
      <4>3. Len(args) \in Nat /\ Len(args) \in Passed("macro") /\ pc # "for"
        BY <4>1, <4>2, CallFacts
      <4>4. PICK q \in overloads.macro : chosen.macro = {q} /\ CalleeOf(q, args)
        BY <2>1, <2>2, <4>2, <4>3, ChosenMacro
      <4>5. ForwardedArgs \in [1 .. Len(args) -> Categories]
        BY <2>2, <4>2, <4>3, <4>4, ForwardedFacts
      <4>6. PICK cats \in [1 .. Len(args) -> Categories] : chosen[w] = Best(overloads[w], cats)
        BY <3>3, <4>2, <4>5 DEF Sets
      <4>7. \A p \in overloads[w] : Len(p) = Len(args) =>
              DOMAIN p = 1 .. Len(args) /\ p = [j \in 1 .. Len(args) |-> p[j]]
        <5>1. TAKE p \in overloads[w]
        <5>2. PICK n \in Nat : p \in [1 .. n -> {"&", "const&", "&&"}]
          BY <3>1
        <5>3. Len(p) = n /\ DOMAIN p = 1 .. n /\ p = [j \in 1 .. n |-> p[j]]
          BY <5>2
        <5>4. QED  BY <5>3
      <4>8. \A p, q2 \in chosen[w] : p = q2
        BY <4>3, <4>6, <4>7, BestIsUnique
      <4>9. PICK p : chosen[w] = {p}
        BY <3>3, <4>8
      <4>10. Cardinality(chosen[w]) = 1
        BY <4>9, FS_Singleton
      <4>11. chosen[w] \subseteq overloads[w]
        BY <4>6 DEF Best, Viable
      <4>12. QED  BY <3>1, <4>10, <4>11
    <3>4. QED  BY <3>2, <3>3
  <2>6. Len(nodes) <= Len(args)
    BY <2>1 DEF PackInv
  <2>7. QED  BY <2>2, <2>3, <2>4, <2>5, <2>6 DEF TypeOK, Sets
<1>2. QED  BY <1>1, OverloadsInvariant, PTL

(* Whatever the number of parameters, the BOOST_PP_FORs of the repetition  *)
(* tables count through all combinations of & and const&, each once.       *)
THEOREM CombinationsAreCounted == Spec => []EveryCombinationOnce
<1>1. OverloadsInv => EveryCombinationOnce
  <2> SUFFICES ASSUME OverloadsInv, pc = "for"
               PROVE  IF block > Blocks(arity)
                      THEN emitted = PowerOfTwo(arity)
                      ELSE FOR_EACH_PRED(arity + 1, seq) =>
                             LET k == FixedDigits(arity)
                             IN  emitted = BitsValue(SubSeq(seq, 2, k + 1)) * PowerOfTwo(arity - k)
                                           + BitsValue(SubSeq(seq, k + 2, Len(seq)))
    BY DEF EveryCombinationOnce, Blocks
  <2>1. /\ arity \in 0 .. 14 /\ block \in 1 .. Blocks(arity) + 1
        /\ IF block <= Blocks(arity) THEN InBlock ELSE emitted = PowerOfTwo(arity)
    BY DEF OverloadsInv, ForInv
  <2>2. /\ Blocks(arity) \in 1 .. 128
        /\ PowerOfTwo(FreeDigits(arity)) \in 1 .. 128
        /\ Blocks(arity) > 1 => PowerOfTwo(FreeDigits(arity)) = 128
    BY <2>1, BlockSizes
  <2>3. CASE block > Blocks(arity)
    <3>1. PICK b \in 1 .. 128 : b = Blocks(arity)
      BY <2>2
    <3>2. ~(block <= b)
      BY <2>1, <2>3, <3>1
    <3>3. emitted = PowerOfTwo(arity)
      BY <2>1, <3>1, <3>2
    <3>4. QED  BY <2>3, <3>3
  <2>4. CASE ~(block > Blocks(arity))
    <3>0. block <= Blocks(arity)
      <4>1. PICK b \in 1 .. 128 : b = Blocks(arity)
        BY <2>2
      <4>2. block \in 1 .. b + 1 /\ ~(block > b)
        BY <2>1, <2>4, <4>1
      <4>3. block <= b
        BY <4>2
      <4>4. QED  BY <4>1, <4>3
    <3> SUFFICES ASSUME FOR_EACH_PRED(arity + 1, seq)
                 PROVE  emitted = BitsValue(SubSeq(seq, 2, FixedDigits(arity) + 1))
                                    * PowerOfTwo(arity - FixedDigits(arity))
                                  + BitsValue(SubSeq(seq, FixedDigits(arity) + 2, Len(seq)))
      BY <2>4
    <3>1. /\ Shaped(arity, seq)
          /\ BitsValue(HighDigits(arity, Tail(seq))) = block - 1
          /\ BitsValue(LowDigits(arity, Tail(seq))) = iterations
          /\ iterations \in 0 .. PowerOfTwo(FreeDigits(arity)) - 1
      BY <3>0, ForHasNoLimit
    <3>2. /\ BitsValue(SubSeq(seq, 2, FixedDigits(arity) + 1)) = block - 1
          /\ BitsValue(SubSeq(seq, FixedDigits(arity) + 2, Len(seq))) = iterations
      BY <2>1, <3>1, PartsOfState
    <3>3. emitted = 128 * (block - 1) + iterations
      BY <2>1, <3>0 DEF InBlock
    <3>4. PowerOfTwo(arity - FixedDigits(arity)) = PowerOfTwo(FreeDigits(arity))
      BY DEF FreeDigits
    <3>5. emitted = (block - 1) * PowerOfTwo(FreeDigits(arity)) + iterations
      <4>1. CASE Blocks(arity) = 1
        <5>1. block = 1
          BY <2>1, <3>0, <4>1
        <5>2. QED  BY <2>2, <3>3, <5>1
      <4>2. CASE Blocks(arity) > 1
        <5>1. PowerOfTwo(FreeDigits(arity)) = 128
          BY <2>2, <4>2
        <5>2. block - 1 \in Int
          BY <2>1
        <5>3. QED  BY <3>3, <5>1, <5>2
      <4>3. QED  BY <2>2, <4>1, <4>2
    <3>6. QED  BY <3>2, <3>4, <3>5
  <2>5. QED  BY <2>3, <2>4
<1>2. QED  BY <1>1, OverloadsInvariant, PTL

(* An expansion fails for no other reason than the two of the macros, and  *)
(* the construction of a pack never does.                                  *)
THEOREM ExpansionsFailAtTheirLimits == Spec => []FailsOnlyAtItsLimits
<1>1. OverloadsInv => FailsOnlyAtItsLimits
  BY DEF OverloadsInv, ControlInv
<1>2. QED  BY <1>1, OverloadsInvariant, PTL

(* A finished interface has an overload for every arity it should have, and*)
(* for no other.                                                           *)
THEOREM AritiesAreDeclared == Spec => []EveryArityDeclared
<1>1. OverloadsInv => EveryArityDeclared
  <2> SUFFICES ASSUME OverloadsInv, pc = "declared"
               PROVE  /\ covered.macro = range[1] .. (range[2] - 1)
                      /\ covered.operator =
                           IF ~perfect /\ threshold = maxArity THEN 0 .. (maxArity - 1)
                                                               ELSE 0 .. maxArity
    BY DEF EveryArityDeclared
  <2>1. /\ interface \in Interfaces /\ what = "macro" /\ "macro" \in Sets
        /\ range[1] \in Nat /\ range[2] \in Nat
        /\ Passed("macro") = range[1] .. (range[2] - 1)
    BY CallFacts
  <2>2. /\ perfect \in BOOLEAN /\ threshold \in Nat /\ maxArity \in Nat /\ 2 <= maxArity
    BY <2>1, InterfaceFacts
  <2>3. Passed("operator") = 0 .. maxArity /\ "operator" \in Sets
    BY <2>1 DEF Passed, Sets
  <2>4. \A w \in Sets : covered[w] = {n \in Passed(w) : FormIn(w, n) # "none"}
    BY DEF OverloadsInv, CoveredInv, Expanding
  <2>5. covered.macro = range[1] .. (range[2] - 1)
    <3>1. \A n \in Passed("macro") : FormIn("macro", n) # "none"
      <4>1. TAKE n \in Passed("macro")
      <4>2. n \in Nat
        BY <2>1
      <4>3. QED  BY <2>1, <2>2, <4>2, MacroForms
    <3>2. QED  BY <2>1, <2>4, <3>1
  <2>6. \A n \in 0 .. maxArity :
          FormIn("operator", n) = "none" <=> ~perfect /\ threshold = maxArity /\ n = maxArity
    <3>1. TAKE n \in 0 .. maxArity
    <3>2. FormIn("operator", n) = OperatorForm(n)
      BY DEF FormIn
    <3>3. OperatorForm(n) = "none"
            <=> n > 0 /\ ~perfect /\ n >= threshold /\ ~(threshold < maxArity)
      BY <2>2 DEF OperatorForm
    <3>4. QED  BY <2>2, <3>2, <3>3
  <2>7. covered["operator"] = {n \in 0 .. maxArity :
                                 ~(~perfect /\ threshold = maxArity /\ n = maxArity)}
    BY <2>3, <2>4, <2>6
  <2>8. CASE ~perfect /\ threshold = maxArity
    <3>1. covered["operator"] = {n \in 0 .. maxArity : n # maxArity}
      BY <2>7, <2>8
    <3>2. {n \in 0 .. maxArity : n # maxArity} = 0 .. (maxArity - 1)
      BY <2>2
    <3>3. QED  BY <2>5, <2>8, <3>1, <3>2
  <2>9. CASE ~(~perfect /\ threshold = maxArity)
    BY <2>5, <2>7, <2>9
  <2>10. QED  BY <2>8, <2>9
<1>2. QED  BY <1>1, OverloadsInvariant, PTL

(* Every call finds its forwarding function, and that one an operator(),   *)
(* unless it is the arity the threshold leaves out.                        *)
THEOREM ForwardingSucceeds == Spec => []CallsAreForwarded
<1>1. OverloadsInv => CallsAreForwarded
  BY DEF OverloadsInv, CallInv, CallsAreForwarded
<1>2. QED  BY <1>1, OverloadsInvariant, PTL

(* Overload resolution keeps mutable and other arguments apart, in the     *)
(* forwarding function and in operator().                                  *)
THEOREM MutabilityIsKept == Spec => []MutabilityReachesThePack
<1>1. OverloadsInv => MutabilityReachesThePack
  <2> SUFFICES ASSUME OverloadsInv, interface.kind = "function",
                      pc \in {"call", "build", "bound"},
                      NEW w \in Sets, NEW p \in chosen[w], NEW j \in DOMAIN args
               PROVE  /\ args[j] = "mutable" => p[j] # "const&"
                      /\ args[j] # "mutable" /\ w = "macro" /\ ~perfect => p[j] = "const&"
    BY DEF MutabilityReachesThePack, Sets
  <2>1. ListsInv /\ CallInv /\ interface \in Interfaces /\ pc # "for"
    BY DEF OverloadsInv, ControlInv
  <2>2. /\ what = "macro" /\ range[1] \in Nat /\ range[2] \in Nat
        /\ Passed("macro") = range[1] .. (range[2] - 1)
        /\ range[2] <= maxArity + 1
    BY CallFacts
  <2>3. /\ Len(args) \in range[1] .. range[2] - 1
        /\ Len(args) <= MaxCallArity
        /\ args \in [1 .. Len(args) -> Categories]
        /\ chosen.macro = Best(overloads.macro, args)
        /\ chosen.operator = {} \/ chosen.operator = Best(overloads.operator, ForwardedArgs)
    BY <2>1 DEF CallInv
  <2>4. /\ Len(args) \in Nat /\ Len(args) \in Passed("macro") /\ Len(args) \in 0 .. maxArity
    <3>1. maxArity \in Nat
      BY <2>1, InterfaceFacts
    <3>2. QED  BY <2>2, <2>3, <3>1
  <2>5. PICK q \in overloads.macro : chosen.macro = {q} /\ CalleeOf(q, args)
    BY <2>1, <2>3, <2>4, ChosenMacro
  <2>6. CASE w = "macro"
    <3>1. p = q
      BY <2>5, <2>6
    <3>2. perfect \in BOOLEAN
      BY <2>1, InterfaceFacts
    <3>3. QED  BY <2>5, <2>6, <3>1, <3>2 DEF CalleeOf
  <2>7. CASE w = "operator"
    <3>1. /\ ForwardedArgs \in [1 .. Len(args) -> Categories]
          /\ ~perfect => \A i \in DOMAIN ForwardedArgs : ForwardedArgs[i] # "rvalue"
          /\ \A i \in 1 .. Len(args) : args[i] = "mutable" => ForwardedArgs[i] = "mutable"
      BY <2>1, <2>3, <2>4, <2>5, ForwardedFacts
    <3>2. DOMAIN args = 1 .. Len(args) /\ DOMAIN ForwardedArgs = 1 .. Len(args)
      BY <2>3, <2>4, <3>1, CategoryLists
    <3>3. p \in Best(overloads.operator, ForwardedArgs)
      BY <2>3, <2>7
    <3>4. \/ \E r \in overloads.operator :
               /\ Best(overloads.operator, ForwardedArgs) = {r}
               /\ \A i \in DOMAIN ForwardedArgs :
                    ForwardedArgs[i] = "mutable" => r[i] # "const&"
          \/ Best(overloads.operator, ForwardedArgs) = {}
      BY <2>1, <2>2, <2>3, <2>4, <3>1, OperatorAnswers
    <3>5. QED  BY <2>7, <3>1, <3>2, <3>3, <3>4
  <2>8. QED  BY <2>6, <2>7 DEF Sets
<1>2. QED  BY <1>1, OverloadsInvariant, PTL

(* However many arguments are padded with void_reference(), each node of   *)
(* the pack gets its own.                                                  *)
THEOREM NodesGetTheirArguments == Spec => []ArgumentsReachTheirNodes
<1>1. OverloadsInv => ArgumentsReachTheirNodes
  BY DEF OverloadsInv, PackInv, ArgumentsReachTheirNodes
<1>2. QED  BY <1>1, OverloadsInvariant, PTL

-----------------------------------------------------------------------------
(* The expansion comes to an end.                                          *)

(* Tuples of four are compared component by component.                     *)
LEMMA QuadDescends ==
  ASSUME NEW a \in Nat, NEW b \in Nat, NEW c \in Nat, NEW d \in Nat,
         NEW a1 \in Nat, NEW b1 \in Nat, NEW c1 \in Nat, NEW d1 \in Nat,
         \/ a1 < a
         \/ a1 = a /\ b1 < b
         \/ a1 = a /\ b1 = b /\ c1 < c
         \/ a1 = a /\ b1 = b /\ c1 = c /\ d1 < d
  PROVE  Descends(4, <<a, b, c, d>>, <<a1, b1, c1, d1>>)
<1>1. <<a, b, c, d>> \in [1 .. 4 -> Nat] /\ <<a1, b1, c1, d1>> \in [1 .. 4 -> Nat]
  OBVIOUS
<1>2. CASE a1 < a
  <2>1. \A l \in 1 .. (1 - 1) : <<a1, b1, c1, d1>>[l] = <<a, b, c, d>>[l]
    OBVIOUS
  <2>2. QED  BY <1>1, <1>2, <2>1 DEF Descends
<1>3. CASE a1 = a /\ b1 < b
  <2>1. \A l \in 1 .. (2 - 1) : <<a1, b1, c1, d1>>[l] = <<a, b, c, d>>[l]
    BY <1>3
  <2>2. QED  BY <1>1, <1>3, <2>1 DEF Descends
<1>4. CASE a1 = a /\ b1 = b /\ c1 < c
  <2>1. \A l \in 1 .. (3 - 1) : <<a1, b1, c1, d1>>[l] = <<a, b, c, d>>[l]
    BY <1>4
  <2>2. QED  BY <1>1, <1>4, <2>1 DEF Descends
<1>5. CASE a1 = a /\ b1 = b /\ c1 = c /\ d1 < d
  <2>1. \A l \in 1 .. (4 - 1) : <<a1, b1, c1, d1>>[l] = <<a, b, c, d>>[l]
    BY <1>5
  <2>2. QED  BY <1>1, <1>5, <2>1 DEF Descends
<1>6. QED  BY <1>2, <1>3, <1>4, <1>5

(* The stages left while a set is declared.                                *)
StagesLeft(w) == IF w = "operator" THEN 5 ELSE 4

(* What is left, in the states of an expansion and of a call: natural      *)
(* numbers, and of the blocks of an arity no more than 128.                *)
LeftByStage ==
  /\ what \in Sets
  /\ range[2] \in Nat /\ arity \in Nat /\ arity <= range[2]
  /\ pc = "repeat" => ExpansionLeft = <<StagesLeft(what), range[2] - arity, 130, 0>>
  /\ pc = "for" =>
       /\ ExpansionLeft = <<StagesLeft(what), range[2] - arity,
                            Blocks(arity) + 1 - block, PPForLimit - iterations>>
       /\ block \in Nat /\ Blocks(arity) \in Nat /\ iterations \in Nat
       /\ Blocks(arity) + 1 - block \in Nat /\ Blocks(arity) + 1 - block < 130
       /\ PPForLimit - iterations \in Nat
  /\ pc = "declared" => ExpansionLeft = <<3, 0, 0, 0>>
  /\ pc = "call" => ExpansionLeft = <<2, 0, 0, 0>>
  /\ pc = "build" => /\ ExpansionLeft = <<1, Len(args) - Len(nodes), 0, 0>>
                     /\ Len(args) - Len(nodes) \in Nat
  /\ pc \in {"compose", "bound", "not_callable", "hard_error"} =>
       ExpansionLeft = <<0, 0, 0, 0>>

(* The invariant bounds what is left.                                      *)
LEMMA LeftIsNatural == OverloadsInv /\ TypeOK => LeftByStage
<1> SUFFICES ASSUME OverloadsInv, TypeOK
             PROVE  LeftByStage
  OBVIOUS
<1>1. ControlInv /\ ForInv /\ CallInv /\ PackInv /\ what \in Sets
  BY DEF OverloadsInv, ControlInv
<1>2. range[2] \in Nat /\ arity \in Nat /\ arity <= range[2]
  <2>1. range[1] \in Nat /\ range[2] \in Nat /\ arity \in range[1] .. range[2]
    BY <1>1, RangeFacts DEF ControlInv
  <2>2. QED  BY <2>1
<1>3. ASSUME pc = "for"
      PROVE  /\ block \in Nat /\ Blocks(arity) \in Nat /\ iterations \in Nat
             /\ Blocks(arity) + 1 - block \in Nat /\ Blocks(arity) + 1 - block < 130
             /\ PPForLimit - iterations \in Nat
  <2>1. arity \in 0 .. 14 /\ block \in 1 .. Blocks(arity) + 1
    BY <1>1, <1>3 DEF ForInv
  <2>2. PICK b \in 1 .. 128 : b = Blocks(arity)
    BY <2>1, BlockSizes
  <2>3. iterations \in 0 .. PPForLimit /\ PPForLimit \in Nat
    BY PPForLimitAssumption DEF TypeOK, PPForLimitAssumption
  <2>4. /\ block \in Nat /\ b \in Nat /\ iterations \in Nat
        /\ b + 1 - block \in Nat /\ b + 1 - block < 130 /\ PPForLimit - iterations \in Nat
    BY <2>1, <2>2, <2>3
  <2>5. QED  BY <2>2, <2>4
<1>4. ASSUME pc = "build"
      PROVE  Len(args) - Len(nodes) \in Nat
  <2>1. nodes \in Seq(Nat) /\ Len(nodes) <= Len(args)
    BY <1>1 DEF PackInv
  <2>2. range[1] \in Nat /\ range[2] \in Nat
    BY <1>4, CallFacts
  <2>3. Len(args) \in range[1] .. range[2] - 1
    BY <1>1, <1>4 DEF CallInv
  <2>4. QED  BY <2>1, <2>2, <2>3
<1>5. /\ pc = "repeat" => ExpansionLeft = <<StagesLeft(what), range[2] - arity, 130, 0>>
      /\ pc = "for" =>
           ExpansionLeft = <<StagesLeft(what), range[2] - arity,
                             Blocks(arity) + 1 - block, PPForLimit - iterations>>
  BY <1>1 DEF ExpansionLeft, StagesLeft, Sets, Blocks
<1>6. /\ pc = "declared" => ExpansionLeft = <<3, 0, 0, 0>>
      /\ pc = "call" => ExpansionLeft = <<2, 0, 0, 0>>
      /\ pc = "build" => ExpansionLeft = <<1, Len(args) - Len(nodes), 0, 0>>
      /\ pc \in {"compose", "bound", "not_callable", "hard_error"} =>
           ExpansionLeft = <<0, 0, 0, 0>>
  BY DEF ExpansionLeft
<1>7. QED  BY <1>1, <1>2, <1>3, <1>4, <1>5, <1>6 DEF LeftByStage

(* An arity that needs no BOOST_PP_FOR, and one that is done with them.    *)
LEMMA ArityDescends ==
  ASSUME LeftByStage, LeftByStage', DeclareOne \/ DeclareNone \/ LeaveBinarySeq
  PROVE  Descends(4, ExpansionLeft, ExpansionLeft')
<1>1. /\ pc \in {"repeat", "for"} /\ pc' = "repeat" /\ what' = what /\ range' = range
      /\ arity' = arity + 1
  BY DEF DeclareOne, DeclareNone, LeaveBinarySeq
<1>2. /\ range[2] \in Nat /\ arity \in Nat /\ arity <= range[2]
      /\ range[2] \in Nat /\ arity + 1 <= range[2]
  BY <1>1 DEF LeftByStage
<1>3. PICK a \in Nat, b \in Nat, b1 \in Nat :
        a = StagesLeft(what) /\ b = range[2] - arity /\ b1 = range[2] - (arity + 1)
  <2>1. range[2] - arity \in Nat /\ range[2] - (arity + 1) \in Nat
    BY <1>2
  <2>2. StagesLeft(what) \in Nat
    BY DEF StagesLeft
  <2>3. QED  BY <2>1, <2>2
<1>4. PICK c \in Nat, d \in Nat : ExpansionLeft = <<a, b, c, d>>
  <2>1. CASE pc = "repeat"
    BY <1>3, <2>1 DEF LeftByStage
  <2>2. CASE pc = "for"
    BY <1>3, <2>2 DEF LeftByStage
  <2>3. QED  BY <1>1, <2>1, <2>2
<1>5. ExpansionLeft' = <<a, b1, 130, 0>>
  BY <1>1, <1>3 DEF LeftByStage, StagesLeft
<1>6. b1 < b
  BY <1>2, <1>3
<1>7. Descends(4, <<a, b, c, d>>, <<a, b1, 130, 0>>)
  BY <1>6, QuadDescends, SMTT(30)
<1>8. QED  BY <1>4, <1>5, <1>7

(* The BOOST_PP_FORs of an arity: entered, iterated, left one by one.      *)
LEMMA ForDescends ==
  ASSUME LeftByStage, LeftByStage', EnterBinarySeq \/ ExpandFor \/ NextFor
  PROVE  Descends(4, ExpansionLeft, ExpansionLeft')
<1>1. /\ pc' = "for" /\ what' = what /\ range' = range /\ arity' = arity
  BY DEF EnterBinarySeq, ExpandFor, NextFor
<1>2. PICK a \in Nat, b \in Nat : a = StagesLeft(what) /\ b = range[2] - arity
  <2>1. range[2] \in Nat /\ arity \in Nat /\ arity <= range[2]
    BY DEF LeftByStage
  <2>2. range[2] - arity \in Nat
    BY <2>1
  <2>3. StagesLeft(what) \in Nat
    BY DEF StagesLeft
  <2>4. QED  BY <2>2, <2>3
<1>3. PICK c1 \in Nat, d1 \in Nat :
        /\ c1 = Blocks(arity) + 1 - block' /\ c1 < 130
        /\ d1 = PPForLimit - iterations'
        /\ ExpansionLeft' = <<a, b, c1, d1>>
  <2>1. Blocks(arity)' = Blocks(arity)
    BY <1>1 DEF Blocks
  <2>2. /\ ExpansionLeft' = <<StagesLeft(what), range[2] - arity,
                              Blocks(arity) + 1 - block', PPForLimit - iterations'>>
        /\ Blocks(arity) + 1 - block' \in Nat /\ Blocks(arity) + 1 - block' < 130
        /\ PPForLimit - iterations' \in Nat
    BY <1>1, <2>1 DEF LeftByStage, StagesLeft
  <2>3. QED  BY <1>2, <2>2
<1>4. CASE EnterBinarySeq
  <2>1. ExpansionLeft = <<a, b, 130, 0>>
    BY <1>2, <1>4 DEF LeftByStage, EnterBinarySeq
  <2>2. Descends(4, <<a, b, 130, 0>>, <<a, b, c1, d1>>)
    BY <1>3, QuadDescends
  <2>3. QED  BY <1>3, <2>1, <2>2
<1>5. ASSUME pc = "for"
      PROVE  \E c \in Nat, d \in Nat :
               /\ c = Blocks(arity) + 1 - block /\ d = PPForLimit - iterations
               /\ ExpansionLeft = <<a, b, c, d>>
  BY <1>2, <1>5 DEF LeftByStage
<1> /\ PPForLimit \in Nat
    /\ pc = "for" => block \in Nat /\ Blocks(arity) \in Nat /\ iterations \in Nat
  BY PPForLimitAssumption DEF LeftByStage, PPForLimitAssumption
<1>6. CASE ExpandFor
  <2>1. pc = "for" /\ block' = block /\ iterations' = iterations + 1
    BY <1>6 DEF ExpandFor
  <2>2. PICK c \in Nat, d \in Nat :
          /\ c = Blocks(arity) + 1 - block /\ d = PPForLimit - iterations
          /\ ExpansionLeft = <<a, b, c, d>>
    BY <1>5, <2>1
  <2>3. c1 = c /\ d1 < d
    BY <1>3, <2>1, <2>2
  <2>4. Descends(4, <<a, b, c, d>>, <<a, b, c1, d1>>)
    BY <2>3, QuadDescends
  <2>5. QED  BY <1>3, <2>2, <2>4
<1>7. CASE NextFor
  <2>1. pc = "for" /\ block' = block + 1
    BY <1>7 DEF NextFor
  <2>2. PICK c \in Nat, d \in Nat :
          /\ c = Blocks(arity) + 1 - block /\ d = PPForLimit - iterations
          /\ ExpansionLeft = <<a, b, c, d>>
    BY <1>5, <2>1
  <2>3. c1 < c
    BY <1>3, <2>1, <2>2
  <2>4. Descends(4, <<a, b, c, d>>, <<a, b, c1, d1>>)
    BY <2>3, QuadDescends
  <2>5. QED  BY <1>3, <2>2, <2>4
<1>8. QED  BY <1>4, <1>6, <1>7

(* From one stage to a later one.                                          *)
LEMMA StageDescends ==
  ASSUME LeftByStage, LeftByStage',
         FailExpansion \/ BeginMacro \/ EndMacro \/ Call \/ CallOperator
           \/ ConstructTerminator
  PROVE  Descends(4, ExpansionLeft, ExpansionLeft')
<1> DEFINE Stage(p, w) ==
             CASE p \in {"repeat", "for"} -> StagesLeft(w)
               [] p = "declared" -> 3
               [] p = "call" -> 2
               [] p = "build" -> 1
               [] OTHER -> 0
<1>1. /\ pc \in {"repeat", "for", "declared", "call", "build"}
      /\ pc' \in {"repeat", "for", "declared", "call", "compose", "build", "bound",
                  "not_callable", "hard_error"}
      /\ Stage(pc', what') < Stage(pc, what)
  <2>1. CASE FailExpansion
    BY <2>1 DEF FailExpansion, Stuck, StagesLeft
  <2>2. CASE BeginMacro
    BY <2>2 DEF BeginMacro, StagesLeft
  <2>3. CASE EndMacro
    BY <2>3 DEF EndMacro, StagesLeft
  <2>4. CASE Call
    <3>1. pc = "declared" /\ pc' \in {"not_callable", "compose", "call"}
      BY <2>4 DEF Call
    <3>2. QED  BY <3>1
  <2>5. CASE CallOperator
    <3>1. pc = "call" /\ pc' \in {"not_callable", "bound", "build"}
      BY <2>5 DEF CallOperator
    <3>2. QED  BY <3>1
  <2>6. CASE ConstructTerminator
    <3>1. pc = "build" /\ pc' \in {"bound", "hard_error"}
      BY <2>6 DEF ConstructTerminator
    <3>2. QED  BY <3>1
  <2>7. QED  BY <2>1, <2>2, <2>3, <2>4, <2>5, <2>6
<1>2. \E b, c, d \in Nat : ExpansionLeft = <<Stage(pc, what), b, c, d>>
  <2>1. range[2] - arity \in Nat
    BY DEF LeftByStage
  <2>2. QED  BY <1>1, <2>1 DEF LeftByStage
<1>3. \E b, c, d \in Nat : ExpansionLeft' = <<Stage(pc', what'), b, c, d>>
  <2>1. range'[2] - arity' \in Nat
    BY DEF LeftByStage
  <2>2. QED  BY <1>1, <2>1 DEF LeftByStage
<1>4. Stage(pc, what) \in Nat /\ Stage(pc', what') \in Nat
  BY DEF StagesLeft
<1> HIDE DEF Stage
<1>5. QED
  <2>1. PICK b, c, d \in Nat : ExpansionLeft = <<Stage(pc, what), b, c, d>>
    BY <1>2
  <2>2. PICK b1, c1, d1 \in Nat : ExpansionLeft' = <<Stage(pc', what'), b1, c1, d1>>
    BY <1>3
  <2>3. Descends(4, <<Stage(pc, what), b, c, d>>, <<Stage(pc', what'), b1, c1, d1>>)
    BY <1>1, <1>4, QuadDescends
  <2>4. QED  BY <2>1, <2>2, <2>3

(* A constructor of arg_list leaves one argument fewer.                    *)
LEMMA NodeDescends ==
  ASSUME LeftByStage, LeftByStage', nodes \in Seq(Nat), ConstructNode
  PROVE  Descends(4, ExpansionLeft, ExpansionLeft')
<1>1. /\ pc = "build" /\ pc' = "build" /\ args' = args /\ Len(nodes) < Len(args)
      /\ Len(nodes') = Len(nodes) + 1 /\ Len(nodes) \in Nat
  BY DEF ConstructNode
<1>2. PICK b \in Nat : b = Len(args) - Len(nodes) /\ ExpansionLeft = <<1, b, 0, 0>>
  BY <1>1 DEF LeftByStage
<1>3. PICK b1 \in Nat : b1 = Len(args) - Len(nodes') /\ ExpansionLeft' = <<1, b1, 0, 0>>
  BY <1>1 DEF LeftByStage
<1>4. b1 < b
  BY <1>1, <1>2, <1>3
<1>5. Descends(4, <<1, b, 0, 0>>, <<1, b1, 0, 0>>)
  BY <1>4, QuadDescends
<1>6. QED  BY <1>2, <1>3, <1>5

(* Whatever the interface, the tables are expanded, and a call resolved    *)
(* and its pack built, in finitely many steps.                             *)
THEOREM ExpansionsEnd == Spec => ExpansionDescends
<1>1. ASSUME OverloadsInv, TypeOK, LeftByStage', Next
      PROVE  Descends(4, ExpansionLeft, ExpansionLeft')
  <2>1. LeftByStage
    BY <1>1, LeftIsNatural
  <2>2. nodes \in Seq(Nat)
    BY <1>1 DEF OverloadsInv, PackInv
  <2>3. CASE DeclareOne \/ DeclareNone \/ LeaveBinarySeq
    BY <1>1, <2>1, <2>3, ArityDescends
  <2>4. CASE EnterBinarySeq \/ ExpandFor \/ NextFor
    BY <1>1, <2>1, <2>4, ForDescends
  <2>5. CASE FailExpansion \/ BeginMacro \/ EndMacro \/ Call \/ CallOperator
               \/ ConstructTerminator
    BY <1>1, <2>1, <2>5, StageDescends
  <2>6. CASE ConstructNode
    BY <1>1, <2>1, <2>2, <2>6, NodeDescends
  <2>7. QED  BY <1>1, <2>3, <2>4, <2>5, <2>6 DEF Next, Expansion
<1>2. OverloadsInv /\ TypeOK /\ LeftByStage' /\ [Next]_vars =>
        [Descends(4, ExpansionLeft, ExpansionLeft')]_vars
  BY <1>1
<1>3. Spec => []LeftByStage
  BY OverloadsInvariant, OverloadsTypes, LeftIsNatural, PTL
<1>4. QED  BY <1>2, <1>3, OverloadsInvariant, OverloadsTypes, PTL
           DEF Spec, ExpansionDescends

-----------------------------------------------------------------------------
(* The lists of a macro.  What FLATTEN and FUNCTION_SPLIT_ARGS compute is  *)
(* defined by recursion, so that first of all the functions they define    *)
(* have to exist.                                                          *)

(* Induction, for a set of numbers.                                        *)
LEMMA EveryNatural ==
  ASSUME NEW T, 0 \in T, \A n \in Nat : n \in T => n + 1 \in T
  PROVE  Nat \subseteq T
<1> SUFFICES ASSUME Nat \ T # {}
             PROVE  FALSE
  OBVIOUS
<1> DEFINE R == OpToRel(<, Nat)
<1>1. \A x, y \in Nat : <<y, x>> \in R <=> y < x
  BY DEF OpToRel
<1>2. IsWellFoundedOn(R, Nat)
  BY NatLessThanWellFounded
<1> HIDE DEF R
<1>3. PICK m \in Nat \ T : \A y \in Nat \ T : ~(<<y, m>> \in R)
  BY <1>2, WFMin
<1>4. m # 0 /\ m \in Nat
  BY <1>3
<1>5. m - 1 \in Nat /\ m - 1 < m /\ (m - 1) + 1 = m
  BY <1>4
<1>6. m - 1 \in T
  BY <1>1, <1>3, <1>4, <1>5
<1>7. QED  BY <1>3, <1>5, <1>6

(* The results of a fold over m elements, the step of element n being G[n].*)
IsFold(f, S, start, m, G) ==
  /\ f \in [0 .. m -> S]
  /\ f[0] = start
  /\ \A n \in 1 .. m : f[n] = G[n][f[n - 1]]

(* A fold has a result: what comes after n elements, for each n.           *)
LEMMA FoldExists ==
  ASSUME NEW S, NEW start \in S, NEW m \in Nat, NEW G \in [1 .. m -> [S -> S]]
  PROVE  \E f : IsFold(f, S, start, m, G)
<1> DEFINE Folds(n, f) == f[0] = start /\ \A j \in 1 .. n : f[j] = G[j][f[j - 1]]
           Can(n) == n <= m => \E f \in [0 .. n -> S] : Folds(n, f)
           T == {n \in Nat : Can(n)}
<1>1. Can(0)
  <2>1. [x \in 0 .. 0 |-> start] \in [0 .. 0 -> S] /\ Folds(0, [x \in 0 .. 0 |-> start])
    OBVIOUS
  <2> HIDE DEF Folds
  <2>2. QED  BY <2>1
<1>2. ASSUME NEW n \in Nat, Can(n)
      PROVE  Can(n + 1)
  <2> HIDE DEF Folds
  <2> SUFFICES ASSUME n + 1 <= m
               PROVE  \E f \in [0 .. (n + 1) -> S] : Folds(n + 1, f)
    OBVIOUS
  <2>1. n <= m
    OBVIOUS
  <2>2. PICK f \in [0 .. n -> S] : Folds(n, f)
    BY <1>2, <2>1
  <2>3. n + 1 \in 1 .. m /\ n \in 0 .. n
    OBVIOUS
  <2>4. f[n] \in S /\ G[n + 1][f[n]] \in S
    BY <2>3
  <2> DEFINE g == [j \in 0 .. (n + 1) |-> IF j = n + 1 THEN G[n + 1][f[n]] ELSE f[j]]
  <2>5. g \in [0 .. (n + 1) -> S]
    <3>1. \A j \in 0 .. (n + 1) : j # n + 1 => j \in 0 .. n
      OBVIOUS
    <3>2. QED  BY <2>4, <3>1
  <2>6. g[0] = start
    <3>1. 0 \in 0 .. (n + 1) /\ 0 # n + 1
      OBVIOUS
    <3>2. QED  BY <2>2, <3>1 DEF Folds
  <2>7. ASSUME NEW j \in 1 .. (n + 1)
        PROVE  g[j] = G[j][g[j - 1]]
    <3>1. CASE j = n + 1
      <4>1. j - 1 = n /\ j - 1 \in 0 .. (n + 1) /\ j - 1 # n + 1 /\ j \in 0 .. (n + 1)
        BY <3>1
      <4>2. QED  BY <3>1, <4>1
    <3>2. CASE j # n + 1
      <4>1. /\ j \in 1 .. n /\ j \in 0 .. (n + 1)
            /\ j - 1 \in 0 .. (n + 1) /\ j - 1 # n + 1
        BY <3>2
      <4>2. g[j] = f[j] /\ g[j - 1] = f[j - 1]
        BY <3>2, <4>1
      <4>3. QED  BY <2>2, <4>1, <4>2 DEF Folds
    <3>3. QED  BY <3>1, <3>2
  <2> HIDE DEF g
  <2>8. Folds(n + 1, g)
    BY <2>6, <2>7 DEF Folds
  <2>9. QED  BY <2>5, <2>8
<1> HIDE DEF Can
<1>3. \A n \in Nat : n \in T => n + 1 \in T
  BY <1>2
<1>4. 0 \in T
  BY <1>1
<1> HIDE DEF T
<1>5. m \in T
  BY <1>3, <1>4, EveryNatural
<1>6. Can(m)
  BY <1>5 DEF T
<1>7. QED  BY <1>6 DEF Can, IsFold

(* The sequence that FlattenSeq returns, part by part.                     *)
LEMMA PartsOfFlattenSeq ==
  ASSUME NEW X, NEW ss \in Seq(Seq(X))
  PROVE  \E f \in [0 .. Len(ss) -> Seq(X)] :
           /\ f[0] = << >>
           /\ \A n \in 1 .. Len(ss) : f[n] = f[n - 1] \o ss[n]
           /\ FlattenSeq(ss) = f[Len(ss)]
<1> DEFINE m == Len(ss)
           G == [n \in 1 .. m |-> [s \in Seq(X) |-> s \o ss[n]]]
<1>1. m \in Nat
  OBVIOUS
<1>2. \A n \in 1 .. m : ss[n] \in Seq(X)
  OBVIOUS
<1>3. G \in [1 .. m -> [Seq(X) -> Seq(X)]]
  <2>1. \A n \in 1 .. m, s \in Seq(X) : s \o ss[n] \in Seq(X)
    BY <1>2, ConcatProperties
  <2>2. QED  BY <2>1
<1>4. << >> \in Seq(X)
  OBVIOUS
<1>5. \A n \in 1 .. m, s \in Seq(X) : G[n][s] = s \o ss[n]
  OBVIOUS
<1> HIDE DEF G, m
<1>6. PICK f \in [0 .. m -> Seq(X)] :
        f[0] = << >> /\ \A n \in 1 .. m : f[n] = G[n][f[n - 1]]
  <2> DEFINE S == Seq(X)
             start == << >>
  <2>1. G \in [1 .. m -> [S -> S]] /\ start \in S
    BY <1>3, <1>4
  <2> HIDE DEF S, start
  <2>2. \E f : IsFold(f, S, start, m, G)
    BY <1>1, <2>1, FoldExists
  <2>3. QED  BY <2>2 DEF S, start, IsFold
<1>7. \A n \in 1 .. m : f[n] = f[n - 1] \o ss[n]
  <2>1. \A n \in 1 .. m : n - 1 \in 0 .. m
    BY <1>1
  <2>2. QED  BY <1>5, <1>6, <2>1
<1>8. 1 \in 1 .. m => f[1] = ss[1]
  <2> SUFFICES ASSUME 1 \in 1 .. m
               PROVE  f[1] = ss[1]
    OBVIOUS
  <2>1. 1 - 1 = 0
    OBVIOUS
  <2>2. f[1] = << >> \o ss[1]
    BY <1>6, <1>7, <2>1
  <2>3. ss[1] \in Seq(X)
    BY <1>2
  <2>4. QED  BY <2>2, <2>3, ConcatEmptySeq
<1>9. FlattenSeq(ss) = f[m]
  <2>1. CASE m = 0
    BY <1>6, <2>1 DEF FlattenSeq, m
  <2>2. CASE m # 0
    <3> DEFINE P(h) == h = [i \in 1 .. m |-> IF i = 1 THEN ss[i] ELSE h[i - 1] \o ss[i]]
               g == CHOOSE h : P(h)
               f1 == [i \in 1 .. m |-> f[i]]
    <3>1. P(f1)
      <4>1. ASSUME NEW i \in 1 .. m
            PROVE  f[i] = IF i = 1 THEN ss[i] ELSE f1[i - 1] \o ss[i]
        <5>1. CASE i = 1
          <6>1. f[i] = ss[i]
            BY <5>1, <1>8
          <6>2. QED  BY <5>1, <6>1
        <5>2. CASE i # 1
          <6>1. i - 1 \in 1 .. m
            BY <1>1, <5>2
          <6>2. QED  BY <1>7, <5>2, <6>1
        <5>3. QED  BY <5>1, <5>2
      <4>2. QED  BY <4>1
    <3>2. P(g)
      <4> HIDE DEF P
      <4>1. QED  BY <3>1, Zenon
    <3>3. FlattenSeq(ss) = g[m]
      BY <2>2 DEF FlattenSeq, m
    <3> HIDE DEF g
    <3>4. \A i \in 1 .. m : g[i] = IF i = 1 THEN ss[i] ELSE g[i - 1] \o ss[i]
      BY <3>2
    <3> DEFINE T == {i \in Nat : i \in 1 .. m => g[i] = f[i]}
    <3>5. 0 \in T
      OBVIOUS
    <3>6. ASSUME NEW i \in Nat, i \in T
          PROVE  i + 1 \in T
      <4> SUFFICES ASSUME i + 1 \in 1 .. m
                   PROVE  g[i + 1] = f[i + 1]
        OBVIOUS
      <4>1. (i + 1) - 1 = i /\ f[i + 1] = f[i] \o ss[i + 1]
        <5>1. (i + 1) - 1 = i
          OBVIOUS
        <5>2. QED  BY <1>7, <5>1
      <4>2. CASE i = 0
        <5>1. i + 1 = 1
          BY <4>2
        <5>2. QED  BY <1>8, <3>4, <5>1
      <4>3. CASE i # 0
        <5>1. i \in 1 .. m /\ i + 1 # 1
          BY <1>1, <4>3
        <5>2. g[i] = f[i]
          BY <3>6, <5>1
        <5>3. g[i + 1] = g[i] \o ss[i + 1]
          BY <3>4, <4>1, <5>1
        <5>4. QED  BY <4>1, <5>2, <5>3
      <4>4. QED  BY <4>2, <4>3
    <3> HIDE DEF T
    <3>7. m \in T
      BY <1>1, <3>5, <3>6, EveryNatural
    <3>8. g[m] = f[m]
      BY <1>1, <2>2, <3>7 DEF T
    <3>9. QED  BY <3>3, <3>8
  <2>3. QED  BY <2>1, <2>2
<1>10. QED  BY <1>6, <1>7, <1>9 DEF m

(* What the list of a macro is flattened to, and its names.                *)
FlatSpecs == [qual : {"required", "optional", "deduced_required", "deduced_optional"},
              name : ParameterNames]
NamesOf(s) == [j \in DOMAIN s |-> s[j].name]

(* The names in a group as the user wrote it.                              *)
WrittenIn(group) ==
  IF group.qual = "deduced"
  THEN FlattenSeq([g \in DOMAIN group.groups |-> group.groups[g].names])
  ELSE group.names

(* Names are taken one by one.                                             *)
LEMMA NamesOfConcat ==
  ASSUME NEW s \in Seq(FlatSpecs), NEW t \in Seq(FlatSpecs)
  PROVE  /\ NamesOf(s) \in Seq(ParameterNames)
         /\ NamesOf(s \o t) = NamesOf(s) \o NamesOf(t)
<1>1. \A u \in Seq(FlatSpecs) : /\ NamesOf(u) \in Seq(ParameterNames)
                                /\ Len(NamesOf(u)) = Len(u)
                                /\ \A j \in 1 .. Len(u) : NamesOf(u)[j] = u[j].name
  <2> SUFFICES ASSUME NEW u \in Seq(FlatSpecs)
               PROVE  /\ NamesOf(u) \in Seq(ParameterNames)
                      /\ Len(NamesOf(u)) = Len(u)
                      /\ \A j \in 1 .. Len(u) : NamesOf(u)[j] = u[j].name
    OBVIOUS
  <2>1. Len(u) \in Nat /\ DOMAIN u = 1 .. Len(u)
    OBVIOUS
  <2>2. \A j \in 1 .. Len(u) : u[j].name \in ParameterNames
    <3>1. \A j \in 1 .. Len(u) : u[j] \in FlatSpecs
      OBVIOUS
    <3>2. \A x \in FlatSpecs : x.name \in ParameterNames
      BY DEF FlatSpecs
    <3>3. QED  BY <3>1, <3>2
  <2>3. NamesOf(u) = [j \in 1 .. Len(u) |-> u[j].name]
    BY <2>1 DEF NamesOf
  <2>4. QED  BY <2>1, <2>2, <2>3
<1>2. s \o t \in Seq(FlatSpecs) /\ Len(s \o t) = Len(s) + Len(t)
  BY ConcatProperties
<1>3. Len(s) \in Nat /\ Len(t) \in Nat
  OBVIOUS
<1>4. NamesOf(s) \o NamesOf(t) \in Seq(ParameterNames)
      /\ Len(NamesOf(s) \o NamesOf(t)) = Len(s) + Len(t)
  <2>1. PICK u, v \in Seq(ParameterNames) : /\ u = NamesOf(s) /\ Len(u) = Len(s)
                                           /\ v = NamesOf(t) /\ Len(v) = Len(t)
    BY <1>1
  <2>2. u \o v \in Seq(ParameterNames) /\ Len(u \o v) = Len(u) + Len(v)
    BY ConcatProperties
  <2>3. QED  BY <2>1, <2>2
<1>5. ASSUME NEW j \in 1 .. Len(s) + Len(t)
      PROVE  NamesOf(s \o t)[j] = (NamesOf(s) \o NamesOf(t))[j]
  <2>1. NamesOf(s \o t)[j] = (s \o t)[j].name
    BY <1>1, <1>2
  <2>2. CASE j <= Len(s)
    <3>1. j \in 1 .. Len(s) /\ (s \o t)[j] = s[j]
      BY <1>3, <2>2, ConcatProperties
    <3>2. (NamesOf(s) \o NamesOf(t))[j] = NamesOf(s)[j]
      BY <1>1, <1>3, <2>2, ConcatProperties
    <3>3. QED  BY <1>1, <2>1, <3>1, <3>2
  <2>3. CASE ~(j <= Len(s))
    <3>1. j - Len(s) \in 1 .. Len(t) /\ (s \o t)[j] = t[j - Len(s)]
      BY <1>3, <2>3, ConcatProperties
    <3>2. (NamesOf(s) \o NamesOf(t))[j] = NamesOf(t)[j - Len(s)]
      BY <1>1, <1>3, <2>3, ConcatProperties
    <3>3. QED  BY <1>1, <2>1, <3>1, <3>2
  <2>4. QED  BY <2>2, <2>3
<1>6. NamesOf(s \o t) = NamesOf(s) \o NamesOf(t)
  BY <1>1, <1>2, <1>4, <1>5, SeqEqual
<1>7. QED  BY <1>1, <1>6

(* The names of the whole are the names of the parts.                      *)
LEMMA NamesOfFlattenSeq ==
  ASSUME NEW ss \in Seq(Seq(FlatSpecs)), NEW tt \in Seq(Seq(ParameterNames)),
         Len(tt) = Len(ss), \A j \in 1 .. Len(ss) : tt[j] = NamesOf(ss[j])
  PROVE  /\ FlattenSeq(ss) \in Seq(FlatSpecs)
         /\ FlattenSeq(tt) \in Seq(ParameterNames)
         /\ NamesOf(FlattenSeq(ss)) = FlattenSeq(tt)
<1> DEFINE m == Len(ss)
<1>1. m \in Nat /\ \A j \in 1 .. m : ss[j] \in Seq(FlatSpecs)
  OBVIOUS
<1>2. PICK f \in [0 .. m -> Seq(FlatSpecs)] :
        /\ f[0] = << >>
        /\ \A n \in 1 .. m : f[n] = f[n - 1] \o ss[n]
        /\ FlattenSeq(ss) = f[m]
  BY PartsOfFlattenSeq
<1>3. PICK g \in [0 .. m -> Seq(ParameterNames)] :
        /\ g[0] = << >>
        /\ \A n \in 1 .. m : g[n] = g[n - 1] \o tt[n]
        /\ FlattenSeq(tt) = g[m]
  <2>1. \E g \in [0 .. Len(tt) -> Seq(ParameterNames)] :
          /\ g[0] = << >>
          /\ \A n \in 1 .. Len(tt) : g[n] = g[n - 1] \o tt[n]
          /\ FlattenSeq(tt) = g[Len(tt)]
    BY PartsOfFlattenSeq
  <2>2. Len(tt) = m
    OBVIOUS
  <2> HIDE DEF m
  <2>3. QED  BY <2>1, <2>2, Zenon
<1>4. \A j \in 1 .. m : tt[j] = NamesOf(ss[j])
  OBVIOUS
<1> HIDE DEF m
<1> DEFINE T == {n \in Nat : n \in 0 .. m => g[n] = NamesOf(f[n])}
<1>5. 0 \in T
  <2>1. NamesOf(<< >>) = << >>
    BY DEF NamesOf
  <2>2. QED  BY <1>2, <1>3, <2>1
<1>6. ASSUME NEW n \in Nat, n \in T
      PROVE  n + 1 \in T
  <2> SUFFICES ASSUME n + 1 \in 0 .. m
               PROVE  g[n + 1] = NamesOf(f[n + 1])
    OBVIOUS
  <2>1. n \in 0 .. m /\ n + 1 \in 1 .. m /\ (n + 1) - 1 = n
    BY <1>1
  <2>2. g[n] = NamesOf(f[n])
    BY <1>6, <2>1
  <2>3. f[n + 1] = f[n] \o ss[n + 1] /\ g[n + 1] = g[n] \o tt[n + 1]
    BY <1>2, <1>3, <2>1
  <2>4. f[n] \in Seq(FlatSpecs) /\ ss[n + 1] \in Seq(FlatSpecs)
    BY <1>1, <2>1
  <2>5. tt[n + 1] = NamesOf(ss[n + 1])
    BY <1>4, <2>1
  <2>6. NamesOf(f[n] \o ss[n + 1]) = NamesOf(f[n]) \o NamesOf(ss[n + 1])
    BY <2>4, NamesOfConcat
  <2>7. QED  BY <2>2, <2>3, <2>5, <2>6
<1> HIDE DEF T
<1>7. m \in T
  BY <1>1, <1>5, <1>6, EveryNatural
<1>8. m \in 0 .. m
  BY <1>1
<1>9. g[m] = NamesOf(f[m])
  BY <1>7, <1>8 DEF T
<1>10. QED  BY <1>2, <1>3, <1>8, <1>9

(* A group that is not deduced keeps its names and gets one qualifier.     *)
LEMMA FlattenedNames ==
  ASSUME NEW names \in Seq(ParameterNames),
         NEW q \in {"required", "optional", "deduced_required", "deduced_optional"}
  PROVE  /\ FLATTEN_SPEC_AUX(names, q) \in Seq(FlatSpecs)
         /\ NamesOf(FLATTEN_SPEC_AUX(names, q)) = names
<1>1. /\ Len(names) \in Nat /\ DOMAIN names = 1 .. Len(names)
      /\ names \in [1 .. Len(names) -> ParameterNames]
  OBVIOUS
<1>2. FLATTEN_SPEC_AUX(names, q) = [j \in 1 .. Len(names) |-> [qual |-> q, name |-> names[j]]]
  BY <1>1 DEF FLATTEN_SPEC_AUX, FOR_EACH_R
<1>3. \A j \in 1 .. Len(names) : [qual |-> q, name |-> names[j]] \in FlatSpecs
  BY <1>1 DEF FlatSpecs
<1>4. FLATTEN_SPEC_AUX(names, q) \in Seq(FlatSpecs)
  BY <1>1, <1>2, <1>3
<1>5. NamesOf(FLATTEN_SPEC_AUX(names, q)) = [j \in 1 .. Len(names) |-> names[j]]
  BY <1>2 DEF NamesOf
<1>6. QED  BY <1>1, <1>4, <1>5

(* So does every group.                                                    *)
LEMMA FlattenedGroup ==
  ASSUME NEW group \in Groups \union DeducedGroups
  PROVE  /\ FLATTEN_SPEC(group) \in Seq(FlatSpecs)
         /\ WrittenIn(group) \in Seq(ParameterNames)
         /\ NamesOf(FLATTEN_SPEC(group)) = WrittenIn(group)
<1>1. CASE group \in Groups
  <2>1. /\ group.qual \in {"required", "optional"} /\ group.names \in Seq(ParameterNames)
        /\ group.qual # "deduced"
    BY <1>1 DEF Groups
  <2>2. /\ FLATTEN_SPEC(group) = FLATTEN_SPEC_AUX(group.names, group.qual)
        /\ WrittenIn(group) = group.names
    BY <2>1 DEF FLATTEN_SPEC, WrittenIn
  <2>3. QED  BY <2>1, <2>2, FlattenedNames
<1>2. CASE group \in DeducedGroups
  <2> DEFINE inner == group.groups
             ss == [j \in DOMAIN inner |->
                      FLATTEN_SPEC_AUX(inner[j].names, FLATTEN_SPEC_AS_DEDUCED(inner[j].qual))]
             tt == [g \in DOMAIN inner |-> inner[g].names]
  <2>1. group.qual = "deduced" /\ inner \in Seq(Groups)
    BY <1>2 DEF DeducedGroups
  <2>2. FLATTEN_SPEC(group) = FlattenSeq(ss) /\ WrittenIn(group) = FlattenSeq(tt)
    BY <2>1 DEF FLATTEN_SPEC, FLATTEN_SPEC_deduced, WrittenIn
  <2> HIDE DEF inner
  <2>3. Len(inner) \in Nat /\ DOMAIN inner = 1 .. Len(inner)
    BY <2>1
  <2>4. ASSUME NEW j \in 1 .. Len(inner)
        PROVE  /\ inner[j].names \in Seq(ParameterNames)
               /\ FLATTEN_SPEC_AS_DEDUCED(inner[j].qual) \in {"deduced_required", "deduced_optional"}
    <3>1. inner[j] \in Groups
      BY <2>1
    <3>2. QED  BY <3>1 DEF Groups, FLATTEN_SPEC_AS_DEDUCED
  <2>5. \A j \in 1 .. Len(inner) : ss[j] \in Seq(FlatSpecs) /\ NamesOf(ss[j]) = tt[j]
    <3> SUFFICES ASSUME NEW j \in 1 .. Len(inner)
                 PROVE  ss[j] \in Seq(FlatSpecs) /\ NamesOf(ss[j]) = tt[j]
      OBVIOUS
    <3>1. PICK q \in {"deduced_required", "deduced_optional"} :
            q = FLATTEN_SPEC_AS_DEDUCED(inner[j].qual)
      BY <2>4
    <3>2. ss[j] = FLATTEN_SPEC_AUX(inner[j].names, q) /\ tt[j] = inner[j].names
      BY <2>3, <3>1
    <3> HIDE DEF ss, tt
    <3>3. QED  BY <2>4, <3>2, FlattenedNames
  <2>6. ss \in Seq(Seq(FlatSpecs)) /\ Len(ss) = Len(inner)
    <3>1. ss = [j \in 1 .. Len(inner) |-> ss[j]]
      BY <2>3
    <3> HIDE DEF ss
    <3>2. QED  BY <2>3, <2>5, <3>1
  <2>7. tt \in Seq(Seq(ParameterNames)) /\ Len(tt) = Len(inner)
    <3>1. tt = [j \in 1 .. Len(inner) |-> inner[j].names]
      BY <2>3
    <3> HIDE DEF tt
    <3>2. QED  BY <2>3, <2>4, <3>1
  <2> HIDE DEF ss, tt
  <2>8. QED  BY <2>2, <2>5, <2>6, <2>7, NamesOfFlattenSeq
<1>3. QED  BY <1>1, <1>2

(* A flattened list has the names of the user's list, in order.            *)
LEMMA FlattenedList ==
  ASSUME NEW specs \in SpecSequences
  PROVE  /\ FLATTEN(specs) \in Seq(FlatSpecs)
         /\ NamesOf(FLATTEN(specs)) = FlattenSeq([g \in DOMAIN specs |-> WrittenIn(specs[g])])
<1> DEFINE ss == [j \in DOMAIN specs |-> FLATTEN_SPEC(specs[j])]
           tt == [g \in DOMAIN specs |-> WrittenIn(specs[g])]
<1>1. /\ Len(specs) \in Nat /\ DOMAIN specs = 1 .. Len(specs)
      /\ \A j \in 1 .. Len(specs) : specs[j] \in Groups \union DeducedGroups
  BY DEF SpecSequences
<1>2. \A j \in 1 .. Len(specs) : /\ ss[j] \in Seq(FlatSpecs)
                                /\ tt[j] \in Seq(ParameterNames)
                                /\ NamesOf(ss[j]) = tt[j]
  <2> SUFFICES ASSUME NEW j \in 1 .. Len(specs)
               PROVE  /\ ss[j] \in Seq(FlatSpecs)
                      /\ tt[j] \in Seq(ParameterNames)
                      /\ NamesOf(ss[j]) = tt[j]
    OBVIOUS
  <2>1. ss[j] = FLATTEN_SPEC(specs[j]) /\ tt[j] = WrittenIn(specs[j])
    BY <1>1
  <2> HIDE DEF ss, tt
  <2>2. QED  BY <1>1, <2>1, FlattenedGroup
<1>3. ss \in Seq(Seq(FlatSpecs)) /\ Len(ss) = Len(specs)
  <2>1. ss = [j \in 1 .. Len(specs) |-> ss[j]]
    BY <1>1
  <2> HIDE DEF ss
  <2>2. QED  BY <1>1, <1>2, <2>1
<1>4. tt \in Seq(Seq(ParameterNames)) /\ Len(tt) = Len(specs)
  <2>1. tt = [j \in 1 .. Len(specs) |-> tt[j]]
    BY <1>1
  <2> HIDE DEF tt
  <2>2. QED  BY <1>1, <1>2, <2>1
<1>5. FLATTEN(specs) = FlattenSeq(ss)
  BY DEF FLATTEN
<1> HIDE DEF ss
<1>6. /\ FlattenSeq(ss) \in Seq(FlatSpecs)
      /\ NamesOf(FlattenSeq(ss)) = FlattenSeq(tt)
  <2> HIDE DEF tt
  <2>1. QED  BY <1>2, <1>3, <1>4, NamesOfFlattenSeq
<1>7. QED  BY <1>5, <1>6

(* How many of the first n parameters are required.                        *)
RequiredUpTo(s, n) == Cardinality({j \in 1 .. n : s[j].qual \in RequiredQualifiers})

(* The count goes up by one with every required parameter.                 *)
LEMMA RequiredAreCountedUp ==
  ASSUME NEW s
  PROVE  /\ RequiredUpTo(s, 0) = 0
         /\ \A n \in Nat : /\ RequiredUpTo(s, n) \in 0 .. n
                          /\ RequiredUpTo(s, n + 1) = RequiredUpTo(s, n)
                               + (IF s[n + 1].qual \in RequiredQualifiers THEN 1 ELSE 0)
<1> DEFINE Them(n) == {j \in 1 .. n : s[j].qual \in RequiredQualifiers}
<1>1. \A n \in Nat : /\ IsFiniteSet(Them(n)) /\ Cardinality(Them(n)) \in Nat
                    /\ Cardinality(Them(n)) <= n
  <2> SUFFICES ASSUME NEW n \in Nat
               PROVE  /\ IsFiniteSet(Them(n)) /\ Cardinality(Them(n)) \in Nat
                      /\ Cardinality(Them(n)) <= n
    OBVIOUS
  <2>1. IsFiniteSet(1 .. n) /\ Cardinality(1 .. n) = n
    <3>1. 1 \in Int /\ n \in Int
      OBVIOUS
    <3>2. /\ IsFiniteSet(1 .. n)
          /\ Cardinality(1 .. n) = IF 1 > n THEN 0 ELSE n - 1 + 1
      BY <3>1, FS_Interval, Zenon
    <3>3. QED  BY <3>2
  <2>2. Them(n) \in SUBSET (1 .. n)
    OBVIOUS
  <2> HIDE DEF Them
  <2>3. IsFiniteSet(Them(n)) /\ Cardinality(Them(n)) <= n
    BY <2>1, <2>2, FS_Subset
  <2>4. QED  BY <2>3, FS_CardinalityType
<1>2. Them(0) = {}
  OBVIOUS
<1>3. ASSUME NEW n \in Nat
      PROVE  Cardinality(Them(n + 1)) = Cardinality(Them(n))
               + (IF s[n + 1].qual \in RequiredQualifiers THEN 1 ELSE 0)
  <2>1. CASE s[n + 1].qual \in RequiredQualifiers
    <3>1. Them(n + 1) = Them(n) \cup {n + 1} /\ n + 1 \notin Them(n)
      BY <2>1
    <3> HIDE DEF Them
    <3>2. QED  BY <1>1, <2>1, <3>1, FS_AddElement
  <2>2. CASE ~(s[n + 1].qual \in RequiredQualifiers)
    <3>1. Them(n + 1) = Them(n)
      <4>1. \A j \in 1 .. (n + 1) : j = n + 1 \/ j \in 1 .. n
        OBVIOUS
      <4>2. QED  BY <2>2, <4>1
    <3>2. Cardinality(Them(n)) \in Nat
      BY <1>1
    <3> HIDE DEF Them
    <3>3. QED  BY <2>2, <3>1, <3>2
  <2>3. QED  BY <2>1, <2>2
<1>4. \A n \in Nat : RequiredUpTo(s, n) = Cardinality(Them(n))
  BY DEF RequiredUpTo
<1> HIDE DEF Them
<1>5. \A n \in Nat : n + 1 \in Nat
  OBVIOUS
<1>6. RequiredUpTo(s, 0) = 0
  BY <1>2, <1>4, FS_EmptySet
<1>7. QED  BY <1>1, <1>3, <1>4, <1>5, <1>6

(* What split_args.hpp has after n parameters.                             *)
SplitStates == [reqCount : Nat, req : Seq(FlatSpecs), optCount : Nat, opt : Seq(FlatSpecs)]
IsSplit(s, n, state) ==
  LET r(j) == RequiredUpTo(s, j)
  IN  /\ state \in SplitStates
      /\ state.reqCount = r(n) /\ Len(state.req) = r(n)
      /\ state.optCount = n - r(n) /\ Len(state.opt) = n - r(n)
      /\ \A j \in 1 .. n :
           IF s[j].qual \in RequiredQualifiers
           THEN r(j) \in 1 .. r(n) /\ state.req[r(j)] = s[j]
           ELSE j - r(j) \in 1 .. (n - r(n)) /\ state.opt[j - r(j)] = s[j]
SplitArg(state, arg) ==
  IF arg.qual \in {"required", "deduced_required"}
  THEN [state EXCEPT !.reqCount = @ + 1, !.req = Append(@, arg)]
  ELSE [state EXCEPT !.optCount = @ + 1, !.opt = Append(@, arg)]

(* One parameter more goes behind those of its kind.                       *)
LEMMA SplitArgStep ==
  ASSUME NEW s \in Seq(FlatSpecs), NEW n \in Nat, n + 1 \in 1 .. Len(s),
         NEW state, IsSplit(s, n, state)
  PROVE  IsSplit(s, n + 1, SplitArg(state, s[n + 1]))
<1> DEFINE r(j) == RequiredUpTo(s, j)
           next == SplitArg(state, s[n + 1])
           arg == s[n + 1]
<1>1. /\ state \in SplitStates
      /\ state.reqCount = r(n) /\ Len(state.req) = r(n)
      /\ state.optCount = n - r(n) /\ Len(state.opt) = n - r(n)
  BY DEF IsSplit
<1>2. \A j \in 1 .. n :
        IF s[j].qual \in RequiredQualifiers
        THEN r(j) \in 1 .. r(n) /\ state.req[r(j)] = s[j]
        ELSE j - r(j) \in 1 .. (n - r(n)) /\ state.opt[j - r(j)] = s[j]
  BY DEF IsSplit
<1>3. /\ arg \in FlatSpecs /\ r(n) \in Nat
      /\ r(n + 1) = r(n) + (IF arg.qual \in RequiredQualifiers THEN 1 ELSE 0)
  BY RequiredAreCountedUp
<1>4. \A j \in 1 .. n : r(j) \in Nat
  <2>1. \A j \in 1 .. n : j \in Nat
    OBVIOUS
  <2>2. \A j \in Nat : RequiredUpTo(s, j) \in 0 .. j
    BY RequiredAreCountedUp
  <2>3. ASSUME NEW j \in 1 .. n
        PROVE  RequiredUpTo(s, j) \in Nat
    <3>1. RequiredUpTo(s, j) \in 0 .. j
      BY <2>1, <2>2
    <3>2. QED  BY <3>1
  <2>4. QED  BY <2>3
<1> HIDE DEF r
<1>5. /\ state.req \in Seq(FlatSpecs) /\ state.opt \in Seq(FlatSpecs)
  BY <1>1 DEF SplitStates
<1>6. CASE arg.qual \in RequiredQualifiers
  <2>1. next = [reqCount |-> state.reqCount + 1, req |-> Append(state.req, arg),
                optCount |-> state.optCount, opt |-> state.opt]
    BY <1>1, <1>6 DEF SplitArg, SplitStates, RequiredQualifiers
  <2> HIDE DEF next, arg
  <2>2. r(n + 1) = r(n) + 1
    BY <1>3, <1>6
  <2>3. /\ Append(state.req, arg) \in Seq(FlatSpecs)
        /\ Len(Append(state.req, arg)) = r(n) + 1
        /\ Append(state.req, arg)[r(n) + 1] = arg
        /\ \A k \in 1 .. r(n) : Append(state.req, arg)[k] = state.req[k]
    BY <1>1, <1>3, <1>5
  <2>4. /\ next \in SplitStates
        /\ next.reqCount = r(n + 1) /\ Len(next.req) = r(n + 1)
        /\ next.optCount = (n + 1) - r(n + 1) /\ Len(next.opt) = (n + 1) - r(n + 1)
    <3>1. (n + 1) - r(n + 1) = n - r(n)
      BY <1>3, <2>2
    <3>2. r(n) + 1 \in Nat
      BY <1>3
    <3>3. QED  BY <1>1, <2>1, <2>2, <2>3, <3>1, <3>2 DEF SplitStates
  <2>5. ASSUME NEW j \in 1 .. (n + 1)
        PROVE  IF s[j].qual \in RequiredQualifiers
               THEN r(j) \in 1 .. r(n + 1) /\ next.req[r(j)] = s[j]
               ELSE j - r(j) \in 1 .. ((n + 1) - r(n + 1)) /\ next.opt[j - r(j)] = s[j]
    <3>1. CASE j = n + 1
      BY <1>3, <1>6, <2>1, <2>2, <2>3, <3>1 DEF arg
    <3>2. CASE j # n + 1
      <4>1. j \in 1 .. n
        BY <3>2
      <4>2. (n + 1) - r(n + 1) = n - r(n)
        BY <1>3, <2>2
      <4>3. CASE s[j].qual \in RequiredQualifiers
        <5>1. r(j) \in 1 .. r(n) /\ state.req[r(j)] = s[j]
          BY <1>2, <4>1, <4>3
        <5>2. r(j) \in 1 .. r(n + 1)
          BY <1>3, <2>2, <5>1
        <5>3. QED  BY <2>1, <2>3, <4>3, <5>1, <5>2
      <4>4. CASE ~(s[j].qual \in RequiredQualifiers)
        BY <1>2, <2>1, <4>1, <4>2, <4>4
      <4>5. QED  BY <4>3, <4>4
    <3>3. QED  BY <3>1, <3>2
  <2>6. QED  BY <2>4, <2>5 DEF IsSplit, r, next, arg
<1>7. CASE ~(arg.qual \in RequiredQualifiers)
  <2>1. next = [reqCount |-> state.reqCount, req |-> state.req,
                optCount |-> state.optCount + 1, opt |-> Append(state.opt, arg)]
    BY <1>1, <1>7 DEF SplitArg, SplitStates, RequiredQualifiers
  <2> HIDE DEF next, arg
  <2>2. r(n + 1) = r(n) /\ (n + 1) - r(n + 1) = (n - r(n)) + 1 /\ n - r(n) \in Nat
    <3>1. r(n + 1) = r(n)
      BY <1>3, <1>7
    <3>2. n - r(n) \in Nat
      BY <1>1, <1>5
    <3>3. QED  BY <1>3, <3>1, <3>2
  <2>3. /\ Append(state.opt, arg) \in Seq(FlatSpecs)
        /\ Len(Append(state.opt, arg)) = (n - r(n)) + 1
        /\ Append(state.opt, arg)[(n - r(n)) + 1] = arg
        /\ \A k \in 1 .. (n - r(n)) : Append(state.opt, arg)[k] = state.opt[k]
    BY <1>1, <1>3, <1>5, <2>2
  <2>4. /\ next \in SplitStates
        /\ next.reqCount = r(n + 1) /\ Len(next.req) = r(n + 1)
        /\ next.optCount = (n + 1) - r(n + 1) /\ Len(next.opt) = (n + 1) - r(n + 1)
    BY <1>1, <1>3, <2>1, <2>2, <2>3 DEF SplitStates
  <2>5. ASSUME NEW j \in 1 .. (n + 1)
        PROVE  IF s[j].qual \in RequiredQualifiers
               THEN r(j) \in 1 .. r(n + 1) /\ next.req[r(j)] = s[j]
               ELSE j - r(j) \in 1 .. ((n + 1) - r(n + 1)) /\ next.opt[j - r(j)] = s[j]
    <3>1. CASE j = n + 1
      <4>1. (n - r(n)) + 1 \in 1 .. ((n - r(n)) + 1)
        BY <2>2
      <4>2. QED  BY <1>7, <2>1, <2>2, <2>3, <3>1, <4>1 DEF arg
    <3>2. CASE j # n + 1
      <4>1. j \in 1 .. n
        BY <3>2
      <4>2. CASE s[j].qual \in RequiredQualifiers
        BY <1>2, <2>1, <2>2, <4>1, <4>2
      <4>3. CASE ~(s[j].qual \in RequiredQualifiers)
        <5>1. j - r(j) \in 1 .. (n - r(n)) /\ state.opt[j - r(j)] = s[j]
          BY <1>2, <4>1, <4>3
        <5>2. j - r(j) \in 1 .. ((n + 1) - r(n + 1))
          BY <2>2, <5>1
        <5>3. QED  BY <2>1, <2>3, <4>3, <5>1, <5>2
      <4>4. QED  BY <4>2, <4>3
    <3>3. QED  BY <3>1, <3>2
  <2>6. QED  BY <2>4, <2>5 DEF IsSplit, r, next, arg
<1>8. QED  BY <1>6, <1>7

(* split_args.hpp keeps every parameter, among those of its kind and in the*)
(* order of the list.                                                      *)
LEMMA SplitArguments ==
  ASSUME NEW s \in Seq(FlatSpecs)
  PROVE  IsSplit(s, Len(s), FUNCTION_SPLIT_ARGS(s))
<1> DEFINE m == Len(s)
           P(h) == h = [n \in 0 .. m |-> IF n = 0 THEN NothingSplit
                                        ELSE SplitArg(h[n - 1], s[n])]
           after == CHOOSE h : P(h)
           G == [n \in 1 .. m |-> [state \in SplitStates |-> SplitArg(state, s[n])]]
<1>1. m \in Nat /\ \A n \in 1 .. m : s[n] \in FlatSpecs
  OBVIOUS
<1>2. NothingSplit \in SplitStates
  BY DEF NothingSplit, SplitStates
<1>3. \A n \in 1 .. m, state \in SplitStates : SplitArg(state, s[n]) \in SplitStates
  <2> SUFFICES ASSUME NEW n \in 1 .. m, NEW state \in SplitStates
               PROVE  SplitArg(state, s[n]) \in SplitStates
    OBVIOUS
  <2>1. PICK arg \in FlatSpecs : arg = s[n]
    BY <1>1
  <2>2. /\ state.reqCount + 1 \in Nat /\ Append(state.req, arg) \in Seq(FlatSpecs)
        /\ state.optCount + 1 \in Nat /\ Append(state.opt, arg) \in Seq(FlatSpecs)
    BY DEF SplitStates
  <2>3. SplitArg(state, arg) \in SplitStates
    BY <2>2 DEF SplitArg, SplitStates
  <2>4. QED  BY <2>1, <2>3
<1>4. G \in [1 .. m -> [SplitStates -> SplitStates]]
  BY <1>3
<1>5. \A n \in 1 .. m, state \in SplitStates : G[n][state] = SplitArg(state, s[n])
  OBVIOUS
<1>6. FUNCTION_SPLIT_ARGS(s) = after[m]
  BY DEF FUNCTION_SPLIT_ARGS, SplitArg
<1> HIDE DEF m, G
<1>7. PICK f : IsFold(f, SplitStates, NothingSplit, m, G)
  BY <1>1, <1>2, <1>4, FoldExists
<1>8. P(f)
  <2>1. f \in [0 .. m -> SplitStates] /\ f[0] = NothingSplit
    BY <1>7 DEF IsFold
  <2>2. ASSUME NEW n \in 0 .. m
        PROVE  f[n] = IF n = 0 THEN NothingSplit ELSE SplitArg(f[n - 1], s[n])
    <3>1. CASE n # 0
      <4>1. n \in 1 .. m /\ n - 1 \in 0 .. m
        BY <1>1, <3>1
      <4>2. f[n] = G[n][f[n - 1]] /\ f[n - 1] \in SplitStates
        BY <1>7, <2>1, <4>1 DEF IsFold
      <4>3. QED  BY <1>5, <3>1, <4>1, <4>2
    <3>2. QED  BY <2>1, <3>1
  <2>3. QED  BY <2>1, <2>2
<1>9. P(after)
  <2> HIDE DEF P
  <2>1. QED  BY <1>8, Zenon
<1> HIDE DEF after
<1>10. \A n \in 0 .. m : after[n] = IF n = 0 THEN NothingSplit
                                   ELSE SplitArg(after[n - 1], s[n])
  BY <1>9
<1> HIDE DEF P
<1> DEFINE T == {n \in Nat : n \in 0 .. m => IsSplit(s, n, after[n])}
<1>11. 0 \in T
  <2>1. after[0] = NothingSplit
    BY <1>1, <1>10
  <2>2. RequiredUpTo(s, 0) = 0
    BY RequiredAreCountedUp
  <2>3. IsSplit(s, 0, NothingSplit)
    BY <1>2, <2>2 DEF IsSplit, NothingSplit
  <2>4. QED  BY <2>1, <2>3
<1>12. ASSUME NEW n \in Nat, n \in T
       PROVE  n + 1 \in T
  <2> SUFFICES ASSUME n + 1 \in 0 .. m
               PROVE  IsSplit(s, n + 1, after[n + 1])
    OBVIOUS
  <2>1. n \in 0 .. m /\ n + 1 \in 1 .. m /\ (n + 1) - 1 = n /\ n + 1 # 0
    BY <1>1
  <2>2. IsSplit(s, n, after[n])
    BY <1>12, <2>1
  <2>3. after[n + 1] = SplitArg(after[n], s[n + 1])
    BY <1>10, <2>1
  <2>4. QED  BY <2>1, <2>2, <2>3, SplitArgStep DEF m
<1> HIDE DEF T
<1>13. m \in T
  BY <1>1, <1>11, <1>12, EveryNatural
<1>14. QED  BY <1>1, <1>6, <1>13 DEF T, m

(* The variables of the macro hold what is computed from its list.         *)
SplitInv ==
  what = "macro" => /\ flat = FLATTEN(interface.specs)
                    /\ split = FUNCTION_SPLIT_ARGS(FLATTEN(interface.specs))

(* For every list of parameters, of any length and nesting, flattening     *)
(* keeps all of them in order, split_args.hpp puts each one behind those of*)
(* its kind that come before it, and counts what arity_range.hpp counts.   *)
THEOREM SplitsAgree == Spec => []SplitAgreesWithRange
<1>1. Init => SplitInv
  BY DEF Init, SplitInv
<1>2. SplitInv /\ [Next]_vars => SplitInv'
  <2> SUFFICES ASSUME SplitInv, [Next]_vars
               PROVE  SplitInv'
    OBVIOUS
  <2>1. CASE BeginMacro
    BY <2>1 DEF BeginMacro, SplitInv
  <2>2. CASE UNCHANGED <<interface, flat, split, what>>
    BY <2>2 DEF SplitInv
  <2>3. ~BeginMacro => UNCHANGED <<interface, flat, split, what>>
    BY DEF Next, Expansion, DeclareOne, DeclareNone, EnterBinarySeq, FailExpansion,
           ExpandFor, NextFor, LeaveBinarySeq, EndMacro, Call, CallOperator,
           ConstructNode, ConstructTerminator, vars, declVars, callVars
  <2>4. QED  BY <2>1, <2>2, <2>3
<1>3. OverloadsInv /\ SplitInv => SplitAgreesWithRange
  <2> SUFFICES ASSUME OverloadsInv, SplitInv, what = "macro", interface.kind = "function"
               PROVE  SplitAgreesWithRange
    BY DEF SplitAgreesWithRange
  <2>1. /\ flat = FLATTEN(interface.specs) /\ split = FUNCTION_SPLIT_ARGS(flat)
        /\ interface \in Interfaces /\ range = RangeOf("macro")
    BY DEF SplitInv, OverloadsInv, ControlInv
  <2>2. interface.specs \in SpecSequences
    BY <2>1, InterfacesAssumption DEF InterfacesAssumption
  <2>3. /\ flat \in Seq(FlatSpecs)
        /\ NamesOf(flat) = FlattenSeq([g \in DOMAIN interface.specs |->
                                         WrittenIn(interface.specs[g])])
    BY <2>1, <2>2, FlattenedList
  <2>4. range = <<RequiredUpTo(flat, Len(flat)), Len(flat) + 1>>
    BY <2>1 DEF RangeOf, MacroRange, RangeOfMacro, ARITY_RANGE, RequiredUpTo, RequiredQualifiers
  <2>5. IsSplit(flat, Len(flat), split)
    BY <2>1, <2>3, SplitArguments
  <2> DEFINE r(j) == RequiredUpTo(flat, j)
             n == Len(flat)
  <2>6. n \in Nat /\ r(n) \in 0 .. n
    BY <2>3, RequiredAreCountedUp
  <2>7. /\ split.reqCount = r(n) /\ Len(split.req) = r(n)
        /\ split.optCount = n - r(n) /\ Len(split.opt) = n - r(n)
        /\ \A j \in 1 .. n : IF flat[j].qual \in RequiredQualifiers
                            THEN split.req[r(j)] = flat[j]
                            ELSE split.opt[j - r(j)] = flat[j]
    BY <2>5 DEF IsSplit
  <2>8. range = <<split.reqCount, split.reqCount + split.optCount + 1>>
    <3>1. range = <<r(n), n + 1>>
      BY <2>4
    <3> HIDE DEF r, n
    <3>2. r(n) + (n - r(n)) + 1 = n + 1
      BY <2>6
    <3>3. QED  BY <2>7, <3>1, <3>2
  <2>9. [j \in DOMAIN flat |-> flat[j].name] =
          FlattenSeq([g \in DOMAIN interface.specs |->
                        IF interface.specs[g].qual = "deduced"
                        THEN FlattenSeq([h \in DOMAIN interface.specs[g].groups |->
                                           interface.specs[g].groups[h].names])
                        ELSE interface.specs[g].names])
    BY <2>3 DEF NamesOf, WrittenIn
  <2>10. QED
    BY <2>7, <2>8, <2>9 DEF SplitAgreesWithRange, RequiredUpTo
<1>4. QED  BY <1>1, <1>2, <1>3, OverloadsInvariant, PTL DEF Spec

=============================================================================
