----------------------------- MODULE BinarySeq -----------------------------
(***************************************************************************)
(* The preprocessor arithmetic behind the overloads of the build without   *)
(* perfect forwarding: a sequence of 0s and 1s says which parameters of an *)
(* overload are const& (0) and which are & (1), and hand-unrolled tables   *)
(* drive BOOST_PP_FOR through all of them.  A BOOST_PP sequence is a TLA+  *)
(* sequence; its head is the user's data, its tail the bits, low bit first.*)
(***************************************************************************)
EXTENDS Integers, Sequences

CONSTANT Data

(* One digit of the increment: keep it once the carry is gone, else flip   *)
(* it.                                                                     *)
INC_BINARY_SEQ_OP(carry, element) ==
  IF carry = 0 THEN element ELSE 1 - element

(* The carry of the fold when it comes to digit j: it starts as 1, and     *)
(* becomes the digit that was flipped, so it stays until it meets a 0.     *)
CarryInto(seq, j) == IF \A i \in 1 .. j - 1 : seq[i] = 1 THEN 1 ELSE 0

(* The next value up; all 1s become all 0s and one more 0.                 *)
INC_BINARY_SEQ(seq) ==
  LET flipped == [j \in 1 .. Len(seq) |-> INC_BINARY_SEQ_OP(CarryInto(seq, j), seq[j])]
  IN  IF CarryInto(seq, Len(seq) + 1) = 1 THEN Append(flipped, 0) ELSE flipped

SEQ_MERGE(seq0, seq1) == seq0 \o seq1

(* BOOST_PP_SEQ_FIRST_N and REST_N.                                        *)
FirstN(k, seq) == SubSeq(seq, 1, k)
RestN(k, seq) == SubSeq(seq, k + 1, Len(seq))

(* How many elements INC_k_N puts back in front of what it incremented.    *)
(* INC_141_N, which no table uses, takes 11 where it drops 141.            *)
Kept(k) == IF k = 141 THEN 11 ELSE k

(* INC_k_N: leave the data and the first k - 1 digits, increment the rest. *)
INC_N(k, seq) ==
  SEQ_MERGE(FirstN(Kept(k), seq), INC_BINARY_SEQ(RestN(k, seq)))

(* FOR_EACH_PRED_n: stop at n + 1 elements.                                *)
FOR_EACH_PRED(n, seq) == n + 1 # Len(seq)

-----------------------------------------------------------------------------
(* The tables.  Up to 7 digits one BOOST_PP_FOR goes through all           *)
(* combinations.  Beyond, there is one BOOST_PP_FOR for each value of the  *)
(* low digits, listed here in the order of the file; each starts with 0    *)
(* in the 7 others.                                                        *)

BINARY_SEQ_FOR_EACH_8 ==
  << <<0>>, <<1>> >>

BINARY_SEQ_FOR_EACH_9 ==
  << <<0,0>>, <<1,0>>, <<0,1>>, <<1,1>> >>

BINARY_SEQ_FOR_EACH_10 ==
  << <<0,0,0>>, <<1,0,0>>, <<0,1,0>>, <<1,1,0>>, <<0,0,1>>, <<1,0,1>>,
     <<0,1,1>>, <<1,1,1>> >>

BINARY_SEQ_FOR_EACH_11 ==
  << <<0,0,0,0>>, <<1,0,0,0>>, <<0,1,0,0>>, <<1,1,0,0>>, <<0,0,1,0>>,
     <<1,0,1,0>>, <<0,1,1,0>>, <<1,1,1,0>>, <<0,0,0,1>>, <<1,0,0,1>>,
     <<0,1,0,1>>, <<1,1,0,1>>, <<0,0,1,1>>, <<1,0,1,1>>, <<0,1,1,1>>,
     <<1,1,1,1>> >>

BINARY_SEQ_FOR_EACH_12 ==
  << <<0,0,0,0,0>>, <<1,0,0,0,0>>, <<0,1,0,0,0>>, <<1,1,0,0,0>>,
     <<0,0,1,0,0>>, <<1,0,1,0,0>>, <<0,1,1,0,0>>, <<1,1,1,0,0>>,
     <<0,0,0,1,0>>, <<1,0,0,1,0>>, <<0,1,0,1,0>>, <<1,1,0,1,0>>,
     <<0,0,1,1,0>>, <<1,0,1,1,0>>, <<0,1,1,1,0>>, <<1,1,1,1,0>>,
     <<0,0,0,0,1>>, <<1,0,0,0,1>>, <<0,1,0,0,1>>, <<1,1,0,0,1>>,
     <<0,0,1,0,1>>, <<1,0,1,0,1>>, <<0,1,1,0,1>>, <<1,1,1,0,1>>,
     <<0,0,0,1,1>>, <<1,0,0,1,1>>, <<0,1,0,1,1>>, <<1,1,0,1,1>>,
     <<0,0,1,1,1>>, <<1,0,1,1,1>>, <<0,1,1,1,1>>, <<1,1,1,1,1>> >>

BINARY_SEQ_FOR_EACH_13 ==
  << <<0,0,0,0,0,0>>, <<1,0,0,0,0,0>>, <<0,1,0,0,0,0>>, <<1,1,0,0,0,0>>,
     <<0,0,1,0,0,0>>, <<1,0,1,0,0,0>>, <<0,1,1,0,0,0>>, <<1,1,1,0,0,0>>,
     <<0,0,0,1,0,0>>, <<1,0,0,1,0,0>>, <<0,1,0,1,0,0>>, <<1,1,0,1,0,0>>,
     <<0,0,1,1,0,0>>, <<1,0,1,1,0,0>>, <<0,1,1,1,0,0>>, <<1,1,1,1,0,0>>,
     <<0,0,0,0,1,0>>, <<1,0,0,0,1,0>>, <<0,1,0,0,1,0>>, <<1,1,0,0,1,0>>,
     <<0,0,1,0,1,0>>, <<1,0,1,0,1,0>>, <<0,1,1,0,1,0>>, <<1,1,1,0,1,0>>,
     <<0,0,0,1,1,0>>, <<1,0,0,1,1,0>>, <<0,1,0,1,1,0>>, <<1,1,0,1,1,0>>,
     <<0,0,1,1,1,0>>, <<1,0,1,1,1,0>>, <<0,1,1,1,1,0>>, <<1,1,1,1,1,0>>,
     <<0,0,0,0,0,1>>, <<1,0,0,0,0,1>>, <<0,1,0,0,0,1>>, <<1,1,0,0,0,1>>,
     <<0,0,1,0,0,1>>, <<1,0,1,0,0,1>>, <<0,1,1,0,0,1>>, <<1,1,1,0,0,1>>,
     <<0,0,0,1,0,1>>, <<1,0,0,1,0,1>>, <<0,1,0,1,0,1>>, <<1,1,0,1,0,1>>,
     <<0,0,1,1,0,1>>, <<1,0,1,1,0,1>>, <<0,1,1,1,0,1>>, <<1,1,1,1,0,1>>,
     <<0,0,0,0,1,1>>, <<1,0,0,0,1,1>>, <<0,1,0,0,1,1>>, <<1,1,0,0,1,1>>,
     <<0,0,1,0,1,1>>, <<1,0,1,0,1,1>>, <<0,1,1,0,1,1>>, <<1,1,1,0,1,1>>,
     <<0,0,0,1,1,1>>, <<1,0,0,1,1,1>>, <<0,1,0,1,1,1>>, <<1,1,0,1,1,1>>,
     <<0,0,1,1,1,1>>, <<1,0,1,1,1,1>>, <<0,1,1,1,1,1>>, <<1,1,1,1,1,1>> >>

BINARY_SEQ_FOR_EACH_14 ==
  << <<0,0,0,0,0,0,0>>, <<1,0,0,0,0,0,0>>, <<0,1,0,0,0,0,0>>,
     <<1,1,0,0,0,0,0>>, <<0,0,1,0,0,0,0>>, <<1,0,1,0,0,0,0>>,
     <<0,1,1,0,0,0,0>>, <<1,1,1,0,0,0,0>>, <<0,0,0,1,0,0,0>>,
     <<1,0,0,1,0,0,0>>, <<0,1,0,1,0,0,0>>, <<1,1,0,1,0,0,0>>,
     <<0,0,1,1,0,0,0>>, <<1,0,1,1,0,0,0>>, <<0,1,1,1,0,0,0>>,
     <<1,1,1,1,0,0,0>>, <<0,0,0,0,1,0,0>>, <<1,0,0,0,1,0,0>>,
     <<0,1,0,0,1,0,0>>, <<1,1,0,0,1,0,0>>, <<0,0,1,0,1,0,0>>,
     <<1,0,1,0,1,0,0>>, <<0,1,1,0,1,0,0>>, <<1,1,1,0,1,0,0>>,
     <<0,0,0,1,1,0,0>>, <<1,0,0,1,1,0,0>>, <<0,1,0,1,1,0,0>>,
     <<1,1,0,1,1,0,0>>, <<0,0,1,1,1,0,0>>, <<1,0,1,1,1,0,0>>,
     <<0,1,1,1,1,0,0>>, <<1,1,1,1,1,0,0>>, <<0,0,0,0,0,1,0>>,
     <<1,0,0,0,0,1,0>>, <<0,1,0,0,0,1,0>>, <<1,1,0,0,0,1,0>>,
     <<0,0,1,0,0,1,0>>, <<1,0,1,0,0,1,0>>, <<0,1,1,0,0,1,0>>,
     <<1,1,1,0,0,1,0>>, <<0,0,0,1,0,1,0>>, <<1,0,0,1,0,1,0>>,
     <<0,1,0,1,0,1,0>>, <<1,1,0,1,0,1,0>>, <<0,0,1,1,0,1,0>>,
     <<1,0,1,1,0,1,0>>, <<0,1,1,1,0,1,0>>, <<1,1,1,1,0,1,0>>,
     <<0,0,0,0,1,1,0>>, <<1,0,0,0,1,1,0>>, <<0,1,0,0,1,1,0>>,
     <<1,1,0,0,1,1,0>>, <<0,0,1,0,1,1,0>>, <<1,0,1,0,1,1,0>>,
     <<0,1,1,0,1,1,0>>, <<1,1,1,0,1,1,0>>, <<0,0,0,1,1,1,0>>,
     <<1,0,0,1,1,1,0>>, <<0,1,0,1,1,1,0>>, <<1,1,0,1,1,1,0>>,
     <<0,0,1,1,1,1,0>>, <<1,0,1,1,1,1,0>>, <<0,1,1,1,1,1,0>>,
     <<1,1,1,1,1,1,0>>, <<0,0,0,0,0,0,1>>, <<1,0,0,0,0,0,1>>,
     <<0,1,0,0,0,0,1>>, <<1,1,0,0,0,0,1>>, <<0,0,1,0,0,0,1>>,
     <<1,0,1,0,0,0,1>>, <<0,1,1,0,0,0,1>>, <<1,1,1,0,0,0,1>>,
     <<0,0,0,1,0,0,1>>, <<1,0,0,1,0,0,1>>, <<0,1,0,1,0,0,1>>,
     <<1,1,0,1,0,0,1>>, <<0,0,1,1,0,0,1>>, <<1,0,1,1,0,0,1>>,
     <<0,1,1,1,0,0,1>>, <<1,1,1,1,0,0,1>>, <<0,0,0,0,1,0,1>>,
     <<1,0,0,0,1,0,1>>, <<0,1,0,0,1,0,1>>, <<1,1,0,0,1,0,1>>,
     <<0,0,1,0,1,0,1>>, <<1,0,1,0,1,0,1>>, <<0,1,1,0,1,0,1>>,
     <<1,1,1,0,1,0,1>>, <<0,0,0,1,1,0,1>>, <<1,0,0,1,1,0,1>>,
     <<0,1,0,1,1,0,1>>, <<1,1,0,1,1,0,1>>, <<0,0,1,1,1,0,1>>,
     <<1,0,1,1,1,0,1>>, <<0,1,1,1,1,0,1>>, <<1,1,1,1,1,0,1>>,
     <<0,0,0,0,0,1,1>>, <<1,0,0,0,0,1,1>>, <<0,1,0,0,0,1,1>>,
     <<1,1,0,0,0,1,1>>, <<0,0,1,0,0,1,1>>, <<1,0,1,0,0,1,1>>,
     <<0,1,1,0,0,1,1>>, <<1,1,1,0,0,1,1>>, <<0,0,0,1,0,1,1>>,
     <<1,0,0,1,0,1,1>>, <<0,1,0,1,0,1,1>>, <<1,1,0,1,0,1,1>>,
     <<0,0,1,1,0,1,1>>, <<1,0,1,1,0,1,1>>, <<0,1,1,1,0,1,1>>,
     <<1,1,1,1,0,1,1>>, <<0,0,0,0,1,1,1>>, <<1,0,0,0,1,1,1>>,
     <<0,1,0,0,1,1,1>>, <<1,1,0,0,1,1,1>>, <<0,0,1,0,1,1,1>>,
     <<1,0,1,0,1,1,1>>, <<0,1,1,0,1,1,1>>, <<1,1,1,0,1,1,1>>,
     <<0,0,0,1,1,1,1>>, <<1,0,0,1,1,1,1>>, <<0,1,0,1,1,1,1>>,
     <<1,1,0,1,1,1,1>>, <<0,0,1,1,1,1,1>>, <<1,0,1,1,1,1,1>>,
     <<0,1,1,1,1,1,1>>, <<1,1,1,1,1,1,1>> >>

MaxBinaryArity == 14

(* The low digits each BOOST_PP_FOR of BINARY_SEQ_FOR_EACH_n starts from.  *)
StartDigits(n) ==
  CASE n <= 7  -> << << >> >>
    [] n = 8  -> BINARY_SEQ_FOR_EACH_8
    [] n = 9  -> BINARY_SEQ_FOR_EACH_9
    [] n = 10 -> BINARY_SEQ_FOR_EACH_10
    [] n = 11 -> BINARY_SEQ_FOR_EACH_11
    [] n = 12 -> BINARY_SEQ_FOR_EACH_12
    [] n = 13 -> BINARY_SEQ_FOR_EACH_13
    [] n = 14 -> BINARY_SEQ_FOR_EACH_14

FixedDigits(n) == IF n <= 7 THEN 0 ELSE n - 7

(* Fault: the second BOOST_PP_FOR of _9 repeats the first.                 *)
RepeatedBlockStart(n, block) ==
  <<Data>> \o StartDigits(n)[IF n = 9 /\ block = 2 THEN 1 ELSE block]
           \o [j \in 1 .. n - FixedDigits(n) |-> 0]

(* (data)(prefix)(0)...(0)                                                 *)
ForStart(n, block) ==
  <<Data>> \o StartDigits(n)[block] \o [j \in 1 .. n - FixedDigits(n) |-> 0]

(* Fault: one BOOST_PP_FOR for all the digits.                             *)
ForNextWhole(n, seq) == INC_N(1, seq)

(* The operation the BOOST_PP_FORs of BINARY_SEQ_FOR_EACH_n are given.     *)
ForNext(n, seq) == INC_N(FixedDigits(n) + 1, seq)

-----------------------------------------------------------------------------
(* BINARY_SEQ_TO_ARG_0, _1: one formal parameter.                          *)
BINARY_SEQ_TO_ARG(bit) == IF bit = 1 THEN "&" ELSE "const&"

(* BINARY_SEQ_TO_ARGS: the formal parameters of an overload, in order.     *)
BINARY_SEQ_TO_ARGS(bits) == [j \in DOMAIN bits |-> BINARY_SEQ_TO_ARG(bits[j])]
=============================================================================
