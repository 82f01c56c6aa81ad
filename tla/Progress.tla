------------------------------ MODULE Progress ------------------------------
(***************************************************************************)
(* How a computation that ends is measured: by a tuple of natural numbers  *)
(* that every step makes smaller, the first component weighing most.       *)
(***************************************************************************)
EXTENDS Integers

(* The lexicographic order of tuples of n natural numbers.                 *)
Descends(n, before, after) ==
  /\ before \in [1 .. n -> Nat]
  /\ after \in [1 .. n -> Nat]
  /\ \E j \in 1 .. n :
       /\ \A l \in 1 .. (j - 1) : after[l] = before[l]
       /\ after[j] < before[j]

=============================================================================
