----------------------------- MODULE KeywordMap -----------------------------
(***************************************************************************)
(* What an argument pack promises to the function that reads it, whichever *)
(* way the pack was made: it is a finite map from keywords to arguments.   *)
(* It can be read only if no keyword was given twice; then each lookup     *)
(* answers with the argument given for the keyword, or with the default if *)
(* there is none or if the argument is an optional value that is empty.    *)
(* There is no answer where none is right, and reading changes nothing.    *)
(***************************************************************************)
EXTENDS Integers

CONSTANT Keys

VARIABLES
  phase,   \* giving | reading | over | refused
  total,   \* how many arguments were given
  given,   \* given[k]: those for k, [arg, empty]
  answer   \* to the last lookup

vars == <<phase, total, given, answer>>

Ways == {"keyword", "default", "lazy"}

(* An answer is the number of an argument, 0 for the default.              *)
Default == 0

NoAnswer == [key |-> "none", way |-> "none", arg |-> Default]

Init ==
  /\ phase = "giving"
  /\ total = 0
  /\ given = [k \in Keys |-> {}]
  /\ answer = NoAnswer

(* An argument; it may be refused at once.                                 *)
Give(k) ==
  /\ phase = "giving"
  /\ total' = total + 1
  /\ \E empty \in BOOLEAN :
       given' = [given EXCEPT ![k] = @ \cup {[arg |-> total + 1, empty |-> empty]}]
  /\ phase' \in {"giving", "refused"}
  /\ UNCHANGED answer

Open ==
  /\ phase = "giving"
  /\ \A k \in Keys : \A g, h \in given[k] : g = h
  /\ phase' = "reading"
  /\ UNCHANGED <<total, given, answer>>

(* The answer to a lookup of k, without a default or with one of two kinds.*)
Answers(k, way) ==
  IF given[k] = {} THEN IF way = "keyword" THEN {} ELSE {Default}
  ELSE {IF g.empty THEN Default ELSE g.arg : g \in {h \in given[k] : h.empty => way = "default"}}

Lookup(k, way) ==
  /\ phase = "reading"
  /\ \E a \in Answers(k, way) : answer' = [key |-> k, way |-> way, arg |-> a]
  /\ UNCHANGED <<phase, total, given>>

Close ==
  /\ phase = "reading"
  /\ phase' = "over"
  /\ UNCHANGED <<total, given, answer>>

(* The expression does not compile: nothing is read.                       *)
Refuse ==
  /\ phase \in {"giving", "reading"}
  /\ phase' = "refused"
  /\ answer' = NoAnswer
  /\ UNCHANGED <<total, given>>

Next ==
  \/ \E k \in Keys : Give(k)
  \/ Open
  \/ \E k \in Keys, way \in Ways : Lookup(k, way)
  \/ Close
  \/ Refuse

Spec == Init /\ [][Next]_vars

=============================================================================
