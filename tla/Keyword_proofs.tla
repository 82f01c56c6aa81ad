--------------------------- MODULE Keyword_proofs --------------------------
(***************************************************************************)
(* What the overload resolution among the operators of a keyword comes to, *)
(* for every qualifier and every expression, and what follows for the      *)
(* arguments and defaults they make.                                       *)
(***************************************************************************)
EXTENDS Keyword, TLAPS

(* The best operator is the first in the order of preference.              *)
LEMMA FirstEnabledIsBest ==
  ASSUME NEW e, NEW enabled, NEW a, NEW b, NEW c, Preference(e) = <<a, b, c>>
  PROVE  BestOf(e, enabled) = IF a \in enabled THEN a
                              ELSE IF b \in enabled THEN b
                              ELSE IF c \in enabled THEN c
                              ELSE NoOperator
<1> DEFINE viable == {p \in 1..3 : <<a, b, c>>[p] \in enabled}
           first  == CHOOSE p \in viable : \A r \in viable : p <= r
<1>1. BestOf(e, enabled) = IF viable = {} THEN NoOperator ELSE <<a, b, c>>[first]
  BY DEF BestOf
<1>2. <<a, b, c>>[1] = a /\ <<a, b, c>>[2] = b /\ <<a, b, c>>[3] = c
  OBVIOUS
<1>3. ASSUME NEW n \in viable, \A r \in viable : n <= r
      PROVE  first = n
  <2>1. first \in viable /\ \A r \in viable : first <= r
    BY <1>3
  <2> QED BY <1>3, <2>1
<1> HIDE DEF first
<1>4. CASE a \in enabled
  <2>1. 1 \in viable /\ \A r \in viable : 1 <= r
    BY <1>2, <1>4
  <2> QED BY <1>1, <1>2, <1>3, <1>4, <2>1
<1>5. CASE a \notin enabled /\ b \in enabled
  <2>1. 2 \in viable /\ \A r \in viable : 2 <= r
    BY <1>2, <1>5
  <2> QED BY <1>1, <1>2, <1>3, <1>5, <2>1
<1>6. CASE a \notin enabled /\ b \notin enabled /\ c \in enabled
  <2>1. 3 \in viable /\ \A r \in viable : 3 <= r
    BY <1>2, <1>6
  <2> QED BY <1>1, <1>2, <1>3, <1>6, <2>1
<1>7. CASE a \notin enabled /\ b \notin enabled /\ c \notin enabled
  <2>1. viable = {}
    BY <1>2, <1>7
  <2> QED BY <1>1, <1>7, <2>1
<1> QED BY <1>4, <1>5, <1>6, <1>7

(* The operators an expression may be given to.                            *)
Assigning(perfect, q, e) == {p \in Operators(perfect) : AssignEnabled(p, q, e)}

(* operator| is enabled where operator= is.                                *)
LEMMA DefaultsAreHeldAlike ==
  ASSUME NEW perfect, NEW q, NEW e
  PROVE  {p \in Operators(perfect) : DefaultEnabled(p, q, e)} = Assigning(perfect, q, e)
<1>1. \A p \in {"const&", "&", "const&&", "&&"} : DefaultEnabled(p, q, e) <=> AssignEnabled(p, q, e)
  BY DEF DefaultEnabled, AssignEnabled, DefaultConstLvalue, AssignConstLvalue, DefaultLvalue,
         AssignLvalue, DefaultConstRvalue, AssignConstRvalue, DefaultRvalue, AssignRvalue
<1> QED BY <1>1 DEF Assigning, Operators

(* Which assignment operators a keyword offers for an expression, by its   *)
(* category and whether it is scalar.                                      *)
LEMMA EnabledOperators ==
  ASSUME NEW perfect \in BOOLEAN, NEW q \in Qualifiers, NEW e \in Expression
  PROVE  LET A == Assigning(perfect, q, e) IN
         /\ "const&" \in A <=> IsScalar(e) \/ q \in {"in", "forward"}
         /\ "&" \in A <=> q \in {"out", "forward"} /\ ~e.const
         /\ "const&&" \in A <=> perfect /\ ~IsScalar(e) /\ q \in {"in", "forward"}
         /\ "&&" \in A <=> perfect /\ ~(IsScalar(e) /\ e.rvalue) /\ q \in {"consume", "forward"}
<1>1. CASE perfect = TRUE
  BY <1>1 DEF Assigning, Operators, AssignEnabled, AssignConstLvalue, AssignLvalue,
              AssignConstRvalue, AssignRvalue
<1>2. CASE perfect = FALSE
  BY <1>2 DEF Assigning, Operators, AssignEnabled, AssignConstLvalue, AssignLvalue
<1> QED BY <1>1, <1>2

(* The operator that takes an expression, category by category.            *)
BestAssign(perfect, q, e) == BestOf(e, Assigning(perfect, q, e))

(* A mutable lvalue.                                                       *)
LEMMA BestForMutableLvalue ==
  ASSUME NEW perfect \in BOOLEAN, NEW q \in Qualifiers, NEW e \in Expression,
         ~e.rvalue, ~e.const
  PROVE  BestAssign(perfect, q, e) =
           IF q \in {"out", "forward"} THEN "&"
           ELSE IF q = "consume" /\ perfect THEN "&&"
           ELSE IF q = "in" \/ IsScalar(e) THEN "const&"
           ELSE NoOperator
<1>1. Preference(e) = <<"&", "&&", "const&">>
  BY DEF Preference
<1> QED BY <1>1, FirstEnabledIsBest, EnabledOperators DEF BestAssign, Qualifiers

(* A const lvalue.                                                         *)
LEMMA BestForConstLvalue ==
  ASSUME NEW perfect \in BOOLEAN, NEW q \in Qualifiers, NEW e \in Expression,
         ~e.rvalue, e.const
  PROVE  BestAssign(perfect, q, e) =
           IF IsScalar(e) \/ q \in {"in", "forward"} THEN "const&"
           ELSE IF q = "consume" /\ perfect THEN "&&"
           ELSE NoOperator
<1>1. Preference(e) = <<"const&", "&", "&&">>
  BY DEF Preference
<1> QED BY <1>1, FirstEnabledIsBest, EnabledOperators DEF BestAssign, Qualifiers

(* A mutable rvalue.                                                       *)
LEMMA BestForMutableRvalue ==
  ASSUME NEW perfect \in BOOLEAN, NEW q \in Qualifiers, NEW e \in Expression,
         e.rvalue, ~e.const
  PROVE  BestAssign(perfect, q, e) =
           IF IsScalar(e) THEN "const&"
           ELSE IF perfect /\ q \in {"consume", "forward"} THEN "&&"
           ELSE IF perfect /\ q = "in" THEN "const&&"
           ELSE IF q \in {"in", "forward"} THEN "const&"
           ELSE NoOperator
<1>1. Preference(e) = <<"&&", "const&&", "const&">>
  BY DEF Preference
<1> QED BY <1>1, FirstEnabledIsBest, EnabledOperators DEF BestAssign, Qualifiers

(* A const rvalue.                                                         *)
LEMMA BestForConstRvalue ==
  ASSUME NEW perfect \in BOOLEAN, NEW q \in Qualifiers, NEW e \in Expression,
         e.rvalue, e.const
  PROVE  BestAssign(perfect, q, e) =
           IF IsScalar(e) THEN "const&"
           ELSE IF perfect /\ q \in {"in", "forward"} THEN "const&&"
           ELSE IF perfect /\ q = "consume" THEN "&&"
           ELSE IF q \in {"in", "forward"} THEN "const&"
           ELSE NoOperator
<1>1. Preference(e) = <<"const&&", "&&", "const&">>
  BY DEF Preference
<1> QED BY <1>1, FirstEnabledIsBest, EnabledOperators DEF BestAssign, Qualifiers

-----------------------------------------------------------------------------
(* What the operators of a keyword refuse.                                 *)
Refuses(perfect, q, e) ==
  /\ ~IsScalar(e)
  /\ \/ q = "out" /\ (e.rvalue \/ e.const)
     \/ q = "consume" /\ ~perfect

(* No operator takes an expression exactly if the category refuses it.     *)
LEMMA RefusedByAll ==
  ASSUME NEW perfect \in BOOLEAN, NEW q \in Qualifiers, NEW e \in Expression
  PROVE  BestAssign(perfect, q, e) = NoOperator <=> Refuses(perfect, q, e)
<1>1. "&" # NoOperator /\ "&&" # NoOperator /\ "const&" # NoOperator /\ "const&&" # NoOperator
  BY DEF NoOperator
<1>2. e.rvalue \in BOOLEAN /\ e.const \in BOOLEAN
  BY DEF Expression
<1>3. CASE ~e.rvalue /\ ~e.const
  BY <1>1, <1>2, <1>3, BestForMutableLvalue DEF Refuses, Qualifiers, IsScalar
<1>4. CASE ~e.rvalue /\ e.const
  BY <1>1, <1>2, <1>4, BestForConstLvalue DEF Refuses, Qualifiers, IsScalar
<1>5. CASE e.rvalue /\ ~e.const
  BY <1>1, <1>2, <1>5, BestForMutableRvalue DEF Refuses, Qualifiers, IsScalar
<1>6. CASE e.rvalue /\ e.const
  BY <1>1, <1>2, <1>6, BestForConstRvalue DEF Refuses, Qualifiers, IsScalar
<1> QED BY <1>2, <1>3, <1>4, <1>5, <1>6

(* The constness and the category that reach the operator's parameter.     *)
PassedConst(perfect, q, e) ==
  \/ e.const
  \/ q = "in"
  \/ q = "consume" /\ ~perfect
  \/ e.rvalue /\ (IsScalar(e) \/ ~perfect)

(* Whether the operator that takes an expression sees an rvalue.           *)
PassedRvalue(perfect, e) == perfect /\ e.rvalue /\ ~IsScalar(e)

(* What the operator that takes an expression deduces of it.               *)
LEMMA PassedAs ==
  ASSUME NEW perfect \in BOOLEAN, NEW q \in Qualifiers, NEW e \in Expression,
         ~Refuses(perfect, q, e)
  PROVE  Deduced(BestAssign(perfect, q, e), e) =
           [rvalue |-> PassedRvalue(perfect, e), const |-> PassedConst(perfect, q, e),
            type |-> e.type, wrapper |-> e.wrapper]
<1> DEFINE o == BestAssign(perfect, q, e)
           d == Deduced(o, e)
<1>1. /\ e.rvalue \in BOOLEAN /\ e.const \in BOOLEAN
      /\ e = [rvalue |-> e.rvalue, const |-> e.const, type |-> e.type, wrapper |-> e.wrapper]
  BY DEF Expression
<1>2. /\ o = "const&" => d = [rvalue |-> FALSE, const |-> TRUE, type |-> e.type, wrapper |-> e.wrapper]
      /\ o = "const&&" => d = [rvalue |-> e.rvalue, const |-> TRUE, type |-> e.type, wrapper |-> e.wrapper]
      /\ o \in {"&", "&&"} => d = [rvalue |-> e.rvalue, const |-> e.const, type |-> e.type, wrapper |-> e.wrapper]
  <2>1. /\ o = "const&" => d = [e EXCEPT !.rvalue = FALSE, !.const = TRUE]
        /\ o = "const&&" => d = [e EXCEPT !.const = TRUE]
        /\ o \in {"&", "&&"} => d = e
    BY DEF Deduced
  <2> HIDE DEF d, o
  <2> QED BY <1>1, <2>1
<1>3. /\ PassedRvalue(perfect, e) \in BOOLEAN
      /\ PassedConst(perfect, q, e) \in BOOLEAN
  BY <1>1 DEF PassedRvalue, PassedConst
<1>4. /\ o \in {"const&", "const&&", "&", "&&"}
      /\ o = "const&" => ~PassedRvalue(perfect, e) /\ PassedConst(perfect, q, e)
      /\ o = "const&&" => (PassedRvalue(perfect, e) <=> e.rvalue) /\ PassedConst(perfect, q, e)
      /\ o \in {"&", "&&"} => /\ PassedRvalue(perfect, e) <=> e.rvalue
                              /\ PassedConst(perfect, q, e) <=> e.const
  <2> HIDE DEF d
  <2>1. CASE ~e.rvalue /\ ~e.const
    BY <1>1, <2>1, BestForMutableLvalue DEF Refuses, Qualifiers, PassedRvalue, PassedConst, IsScalar
  <2>2. CASE ~e.rvalue /\ e.const
    BY <1>1, <2>2, BestForConstLvalue DEF Refuses, Qualifiers, PassedRvalue, PassedConst, IsScalar
  <2>3. CASE e.rvalue /\ ~e.const
    BY <1>1, <2>3, BestForMutableRvalue DEF Refuses, Qualifiers, PassedRvalue, PassedConst, IsScalar
  <2>4. CASE e.rvalue /\ e.const
    BY <1>1, <2>4, BestForConstRvalue DEF Refuses, Qualifiers, PassedRvalue, PassedConst, IsScalar
  <2> QED BY <1>1, <2>1, <2>2, <2>3, <2>4
<1>5. /\ o = "const&" => PassedRvalue(perfect, e) = FALSE /\ PassedConst(perfect, q, e) = TRUE
      /\ o = "const&&" => PassedRvalue(perfect, e) = e.rvalue /\ PassedConst(perfect, q, e) = TRUE
      /\ o \in {"&", "&&"} => /\ PassedRvalue(perfect, e) = e.rvalue
                              /\ PassedConst(perfect, q, e) = e.const
  BY <1>1, <1>3, <1>4
<1> HIDE DEF o, d
<1>6. d = [rvalue |-> PassedRvalue(perfect, e), const |-> PassedConst(perfect, q, e),
           type |-> e.type, wrapper |-> e.wrapper]
  <2>1. CASE o = "const&"
    BY <1>2, <1>5, <2>1
  <2>2. CASE o = "const&&"
    BY <1>2, <1>5, <2>2
  <2>3. CASE o \in {"&", "&&"}
    BY <1>2, <1>5, <2>3
  <2> QED BY <1>4, <2>1, <2>2, <2>3
<1> QED BY <1>6 DEF d, o

-----------------------------------------------------------------------------
(* Tags.                                                                   *)
Tag == [rref : BOOLEAN, type : {"scalar", "class", "maybe"}, const : BOOLEAN]

(* The tagged argument for an expression that reaches the library with     *)
(* the given constness.                                                    *)
TagOf(perfect, e, const) ==
  [rref  |-> PassedRvalue(perfect, e) /\ e.wrapper = "no",
   type  |-> e.type,
   const |-> IF e.wrapper = "no" THEN const ELSE e.wrapper = "cref"]

(* Whether a positional argument is const for the pack.                    *)
PlacedConst(perfect, e) ==
  \/ e.const
  \/ e.rvalue /\ (IsScalar(e) \/ ~perfect)

(* A named argument is refused, or gets the tag of its expression.         *)
LEMMA NamedIsTagged ==
  ASSUME NEW perfect \in BOOLEAN, NEW q \in Qualifiers, NEW e \in Expression
  PROVE  Named(perfect, q, e) =
           IF Refuses(perfect, q, e) THEN None ELSE TagOf(perfect, e, PassedConst(perfect, q, e))
<1> DEFINE d == Deduced(BestAssign(perfect, q, e), e)
<1>1. Named(perfect, q, e) = IF Refuses(perfect, q, e) THEN None ELSE tag(d)
  BY RefusedByAll DEF Named, BestAssign, Assigning
<1>2. ASSUME ~Refuses(perfect, q, e)
      PROVE  tag(d) = TagOf(perfect, e, PassedConst(perfect, q, e))
  <2>1. d = [rvalue |-> PassedRvalue(perfect, e), const |-> PassedConst(perfect, q, e),
             type |-> e.type, wrapper |-> e.wrapper]
    BY <1>2, PassedAs
  <2> HIDE DEF d
  <2>2. /\ d.rvalue = PassedRvalue(perfect, e) /\ d.const = PassedConst(perfect, q, e)
        /\ d.type = e.type /\ d.wrapper = e.wrapper
    BY <2>1
  <2>3. IsScalar(d) <=> IsScalar(e)
    BY <2>2 DEF IsScalar
  <2>4. CASE ~d.rvalue \/ e.wrapper # "no"
    <3>1. tag(d) = unwrap_cv_reference(d)
      BY <2>2, <2>4 DEF tag, IsScalar
    <3>2. unwrap_cv_reference(d) = TagOf(perfect, e, PassedConst(perfect, q, e))
      BY <2>2, <2>4 DEF unwrap_cv_reference, TagOf
    <3> QED BY <3>1, <3>2
  <2>5. CASE d.rvalue /\ e.wrapper = "no"
    <3>1. ~IsScalar(d) /\ d.rvalue = TRUE
      BY <2>2, <2>3, <2>5 DEF PassedRvalue
    <3>2. tag(d) = [rref |-> TRUE, type |-> d.type, const |-> d.const]
      BY <2>2, <2>5, <3>1 DEF tag
    <3> QED BY <2>2, <2>5, <3>1, <3>2 DEF TagOf
  <2> QED BY <2>4, <2>5
<1> QED BY <1>1, <1>2

(* A positional argument gets the tag of its expression.                   *)
LEMMA PlacedIsTagged ==
  ASSUME NEW perfect \in BOOLEAN, NEW e \in Expression
  PROVE  Positional(perfect, e) = TagOf(perfect, e, PlacedConst(perfect, e))
<1>1. e.rvalue \in BOOLEAN /\ e.const \in BOOLEAN
  BY DEF Expression
<1>2. CASE perfect = TRUE
  <2>1. CASE ~e.rvalue \/ e.wrapper # "no"
    BY <1>1, <1>2, <2>1
    DEF Positional, tag, unwrap_cv_reference, TagOf, PlacedConst, PassedRvalue, IsScalar
  <2>2. CASE e.rvalue /\ e.wrapper = "no" /\ IsScalar(e)
    BY <1>1, <1>2, <2>2 DEF Positional, tag, TagOf, PlacedConst, PassedRvalue
  <2>3. CASE e.rvalue /\ e.wrapper = "no" /\ ~IsScalar(e)
    BY <1>1, <1>2, <2>3 DEF Positional, tag, TagOf, PlacedConst, PassedRvalue
  <2> QED BY <2>1, <2>2, <2>3
<1>3. CASE perfect = FALSE
  <2> DEFINE c == [e EXCEPT !.rvalue = FALSE, !.const = e.const \/ e.rvalue]
  <2>1. ~c.rvalue /\ c.const = (e.const \/ e.rvalue) /\ c.type = e.type /\ c.wrapper = e.wrapper
    BY DEF Expression
  <2>2. Positional(perfect, e) = tag(c)
    BY <1>3 DEF Positional
  <2> HIDE DEF c
  <2>3. tag(c) = unwrap_cv_reference(c)
    BY <2>1 DEF tag, IsScalar
  <2> QED
    BY <1>1, <1>3, <2>1, <2>2, <2>3 DEF unwrap_cv_reference, TagOf, PlacedConst, PassedRvalue
<1> QED BY <1>2, <1>3

(* A default is refused like a named argument, or is passed on; a          *)
(* reference wrapper is not unwrapped.                                     *)
LEMMA DefaultIsPassed ==
  ASSUME NEW perfect \in BOOLEAN, NEW q \in Qualifiers, NEW e \in Expression
  PROVE  OrDefault(perfect, q, e) =
           IF Refuses(perfect, q, e) THEN None
           ELSE [rvalue |-> PassedRvalue(perfect, e), const |-> PassedConst(perfect, q, e),
                 type |-> IF e.wrapper = "no" THEN e.type ELSE "wrapper"]
<1> DEFINE d == Deduced(BestAssign(perfect, q, e), e)
<1>1. OrDefault(perfect, q, e) =
        IF Refuses(perfect, q, e) THEN None
        ELSE [rvalue |-> d.rvalue, const |-> d.const,
              type |-> IF e.wrapper = "no" THEN e.type ELSE "wrapper"]
  BY RefusedByAll, DefaultsAreHeldAlike DEF OrDefault, BestAssign
<1>2. ~Refuses(perfect, q, e) =>
        d.rvalue = PassedRvalue(perfect, e) /\ d.const = PassedConst(perfect, q, e)
  BY PassedAs
<1> QED BY <1>1, <1>2

(* A tag is never mistaken for the answer that there is none.              *)
LEMMA TagIsTag ==
  ASSUME NEW perfect \in BOOLEAN, NEW e \in Expression, NEW const \in BOOLEAN
  PROVE  TagOf(perfect, e, const) \in Tag /\ TagOf(perfect, e, const) # None
<1>1. /\ e.type \in {"scalar", "class", "maybe"} /\ TagOf(perfect, e, const).type = e.type
      /\ e.rvalue \in BOOLEAN
  BY DEF Expression, TagOf
<1>2. None.type = "none"
  BY DEF None
<1>3. TagOf(perfect, e, const) \in Tag
  BY <1>1 DEF TagOf, Tag, PassedRvalue
<1> QED BY <1>1, <1>2, <1>3

=============================================================================
