------------------------ MODULE MakeArgList_proofs -------------------------
(***************************************************************************)
(* Proofs about the loop of make_arg_list, for every parameter list, every *)
(* call and every meaning of the predicates.                               *)
(***************************************************************************)
EXTENDS MakeArgList, WellFoundedInduction, TLAPS

(* Prepending a node to an argument pack.                                  *)
LEMMA PrependSeq ==
  ASSUME NEW S, NEW s \in Seq(S), NEW e \in S
  PROVE  /\ <<e>> \o s \in Seq(S)
         /\ Len(<<e>> \o s) = Len(s) + 1
         /\ DOMAIN (<<e>> \o s) = 1..(Len(s) + 1)
         /\ (<<e>> \o s)[1] = e
         /\ \A m \in 1..Len(s) : (<<e>> \o s)[m + 1] = s[m]
  OBVIOUS

(* Specs and arguments are finite sequences, indexed from one.             *)
LEMMA CallShape ==
  ASSUME TypeOK
  PROVE  /\ specs \in Seq(ParameterSpec)
         /\ args \in Seq(Argument)
         /\ Len(specs) \in Nat
         /\ Len(args) \in Nat
         /\ ItemCount(specs, args) \in Nat
         /\ ItemCount(specs, args) <= Len(specs)
         /\ ItemCount(specs, args) <= Len(args)
         /\ \A p \in 1..Len(specs) : specs[p] \in ParameterSpec
         /\ \A j \in 1..Len(args) : args[j] \in Argument
  BY SpecListsAssumption, ArgListsAssumption DEF TypeOK, ItemCount

(* What the three ways to match an argument have in common.                *)
Matched(key) ==
  /\ i <= ItemCount(specs, args)
  /\ Prepend(key)
  /\ error' = 0
  /\ NextItem
  /\ UNCHANGED <<callVars, emits>>

(* A tagged argument is matched to its own keyword.                        *)
LEMMA MatchedByTag ==
  ASSUME TypeOK, UseTagged
  PROVE  args[i].key \in Keys /\ Matched(args[i].key)
  BY CallShape DEF TypeOK, UseTagged, AtItem, Matched, is_named_argument, Argument

(* A positional argument is matched to the keyword of its spec.            *)
LEMMA MatchedByPosition ==
  ASSUME TypeOK, TagPositionally
  PROVE  specs[i].key \in Keys /\ Matched(specs[i].key)
  BY CallShape DEF TypeOK, TagPositionally, AtItem, Matched, tag_type, ParameterSpec

(* A deduced argument is matched to the keyword of the spec that took it.  *)
LEMMA MatchedByDeduction ==
  ASSUME TypeOK, TagDeduced
  PROVE  specs[d].key \in Keys /\ Matched(specs[d].key)
  BY CallShape DEF TypeOK, TagDeduced, AtDeducedSpec, Matched, tag_type, ParameterSpec

(* The pack after a match: a new head for argument i, the rest shifted.    *)
LEMMA MatchedPack ==
  ASSUME TypeOK, NEW key \in Keys, Matched(key)
  PROVE  /\ pack' \in Seq(Node)
         /\ Len(pack') = Len(pack) + 1
         /\ DOMAIN pack' = 1..(Len(pack) + 1)
         /\ DOMAIN pack = 1..Len(pack)
         /\ pack'[1] = [key |-> key, arg |-> i]
         /\ \A m \in 1..Len(pack) : pack'[m + 1] = pack[m]
         /\ \A m \in DOMAIN pack' : m = 1 \/ (m - 1 \in DOMAIN pack /\ pack'[m] = pack[m - 1])
<1> DEFINE n == [key |-> key, arg |-> i]
<1>1. n \in Node /\ pack \in Seq(Node)
  BY CallShape DEF TypeOK, Node
<1>2. pack' = <<n>> \o pack
  BY DEF Matched, Prepend
<1> HIDE DEF n
<1>3. /\ pack' \in Seq(Node)
      /\ Len(pack') = Len(pack) + 1
      /\ DOMAIN pack' = 1..(Len(pack) + 1)
      /\ pack'[1] = n
      /\ \A m \in 1..Len(pack) : pack'[m + 1] = pack[m]
  BY <1>1, <1>2, PrependSeq
<1>4. DOMAIN pack = 1..Len(pack) /\ Len(pack) \in Nat
  BY <1>1
<1>5. ASSUME NEW m \in DOMAIN pack', m # 1
      PROVE  m - 1 \in DOMAIN pack /\ pack'[m] = pack[m - 1]
  <2>1. m - 1 \in 1..Len(pack)
    BY <1>3, <1>4, <1>5
  <2>2. pack'[(m - 1) + 1] = pack[m - 1]
    BY <1>3, <2>1
  <2> QED BY <2>1, <2>2, <1>3, <1>4
<1> QED BY <1>3, <1>4, <1>5 DEF n

-----------------------------------------------------------------------------
(* Type correctness of the loop.                                           *)
LEMMA TypeInit == Init => TypeOK
<1> SUFFICES ASSUME Init PROVE TypeOK
  OBVIOUS
<1>1. specs \in Seq(ParameterSpec) /\ args \in Seq(Argument)
  BY SpecListsAssumption, ArgListsAssumption DEF Init
<1>2. Len(specs) \in Nat /\ ItemCount(specs, args) \in Nat
  BY <1>1 DEF ItemCount
<1> QED BY <1>2 DEF Init, StartLoop, TypeOK, PcValues

(* Every step of the loop keeps the types.                                 *)
LEMMA TypeStep == TypeOK /\ [MakeArgListStep]_makeArgListVars => TypeOK'
<1> SUFFICES ASSUME TypeOK, [MakeArgListStep]_makeArgListVars PROVE TypeOK'
  OBVIOUS
<1>1. ASSUME NEW key \in Keys, Matched(key),
             used' \in SUBSET Keys, isPositional' \in BOOLEAN
      PROVE  TypeOK'
  <2>1. pack' \in Seq(Node)
    BY <1>1, MatchedPack
  <2> QED BY <1>1, <2>1, CallShape DEF TypeOK, Matched, NextItem, callVars, PcValues
<1>2. CASE UseTagged
  <2>1. args[i].key \in Keys /\ Matched(args[i].key)
    BY <1>2, MatchedByTag
  <2> QED BY <1>1, <1>2, <2>1 DEF UseTagged, TypeOK
<1>3. CASE TagPositionally
  <2>1. specs[i].key \in Keys /\ Matched(specs[i].key)
    BY <1>3, MatchedByPosition
  <2> QED BY <1>1, <1>3, <2>1 DEF TagPositionally, TypeOK
<1>4. CASE TagDeduced
  <2>1. specs[d].key \in Keys /\ Matched(specs[d].key)
    BY <1>4, MatchedByDeduction
  <2> QED BY <1>1, <1>4, <2>1 DEF TagDeduced, TypeOK, tag_type
<1>5. CASE StartDeduction
  <2>1. i <= ItemCount(specs, args) /\ UNCHANGED <<specs, args, mp11, emits, i, used, pack, error>>
    BY <1>5 DEF StartDeduction, AtItem, callVars
  <2>2. d' = 1 /\ isPositional' \in BOOLEAN /\ pc' = "deduce"
    BY <1>5 DEF StartDeduction
  <2> QED BY <2>1, <2>2, CallShape DEF TypeOK, PcValues
<1>6. CASE SkipSpec
  BY <1>6, CallShape DEF SkipSpec, AtDeducedSpec, TypeOK, callVars, PcValues
<1>7. CASE FailAssertion
  BY <1>7, CallShape DEF FailAssertion, AtDeducedSpec, TypeOK, callVars, PcValues
<1>8. CASE LeaveUnmatched
  BY <1>8, CallShape DEF LeaveUnmatched, NextItem, TypeOK, callVars, PcValues
<1>9. CASE ReturnPack
  BY <1>9, CallShape DEF ReturnPack, TypeOK, callVars, PcValues
<1>10. CASE UNCHANGED makeArgListVars
  BY <1>10 DEF makeArgListVars, TypeOK
<1> QED BY <1>2, <1>3, <1>4, <1>5, <1>6, <1>7, <1>8, <1>9, <1>10 DEF MakeArgListStep

(* Every reachable state of the loop is well typed: the walks stay inside  *)
(* the item list and the deduced specs.                                    *)
THEOREM TypeCorrect == Spec => []TypeOK
  BY TypeInit, TypeStep, PTL DEF Spec


-----------------------------------------------------------------------------
(* Every step matches an argument, leaves one out, or only looks around.   *)
LookingAround ==
  /\ StartDeduction \/ SkipSpec \/ FailAssertion \/ ReturnPack \/ UNCHANGED makeArgListVars
  /\ UNCHANGED <<specs, args, mp11, emits, i, used, pack, error>>

(* A step matches the argument, leaves it unmatched, or stays on the item. *)
LEMMA StepKinds ==
  ASSUME TypeOK, [MakeArgListStep]_makeArgListVars
  PROVE  \/ \E key \in Keys : Matched(key)
         \/ LeaveUnmatched
         \/ LookingAround
<1>1. CASE UseTagged
  BY <1>1, MatchedByTag
<1>2. CASE TagPositionally
  BY <1>2, MatchedByPosition
<1>3. CASE TagDeduced
  BY <1>3, MatchedByDeduction
<1>4. CASE StartDeduction
  BY <1>4 DEF StartDeduction, LookingAround, callVars
<1>5. CASE SkipSpec
  BY <1>5 DEF SkipSpec, LookingAround, callVars
<1>6. CASE FailAssertion
  BY <1>6 DEF FailAssertion, LookingAround, callVars
<1>7. CASE ReturnPack
  BY <1>7 DEF ReturnPack, LookingAround, callVars
<1>8. CASE UNCHANGED makeArgListVars
  BY <1>8 DEF LookingAround, makeArgListVars
<1> QED
  BY <1>1, <1>2, <1>3, <1>4, <1>5, <1>6, <1>7, <1>8 DEF MakeArgListStep

-----------------------------------------------------------------------------
(* How far node m can be from the end of the call: the bound that, with    *)
(* every argument in the pack, leaves each node exactly one argument.      *)
PackSpread ==
  \A m \in DOMAIN pack :
    /\ pack[m].arg \in Nat
    /\ Len(pack) + 1 - m <= pack[m].arg
    /\ pack[m].arg <= i - m

(* A new head holds a later argument than all other nodes.                 *)
LEMMA PackOrderStep ==
  ASSUME TypeOK, PackReversesCall, PackSpread, [MakeArgListStep]_makeArgListVars
  PROVE  PackReversesCall' /\ PackSpread'
<1>1. ASSUME NEW key \in Keys, Matched(key)
      PROVE  PackReversesCall' /\ PackSpread'
  <2>1. /\ Len(pack') = Len(pack) + 1
        /\ DOMAIN pack' = 1..(Len(pack) + 1)
        /\ DOMAIN pack = 1..Len(pack)
        /\ Len(pack) \in Nat
        /\ pack'[1].arg = i
        /\ \A m \in DOMAIN pack' :
             m = 1 \/ (m - 1 \in DOMAIN pack /\ pack'[m] = pack[m - 1])
    <3>1. Len(pack) \in Nat
      BY DEF TypeOK
    <3>2. pack'[1] = [key |-> key, arg |-> i]
      BY <1>1, MatchedPack
    <3>3. pack'[1].arg = i
      BY <3>2
    <3>4. /\ Len(pack') = Len(pack) + 1
          /\ DOMAIN pack' = 1..(Len(pack) + 1)
          /\ DOMAIN pack = 1..Len(pack)
          /\ \A m \in DOMAIN pack' :
               m = 1 \/ (m - 1 \in DOMAIN pack /\ pack'[m] = pack[m - 1])
      BY <1>1, MatchedPack
    <3> QED BY <3>1, <3>3, <3>4
  <2>2. i' = i + 1 /\ i \in Nat /\ i >= 1
    BY <1>1, CallShape DEF Matched, NextItem, TypeOK
  <2>3. Len(pack) <= i - 1
    <3>1. CASE Len(pack) = 0
      BY <3>1, <2>2
    <3>2. CASE Len(pack) # 0
      <4>1. 1 \in DOMAIN pack
        BY <3>2, <2>1
      <4> QED BY <4>1, <2>1, <2>2 DEF PackSpread
    <3> QED BY <3>1, <3>2
  <2>4. ASSUME NEW m \in DOMAIN pack'
        PROVE  /\ pack'[m].arg \in 1..(i' - 1)
               /\ Len(pack') + 1 - m <= pack'[m].arg
               /\ pack'[m].arg <= i' - m
    <3>1. CASE m = 1
      BY <3>1, <2>1, <2>2, <2>3
    <3>2. CASE m # 1
      <4>1. m - 1 \in DOMAIN pack /\ pack'[m].arg = pack[m - 1].arg /\ m \in Nat
        BY <3>2, <2>1, <2>4
      <4>2. /\ pack[m - 1].arg \in 1..(i - 1)
            /\ Len(pack) + 1 - (m - 1) <= pack[m - 1].arg
            /\ pack[m - 1].arg <= i - (m - 1)
        BY <4>1 DEF PackSpread, PackReversesCall
      <4> QED BY <4>1, <4>2, <2>1, <2>2
    <3> QED BY <3>1, <3>2
  <2>5. ASSUME NEW m \in DOMAIN pack', NEW n \in DOMAIN pack', m < n
        PROVE  pack'[n].arg < pack'[m].arg
    <3>1. n # 1 /\ n - 1 \in DOMAIN pack /\ pack'[n].arg = pack[n - 1].arg /\ m \in Nat /\ n \in Nat
      BY <2>1, <2>5
    <3>2. pack[n - 1].arg \in 1..(i - 1)
      BY <3>1 DEF PackReversesCall
    <3>3. CASE m = 1
      BY <3>1, <3>2, <3>3, <2>1, <2>2
    <3>4. CASE m # 1
      <4>1. m - 1 \in DOMAIN pack /\ pack'[m].arg = pack[m - 1].arg /\ m - 1 < n - 1
        BY <3>4, <3>1, <2>1, <2>5
      <4> QED BY <4>1, <3>1 DEF PackReversesCall
    <3> QED BY <3>3, <3>4
  <2> QED BY <2>4, <2>5, <2>1, <2>2 DEF PackReversesCall, PackSpread
<1>2. CASE LeaveUnmatched
  <2>1. pack' = pack /\ i' = i + 1 /\ i \in Nat
    BY <1>2, CallShape DEF LeaveUnmatched, NextItem, TypeOK
  <2>2. DOMAIN pack \subseteq Nat
    BY DEF TypeOK
  <2> QED BY <2>1, <2>2 DEF PackReversesCall, PackSpread
<1>3. CASE LookingAround
  BY <1>3 DEF LookingAround, PackReversesCall, PackSpread
<1> QED BY <1>1, <1>2, <1>3, StepKinds

(* The pack is empty at first.                                             *)
LEMMA PackOrderInit == Init => PackReversesCall /\ PackSpread
  BY DEF Init, StartLoop, PackReversesCall, PackSpread

(* The nodes of the pack are in reverse call order.                        *)
THEOREM PackOrder == Spec => []PackReversesCall
<1>1. Init => TypeOK /\ PackReversesCall /\ PackSpread
  BY TypeInit, PackOrderInit
<1>2. TypeOK /\ PackReversesCall /\ PackSpread /\ [MakeArgListStep]_makeArgListVars
        => TypeOK' /\ PackReversesCall' /\ PackSpread'
  BY TypeStep, PackOrderStep
<1> QED BY <1>1, <1>2, PTL DEF Spec

-----------------------------------------------------------------------------
(* An argument at which positional matching ends.                          *)
EndsPositional(j) == is_named_argument(args[j]) \/ is_deduced(specs[j])

(* Deduction starts only after such an argument.                           *)
DeductionIsNotPositional ==
  pc \in {"deduce", "static_assert"} =>
    /\ isPositional = FALSE
    /\ \E j \in 1..i : EndsPositional(j)

PositionalInv == TypeOK /\ PackReversesCall /\ PositionalPrefix /\ DeductionIsNotPositional

(* No argument has been passed at first.                                   *)
LEMMA PositionalInit == Init => PositionalPrefix /\ DeductionIsNotPositional
  BY DEF Init, StartLoop, PositionalPrefix, DeductionIsNotPositional

(* Every step keeps the positional prefix, and the switch off for good.    *)
LEMMA PositionalStep ==
  ASSUME PositionalInv, [MakeArgListStep]_makeArgListVars
  PROVE  PositionalPrefix' /\ DeductionIsNotPositional'
<1> USE DEF PositionalInv
<1>0. i \in Nat /\ i >= 1 /\ isPositional \in BOOLEAN
  BY CallShape DEF TypeOK
<1>1. CASE UseTagged
  <2>1. isPositional' = FALSE /\ pc' = "item" /\ i' = i + 1 /\ specs' = specs /\ args' = args
    BY <1>1 DEF UseTagged, NextItem, callVars
  <2>2. EndsPositional(i)
    BY <1>1 DEF UseTagged, EndsPositional
  <2>3. ~ \A j \in 1..(i' - 1) : ~is_named_argument(args'[j]) /\ ~is_deduced(specs'[j])
    BY <2>1, <2>2, <1>0 DEF EndsPositional
  <2> QED BY <2>1, <2>3 DEF PositionalPrefix, DeductionIsNotPositional
<1>2. CASE TagPositionally
  <2>1. /\ specs[i].key \in Keys
        /\ Matched(specs[i].key)
        /\ pc = "item"
        /\ isPositional
        /\ ~is_named_argument(args[i])
        /\ ~is_deduced(specs[i])
        /\ isPositional' = isPositional
        /\ pc' = "item"
        /\ i' = i + 1
        /\ specs' = specs
        /\ args' = args
    BY <1>2, MatchedByPosition
    DEF TagPositionally, AtItem, StaysPositional, NextItem, callVars
  <2>2. \A j \in 1..i : ~is_named_argument(args[j]) /\ ~is_deduced(specs[j])
    BY <2>1, <1>0 DEF PositionalPrefix
  <2>3. /\ Len(pack') = Len(pack) + 1
        /\ pack'[1] = [key |-> specs[i].key, arg |-> i]
        /\ \A m \in DOMAIN pack' :
             m = 1 \/ (m - 1 \in DOMAIN pack /\ pack'[m] = pack[m - 1])
    BY <2>1, MatchedPack
  <2>4. Len(pack) = i - 1
    BY <2>1 DEF PositionalPrefix
  <2>5. \A m \in DOMAIN pack' : pack'[m].key = specs[pack'[m].arg].key
    BY <2>1, <2>3 DEF PositionalPrefix
  <2> QED BY <2>1, <2>2, <2>3, <2>4, <2>5, <1>0 DEF PositionalPrefix, DeductionIsNotPositional
<1>3. CASE StartDeduction
  <2>1. /\ pc = "item"
        /\ isPositional' = FALSE
        /\ pc' = "deduce"
        /\ UNCHANGED <<specs, args, i>>
        /\ ~is_named_argument(args[i])
        /\ ~isPositional \/ is_deduced(specs[i])
    BY <1>3 DEF StartDeduction, AtItem, StaysPositional, callVars
  <2>2. \E j \in 1..i : EndsPositional(j)
    <3>1. CASE ~isPositional
      BY <3>1, <2>1, <1>0 DEF PositionalPrefix, EndsPositional
    <3>2. CASE is_deduced(specs[i])
      BY <3>2, <1>0 DEF EndsPositional
    <3> QED BY <2>1, <3>1, <3>2
  <2> QED BY <2>1, <2>2 DEF PositionalPrefix, DeductionIsNotPositional, EndsPositional
<1>4. CASE SkipSpec \/ FailAssertion
  <2>1. /\ pc = "deduce"
        /\ pc' \in {"deduce", "static_assert"}
        /\ UNCHANGED <<specs, args, i, isPositional>>
    BY <1>4 DEF SkipSpec, FailAssertion, AtDeducedSpec, callVars
  <2> QED BY <2>1 DEF PositionalPrefix, DeductionIsNotPositional, EndsPositional
<1>5. CASE TagDeduced \/ LeaveUnmatched
  <2>1. /\ pc = "deduce"
        /\ pc' = "item"
        /\ i' = i + 1
        /\ UNCHANGED <<specs, args, isPositional>>
    BY <1>5 DEF TagDeduced, LeaveUnmatched, AtDeducedSpec, NextItem, callVars
  <2>2. ~ \A j \in 1..(i' - 1) : ~is_named_argument(args'[j]) /\ ~is_deduced(specs'[j])
    BY <2>1, <1>0 DEF DeductionIsNotPositional, EndsPositional
  <2> QED BY <2>1, <2>2 DEF PositionalPrefix, DeductionIsNotPositional
<1>6. CASE ReturnPack
  <2>1. pc = "item" /\ pc' = "done" /\ UNCHANGED <<specs, args, i, isPositional, pack>>
    BY <1>6 DEF ReturnPack, callVars
  <2> QED BY <2>1 DEF PositionalPrefix, DeductionIsNotPositional
<1>7. CASE UNCHANGED makeArgListVars
  BY <1>7 DEF makeArgListVars, PositionalPrefix, DeductionIsNotPositional, EndsPositional
<1> QED
  BY <1>1, <1>2, <1>3, <1>4, <1>5, <1>6, <1>7 DEF MakeArgListStep

(* IsPositional is a faithful record of the arguments consumed, and the    *)
(* positional arguments are tagged with the keywords of their positions.   *)
THEOREM PositionalMatching == Spec => []PositionalPrefix
<1>1. Init => PositionalInv /\ PackSpread
  BY TypeInit, PackOrderInit, PositionalInit DEF PositionalInv
<1>2. PositionalInv /\ PackSpread /\ [MakeArgListStep]_makeArgListVars
        => PositionalInv' /\ PackSpread'
  BY TypeStep, PackOrderStep, PositionalStep DEF PositionalInv
<1>3. PositionalInv => PositionalPrefix
  BY DEF PositionalInv
<1> QED BY <1>1, <1>2, <1>3, PTL DEF Spec

-----------------------------------------------------------------------------
(* The keys of the arguments that were not matched by position.            *)
NotPositional(n) == \E j \in 1..pack[n].arg : EndsPositional(j)

NotPositionalKeys == {pack[m].key : m \in {n \in DOMAIN pack : NotPositional(n)}}

(* A match adds its keyword to those not bound by position, unless it is   *)
(* positional itself.                                                      *)
LEMMA MatchedKeys ==
  ASSUME TypeOK, PackReversesCall, NEW key \in Keys, Matched(key)
  PROVE  /\ (\E j \in 1..i : EndsPositional(j)) =>
              NotPositionalKeys' = NotPositionalKeys \union {key}
         /\ ~(\E j \in 1..i : EndsPositional(j)) =>
              NotPositionalKeys' = NotPositionalKeys
<1>1. /\ DOMAIN pack' = 1..(Len(pack) + 1)
      /\ DOMAIN pack = 1..Len(pack)
      /\ Len(pack) \in Nat
      /\ pack'[1] = [key |-> key, arg |-> i]
      /\ \A m \in 1..Len(pack) : pack'[m + 1] = pack[m]
      /\ \A m \in DOMAIN pack' : m = 1 \/ (m - 1 \in DOMAIN pack /\ pack'[m] = pack[m - 1])
  BY MatchedPack DEF TypeOK
<1>2. specs' = specs /\ args' = args
  BY DEF Matched, callVars
<1>3. NotPositional(1)' <=> \E j \in 1..i : EndsPositional(j)
  BY <1>1, <1>2 DEF NotPositional, EndsPositional
<1>4. ASSUME NEW m \in DOMAIN pack'
      PROVE  m # 1 => /\ m - 1 \in DOMAIN pack
                      /\ pack'[m] = pack[m - 1]
                      /\ NotPositional(m)' <=> NotPositional(m - 1)
  BY <1>1, <1>2, <1>4 DEF NotPositional, EndsPositional
<1>5. ASSUME NEW m \in DOMAIN pack
      PROVE  /\ m + 1 \in DOMAIN pack'
             /\ pack'[m + 1] = pack[m]
             /\ NotPositional(m + 1)' <=> NotPositional(m)
  BY <1>1, <1>2, <1>5 DEF NotPositional, EndsPositional
<1>6. 1 \in DOMAIN pack' /\ pack'[1].key = key
  BY <1>1
<1>7. \A k : k \in NotPositionalKeys => k \in NotPositionalKeys'
  BY <1>5 DEF NotPositionalKeys
<1>8. \A k : k \in NotPositionalKeys' =>
        \/ k \in NotPositionalKeys
        \/ k = key /\ NotPositional(1)'
  BY <1>4, <1>6 DEF NotPositionalKeys
<1>9. NotPositional(1)' => key \in NotPositionalKeys'
  BY <1>6 DEF NotPositionalKeys
<1> HIDE DEF NotPositionalKeys, NotPositional
<1>10. CASE \E j \in 1..i : EndsPositional(j)
  BY <1>3, <1>7, <1>8, <1>9, <1>10
<1>11. CASE ~ \E j \in 1..i : EndsPositional(j)
  BY <1>3, <1>7, <1>8, <1>11
<1> QED BY <1>10, <1>11

(* The assertion is about a key of UsedArgs.                               *)
AssertedKeyIsUsed == pc = "static_assert" => specs[d].key \in used

UsedInv == PositionalInv /\ used = NotPositionalKeys /\ AssertedKeyIsUsed

(* Nothing is used at first.                                               *)
LEMMA UsedInit == Init => used = NotPositionalKeys /\ AssertedKeyIsUsed
  BY DEF Init, StartLoop, NotPositionalKeys, AssertedKeyIsUsed

(* Every step keeps UsedArgs exact.                                        *)
LEMMA UsedStep ==
  ASSUME UsedInv, [MakeArgListStep]_makeArgListVars
  PROVE  (used = NotPositionalKeys)' /\ AssertedKeyIsUsed'
<1> USE DEF UsedInv, PositionalInv
<1>1. CASE UseTagged
  <2>1. args[i].key \in Keys /\ Matched(args[i].key) /\ EndsPositional(i) /\ i \in 1..i
    <3>1. args[i].key \in Keys /\ Matched(args[i].key)
      BY <1>1, MatchedByTag
    <3>2. EndsPositional(i)
      BY <1>1 DEF UseTagged, EndsPositional
    <3>3. i \in 1..i
      BY CallShape DEF TypeOK
    <3> QED BY <3>1, <3>2, <3>3
  <2>2. NotPositionalKeys' = NotPositionalKeys \union {args[i].key}
    BY <2>1, MatchedKeys
  <2> QED BY <1>1, <2>2 DEF UseTagged, NextItem, AssertedKeyIsUsed
<1>2. CASE TagPositionally
  <2>1. specs[i].key \in Keys /\ Matched(specs[i].key)
    BY <1>2, MatchedByPosition
  <2>2. ~ \E j \in 1..i : EndsPositional(j)
    BY <1>2, CallShape
    DEF TagPositionally, AtItem, StaysPositional, PositionalPrefix, EndsPositional, TypeOK
  <2>3. NotPositionalKeys' = NotPositionalKeys
    BY <2>1, <2>2, MatchedKeys
  <2> QED BY <1>2, <2>3 DEF TagPositionally, NextItem, AssertedKeyIsUsed
<1>3. CASE TagDeduced
  <2>1. specs[d].key \in Keys /\ Matched(specs[d].key)
    BY <1>3, MatchedByDeduction
  <2>2. \E j \in 1..i : EndsPositional(j)
    BY <1>3 DEF TagDeduced, AtDeducedSpec, DeductionIsNotPositional
  <2>3. NotPositionalKeys' = NotPositionalKeys \union {specs[d].key}
    BY <2>1, <2>2, MatchedKeys
  <2> QED BY <1>3, <2>3 DEF TagDeduced, NextItem, AssertedKeyIsUsed, tag_type
<1>4. CASE ~TagDeduced /\ ~UseTagged /\ ~TagPositionally
  <2>1. UNCHANGED <<specs, args, used, pack>>
    BY <1>4 DEF MakeArgListStep, StartDeduction, SkipSpec, FailAssertion, LeaveUnmatched,
                ReturnPack, callVars, makeArgListVars
  <2>2. NotPositionalKeys' = NotPositionalKeys
    BY <2>1 DEF NotPositionalKeys, NotPositional, EndsPositional
  <2>3. CASE FailAssertion
    <3>1. specs[d].key \in used /\ d' = d
      BY <2>3 DEF FailAssertion, SeveralArgumentsAssertion, tag_type
    <3> QED BY <3>1, <2>1, <2>2 DEF AssertedKeyIsUsed
  <2>4. CASE ~FailAssertion
    <3>1. pc' = "static_assert" => pc = "static_assert" /\ d' = d
      BY <1>4, <2>4 DEF MakeArgListStep, StartDeduction, SkipSpec, LeaveUnmatched,
                        ReturnPack, NextItem, AtDeducedSpec, makeArgListVars
    <3> QED BY <3>1, <2>1, <2>2 DEF AssertedKeyIsUsed
  <2> QED BY <2>3, <2>4
<1> QED BY <1>1, <1>2, <1>3, <1>4

(* The two properties that rest on its being exact.                        *)
LEMMA UsedImplies ==
  ASSUME UsedInv
  PROVE  UsedAreNotPositional /\ AssertionMeansDuplicate
<1>1. UsedAreNotPositional
  BY DEF UsedInv, UsedAreNotPositional, NotPositionalKeys, NotPositional, EndsPositional
<1>2. ASSUME pc = "static_assert"
      PROVE  \E m \in DOMAIN pack : pack[m].key = specs[d].key /\ NotPositional(m)
  BY <1>2 DEF UsedInv, AssertedKeyIsUsed, NotPositionalKeys
<1> QED BY <1>1, <1>2 DEF AssertionMeansDuplicate, NotPositional, EndsPositional

(* UsedArgs holds exactly the keys bound by tag or by deduction.           *)
THEOREM UsedArgsAreExact == Spec => []UsedAreNotPositional
<1>1. Init => UsedInv /\ PackSpread
  BY TypeInit, PackOrderInit, PositionalInit, UsedInit DEF PositionalInv, UsedInv
<1>2. UsedInv /\ PackSpread /\ [MakeArgListStep]_makeArgListVars => UsedInv' /\ PackSpread'
  BY TypeStep, PackOrderStep, PositionalStep, UsedStep DEF PositionalInv, UsedInv
<1>3. UsedInv => UsedAreNotPositional
  BY UsedImplies
<1> QED BY <1>1, <1>2, <1>3, PTL DEF Spec

(* The MPL build's assertion fires only where a second node for an already *)
(* bound key was about to be built.                                        *)
THEOREM AssertionIsJustified == Spec => []AssertionMeansDuplicate
<1>1. Init => UsedInv /\ PackSpread
  BY TypeInit, PackOrderInit, PositionalInit, UsedInit DEF PositionalInv, UsedInv
<1>2. UsedInv /\ PackSpread /\ [MakeArgListStep]_makeArgListVars => UsedInv' /\ PackSpread'
  BY TypeStep, PackOrderStep, PositionalStep, UsedStep DEF PositionalInv, UsedInv
<1>3. UsedInv => AssertionMeansDuplicate
  BY UsedImplies
<1> QED BY <1>1, <1>2, <1>3, PTL DEF Spec

-----------------------------------------------------------------------------
(* Error and the run of unmatched arguments that ends the call so far.     *)
LEMMA Parity ==
  ASSUME NEW r \in Nat
  PROVE  /\ r % 2 \in {0, 1}
         /\ (r + 1) % 2 = 1 <=> r % 2 = 0
         /\ 1 % 2 = 1
  OBVIOUS

(* The run is unique.                                                      *)
LEMMA RunUnique ==
  ASSUME i \in Nat, NEW r, NEW s, UnmatchedRun(r), UnmatchedRun(s)
  PROVE  r = s
<1>1. ASSUME NEW a, NEW b, UnmatchedRun(a), UnmatchedRun(b)
      PROVE  ~(a < b)
  <2>1. a \in 1..(i - 1) /\ b \in 1..(i - 1)
    BY <1>1 DEF UnmatchedRun
  <2>2. SUFFICES ASSUME a < b PROVE FALSE
    OBVIOUS
  <2>3. a # i - 1
    BY <2>1, <2>2
  <2>4. InPack(i - 1 - a)
    BY <1>1, <2>3 DEF UnmatchedRun
  <2>5. i - 1 - a \in (i - b)..(i - 1)
    BY <2>1, <2>2
  <2> QED BY <1>1, <2>4, <2>5 DEF UnmatchedRun
<1>2. r \in 1..(i - 1) /\ s \in 1..(i - 1)
  BY DEF UnmatchedRun
<1> QED BY <1>1, <1>2

(* Once an argument is unmatched, there is a run that ends with it.        *)
RunExists == i > 1 /\ ~InPack(i - 1) => \E r \in 1..(i - 1) : UnmatchedRun(r)

(* A match clears the error and ends the run of unmatched arguments.       *)
LEMMA ErrorAfterMatch ==
  ASSUME TypeOK, NEW key \in Keys, Matched(key)
  PROVE  ErrorIsParityOfLastRun' /\ RunExists'
<1>1. i' = i + 1 /\ error' = 0 /\ i \in Nat
  BY CallShape DEF Matched, NextItem, TypeOK
<1>2. 1 \in DOMAIN pack' /\ pack'[1] = [key |-> key, arg |-> i]
  <2>1. Len(pack) \in Nat
    BY DEF TypeOK
  <2> QED BY <2>1, MatchedPack
<1>3. InPack(i - 1)'
  BY <1>1, <1>2 DEF InPack
<1>4. ASSUME NEW r, UnmatchedRun(r)'
      PROVE  FALSE
  <2>1. r \in 1..(i' - 1) /\ \A j \in (i' - r)..(i' - 1) : ~InPack(j)'
    BY <1>4 DEF UnmatchedRun, InPack
  <2>2. i' - 1 \in (i' - r)..(i' - 1)
    BY <1>1, <2>1
  <2> QED BY <1>3, <2>1, <2>2 DEF InPack
<1> QED BY <1>1, <1>3, <1>4 DEF ErrorIsParityOfLastRun, RunExists

(* An unmatched argument starts a run or lengthens the one before it.      *)
LEMMA RunGrows ==
  ASSUME TypeOK, PackReversesCall, pack' = pack, i' = i + 1
  PROVE  /\ UnmatchedRun(1)' <=> i = 1 \/ InPack(i - 1)
         /\ \A r \in 1..(i - 1) : UnmatchedRun(r + 1)' <=> UnmatchedRun(r)
<1>1. i \in Nat /\ i >= 1
  BY CallShape DEF TypeOK
<1>2. \A j : InPack(j)' <=> InPack(j)
  BY DEF InPack
<1>3. ~InPack(i)
  BY <1>1 DEF InPack, PackReversesCall
<1>4. UnmatchedRun(1)' <=> i = 1 \/ InPack(i - 1)
  <2>1. UnmatchedRun(1)' <=>
          /\ 1 \in 1..(i' - 1)
          /\ \A j \in (i' - 1)..(i' - 1) : ~InPack(j)
          /\ 1 = i' - 1 \/ InPack(i' - 1 - 1)
    BY DEF UnmatchedRun, InPack
  <2>2. i' - 1 = i /\ i' - 1 - 1 = i - 1
    BY <1>1
  <2>3. InPack(i' - 1 - 1) <=> InPack(i - 1)
    BY <2>2
  <2>4. \A j \in (i' - 1)..(i' - 1) : ~InPack(j)
    <3>1. \A j \in (i' - 1)..(i' - 1) : j = i
      BY <1>1, <2>2
    <3> QED BY <3>1, <1>3
  <2>5. 1 \in 1..(i' - 1) /\ (1 = i' - 1 <=> i = 1)
    BY <1>1
  <2> QED BY <2>1, <2>3, <2>4, <2>5
<1>5. ASSUME NEW r \in 1..(i - 1)
      PROVE  UnmatchedRun(r + 1)' <=> UnmatchedRun(r)
  <2>1. UnmatchedRun(r + 1)' <=>
          /\ r + 1 \in 1..(i' - 1)
          /\ \A j \in (i' - (r + 1))..(i' - 1) : ~InPack(j)
          /\ r + 1 = i' - 1 \/ InPack(i' - 1 - (r + 1))
    BY <1>2 DEF UnmatchedRun, InPack
  <2>2. i' - (r + 1) = i - r /\ i' - 1 = i /\ i' - 1 - (r + 1) = i - 1 - r
    BY <1>1
  <2>3. r + 1 \in 1..i /\ (r + 1 = i <=> r = i - 1)
    BY <1>1
  <2>4. \A j \in (i - r)..i : j = i \/ j \in (i - r)..(i - 1)
    BY <1>1
  <2>5. \A j \in (i - r)..(i - 1) : j \in (i - r)..i
    BY <1>1
  <2> QED BY <1>3, <2>1, <2>2, <2>3, <2>4, <2>5 DEF UnmatchedRun
<1> QED BY <1>4, <1>5

(* An unmatched argument makes the run longer by one and flips the error.  *)
LEMMA ErrorAfterUnmatched ==
  ASSUME TypeOK, PackReversesCall, ErrorIsParityOfLastRun, RunExists, LeaveUnmatched
  PROVE  ErrorIsParityOfLastRun' /\ RunExists'
<1>1. /\ i \in Nat
      /\ i >= 1
      /\ pack' = pack
      /\ i' = i + 1
      /\ error' = IF error = 0 THEN i ELSE 0
  BY CallShape DEF TypeOK, LeaveUnmatched, NextItem
<1>2. /\ UnmatchedRun(1)' <=> i = 1 \/ InPack(i - 1)
      /\ \A r \in 1..(i - 1) : UnmatchedRun(r + 1)' <=> UnmatchedRun(r)
  BY <1>1, RunGrows
<1>3. \E r \in 1..i : UnmatchedRun(r)' /\ (error = 0 => r % 2 = 1)
  <2>1. CASE i = 1 \/ InPack(i - 1)
    BY <1>1, <1>2, <2>1, Parity
  <2>2. CASE ~(i = 1 \/ InPack(i - 1))
    <3>1. PICK r \in 1..(i - 1) : UnmatchedRun(r)
      BY <1>1, <2>2 DEF RunExists
    <3>2. UnmatchedRun(r + 1)' /\ r + 1 \in 1..i /\ r \in Nat
      BY <1>1, <1>2, <3>1
    <3>3. error = 0 => r % 2 # 1
      BY <3>1 DEF ErrorIsParityOfLastRun
    <3>4. error = 0 => (r + 1) % 2 = 1
      BY <3>2, <3>3, Parity
    <3> QED BY <3>2, <3>4
  <2> QED BY <2>1, <2>2
<1>4. ASSUME error # 0, NEW r \in 1..i, UnmatchedRun(r)'
      PROVE  r % 2 # 1
  <2>1. PICK s \in 1..(i - 1) : s % 2 = 1 /\ UnmatchedRun(s)
    BY <1>4 DEF ErrorIsParityOfLastRun
  <2>2. UnmatchedRun(s + 1)'
    BY <1>2, <2>1
  <2>3. i' \in Nat
    BY <1>1
  <2>4. \A a, b : UnmatchedRun(a) /\ UnmatchedRun(b) => a = b
    BY <1>1, RunUnique
  <2>5. r = s + 1
    <3>1. CASE r = 1
      <4>1. i = 1 \/ InPack(i - 1)
        BY <1>2, <1>4, <3>1
      <4>2. i - 1 \in (i - s)..(i - 1) /\ i # 1
        BY <1>1, <2>1
      <4> QED BY <2>1, <4>1, <4>2 DEF UnmatchedRun
    <3>2. CASE r # 1
      <4>1. r - 1 \in 1..(i - 1) /\ (r - 1) + 1 = r
        BY <1>1, <1>4, <3>2
      <4>2. UnmatchedRun((r - 1) + 1)' <=> UnmatchedRun(r - 1)
        BY <1>2, <4>1
      <4>3. UnmatchedRun(r - 1)
        BY <1>4, <4>1, <4>2
      <4> QED BY <2>1, <2>4, <4>1, <4>3
    <3> QED BY <3>1, <3>2
  <2>6. s \in Nat
    BY <1>1, <2>1
  <2> QED BY <2>1, <2>5, <2>6, Parity
<1>5. i' - 1 = i
  BY <1>1
<1>6. RunExists'
  BY <1>3, <1>5 DEF RunExists
<1>7. ErrorIsParityOfLastRun'
  <2>1. CASE error = 0
    <3>1. error' = i /\ error' # 0
      BY <1>1, <2>1
    <3> QED BY <1>3, <1>5, <2>1, <3>1 DEF ErrorIsParityOfLastRun
  <2>2. CASE error # 0
    BY <1>1, <1>4, <1>5, <2>2 DEF ErrorIsParityOfLastRun
  <2> QED BY <2>1, <2>2
<1> QED BY <1>6, <1>7

ErrorInv == TypeOK /\ PackReversesCall /\ PackSpread /\ ErrorIsParityOfLastRun /\ RunExists

(* Every step keeps the parity of the error.                               *)
LEMMA ErrorStep == ErrorInv /\ [MakeArgListStep]_makeArgListVars => ErrorInv'
<1> SUFFICES ASSUME ErrorInv, [MakeArgListStep]_makeArgListVars
             PROVE  ErrorInv'
  OBVIOUS
<1> USE DEF ErrorInv
<1>1. TypeOK' /\ PackReversesCall' /\ PackSpread'
  BY TypeStep, PackOrderStep
<1>2. ErrorIsParityOfLastRun' /\ RunExists'
  <2>1. CASE \E key \in Keys : Matched(key)
    BY <2>1, ErrorAfterMatch
  <2>2. CASE LeaveUnmatched
    BY <2>2, ErrorAfterUnmatched
  <2>3. CASE LookingAround
    BY <2>3 DEF LookingAround, ErrorIsParityOfLastRun, RunExists, UnmatchedRun, InPack
  <2> QED BY <2>1, <2>2, <2>3, StepKinds
<1> QED BY <1>1, <1>2

(* Error tells the parity of the run of unmatched arguments that ends the  *)
(* call: two in a row cancel out, and a matched argument erases any.       *)
THEOREM ErrorIsParity == Spec => []ErrorIsParityOfLastRun
<1>1. Init => ErrorInv
  <2>1. Init => ErrorIsParityOfLastRun /\ RunExists
    BY DEF Init, StartLoop, ErrorIsParityOfLastRun, RunExists
  <2> QED BY <2>1, TypeInit, PackOrderInit DEF ErrorInv
<1>2. ErrorInv => ErrorIsParityOfLastRun
  BY DEF ErrorInv
<1> QED BY <1>1, <1>2, ErrorStep, PTL DEF Spec

-----------------------------------------------------------------------------
(* What a user of the loop needs to know of it, wherever it stands.        *)
DoneMeansAll == pc = "done" => i = ItemCount(specs, args) + 1

LoopInv == ErrorInv /\ DoneMeansAll

(* The loop starts in its invariant.                                       *)
LEMMA LoopInit == Init => LoopInv
<1>1. Init => ErrorIsParityOfLastRun /\ RunExists /\ DoneMeansAll
  BY DEF Init, StartLoop, ErrorIsParityOfLastRun, RunExists, DoneMeansAll
<1> QED BY <1>1, TypeInit, PackOrderInit DEF ErrorInv, LoopInv

(* Every step of the loop keeps its invariant.                             *)
LEMMA LoopStep == LoopInv /\ [MakeArgListStep]_makeArgListVars => LoopInv'
<1> SUFFICES ASSUME LoopInv, [MakeArgListStep]_makeArgListVars
             PROVE  DoneMeansAll'
  BY ErrorStep DEF LoopInv
<1>1. CASE ReturnPack
  <2>1. i \in 1..(ItemCount(specs, args) + 1) /\ ItemCount(specs, args) \in Nat
    BY CallShape DEF LoopInv, ErrorInv, TypeOK
  <2>2. i > ItemCount(specs, args) /\ UNCHANGED <<specs, args, i>>
    BY <1>1 DEF ReturnPack, callVars
  <2> QED BY <2>1, <2>2 DEF DoneMeansAll
<1>2. CASE ~ReturnPack
  <2>1. pc' = "done" => UNCHANGED <<pc, specs, args, i>>
    BY <1>2 DEF MakeArgListStep, UseTagged, TagPositionally, StartDeduction, SkipSpec,
                TagDeduced, FailAssertion, LeaveUnmatched, NextItem, AtDeducedSpec,
                makeArgListVars
  <2> QED BY <2>1 DEF DoneMeansAll, LoopInv
<1> QED BY <1>1, <1>2

-----------------------------------------------------------------------------
(* The order of the measures is well-founded: no computation all of whose  *)
(* steps descend goes on for ever, whatever the number of components.      *)
THEOREM DescentEnds ==
  ASSUME NEW n \in Nat
  PROVE  IsWellFoundedOn({ss \in [1 .. n -> Nat] \X [1 .. n -> Nat] :
                            Descends(n, ss[2], ss[1])}, [1 .. n -> Nat])
<1>1. IsWellFoundedOn(OpToRel(<, Nat), Nat)
  BY NatLessThanWellFounded
<1>2. IsWellFoundedOn(LexProductOrdering(OpToRel(<, Nat), Nat, n), [1 .. n -> Nat])
  BY <1>1, WFLexProductOrdering
<1>3. LexProductOrdering(OpToRel(<, Nat), Nat, n) =
        {ss \in [1 .. n -> Nat] \X [1 .. n -> Nat] : Descends(n, ss[2], ss[1])}
  BY DEF LexProductOrdering, OpToRel, Descends
<1> QED BY <1>2, <1>3

(* A pair of numbers descends with the first or, that unchanged, the other.*)
LEMMA PairDescends ==
  ASSUME NEW a \in Nat, NEW b \in Nat, NEW a1 \in Nat, NEW b1 \in Nat,
         a1 < a \/ (a1 = a /\ b1 < b)
  PROVE  Descends(2, <<a, b>>, <<a1, b1>>)
<1>1. <<a, b>> \in [1 .. 2 -> Nat] /\ <<a1, b1>> \in [1 .. 2 -> Nat]
  OBVIOUS
<1>2. CASE a1 < a
  <2>1. \A l \in 1 .. (1 - 1) : <<a1, b1>>[l] = <<a, b>>[l]
    OBVIOUS
  <2> QED BY <1>1, <1>2, <2>1 DEF Descends
<1>3. CASE a1 = a /\ b1 < b
  <2>1. \A l \in 1 .. (2 - 1) : <<a1, b1>>[l] = <<a, b>>[l]
    BY <1>3
  <2> QED BY <1>1, <1>3, <2>1 DEF Descends
<1> QED BY <1>2, <1>3

(* In a loop of the right type the measure is of numbers.                   *)
LEMMA WorkLeftNat ==
  ASSUME TypeOK
  PROVE  /\ ItemsLeft \in Nat
         /\ SpecsLeft \in Nat
         /\ pc \in {"item", "deduce"} => SpecsLeft > 0
<1>1. /\ i \in 1..(ItemCount(specs, args) + 1) /\ ItemCount(specs, args) \in Nat
      /\ d \in 1..(Len(specs) + 1) /\ Len(specs) \in Nat
  BY CallShape DEF TypeOK
<1>2. ItemsLeft \in Nat
  BY <1>1 DEF ItemsLeft
<1>3. CASE pc = "item"
  BY <1>1, <1>2, <1>3 DEF SpecsLeft
<1>4. CASE pc = "deduce"
  BY <1>1, <1>2, <1>4 DEF SpecsLeft
<1>5. CASE pc \notin {"item", "deduce"}
  BY <1>2, <1>5 DEF SpecsLeft
<1> QED BY <1>3, <1>4, <1>5

(* Every step of the loop leaves fewer items, or as many and fewer specs.  *)
LEMMA WorkShrinks ==
  ASSUME TypeOK, MakeArgListStep
  PROVE  /\ ItemsLeft \in Nat /\ ItemsLeft' \in Nat
         /\ SpecsLeft \in Nat /\ SpecsLeft' \in Nat
         /\ ItemsLeft' < ItemsLeft \/ (ItemsLeft' = ItemsLeft /\ SpecsLeft' < SpecsLeft)
<1>1. TypeOK'
  BY TypeStep
<1>2. /\ ItemsLeft \in Nat /\ ItemsLeft' \in Nat
      /\ SpecsLeft \in Nat /\ SpecsLeft' \in Nat
      /\ pc \in {"item", "deduce"} => SpecsLeft > 0
  <2>1. (ItemsLeft \in Nat /\ SpecsLeft \in Nat)'
    BY <1>1, WorkLeftNat, PTL
  <2> QED BY <2>1, WorkLeftNat
<1>3. ItemsLeft' < ItemsLeft \/ (ItemsLeft' = ItemsLeft /\ SpecsLeft' < SpecsLeft)
  <2>1. /\ ItemCount(specs, args)' = ItemCount(specs, args) /\ specs' = specs
        /\ ItemCount(specs, args) \in Nat /\ Len(specs) \in Nat
        /\ i \in Nat /\ d \in Nat /\ d >= 1
    <3>1. UNCHANGED callVars
      BY DEF MakeArgListStep, UseTagged, TagPositionally, StartDeduction, SkipSpec,
             TagDeduced, FailAssertion, LeaveUnmatched, ReturnPack
    <3> QED BY <3>1, CallShape DEF TypeOK, callVars
  <2>2. CASE UseTagged \/ TagPositionally \/ TagDeduced \/ LeaveUnmatched
    <3>1. i' = i + 1
      BY <2>2 DEF UseTagged, TagPositionally, TagDeduced, LeaveUnmatched, NextItem
    <3> QED BY <2>1, <3>1 DEF ItemsLeft
  <2>3. CASE StartDeduction
    <3>1. i' = i /\ d' = 1 /\ pc' = "deduce" /\ pc = "item"
      BY <2>3 DEF StartDeduction, AtItem
    <3> QED BY <2>1, <3>1 DEF ItemsLeft, SpecsLeft
  <2>4. CASE SkipSpec
    <3>1. i' = i /\ d' = d + 1 /\ pc' = "deduce" /\ pc = "deduce"
      BY <2>4 DEF SkipSpec, AtDeducedSpec
    <3> QED BY <2>1, <3>1 DEF ItemsLeft, SpecsLeft
  <2>5. CASE FailAssertion \/ ReturnPack
    <3>1. i' = i /\ pc' \in {"static_assert", "done"} /\ pc \in {"item", "deduce"}
      BY <2>5 DEF FailAssertion, ReturnPack, AtDeducedSpec
    <3>2. SpecsLeft' = 0
      BY <3>1 DEF SpecsLeft
    <3> QED BY <1>2, <2>1, <3>1, <3>2 DEF ItemsLeft
  <2> QED BY <2>2, <2>3, <2>4, <2>5 DEF MakeArgListStep
<1> QED BY <1>2, <1>3

(* The recursion of make_arg_list ends, for every parameter list and every *)
(* call: each instantiation is smaller than the one it comes from in the   *)
(* well-founded order of DescentEnds.                                      *)
THEOREM InstantiationsEnd == Spec => InstantiationsDescend
<1>1. TypeOK /\ [MakeArgListStep]_makeArgListVars
        => [Descends(2, WorkLeft, WorkLeft')]_makeArgListVars
  BY WorkShrinks, PairDescends DEF WorkLeft
<1> QED BY <1>1, TypeCorrect, PTL DEF Spec, InstantiationsDescend

=============================================================================
