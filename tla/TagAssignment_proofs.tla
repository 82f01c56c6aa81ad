------------------------ MODULE TagAssignment_proofs -----------------------
(***************************************************************************)
(* Proof that the loop of make_arg_list implements TagAssignment: whatever *)
(* the walks over items and deduced specs do, the keys they give out are   *)
(* those of one decision per argument.                                     *)
(***************************************************************************)
EXTENDS MakeArgList_proofs

(* The abstract state of the loop.                                         *)
assignedBar == [j \in 1..(i - 1) |-> AssignedKey(j)]

(* TagAssignment and MakeArgList speak the same language.                  *)
LEMMA SameVocabulary ==
  /\ \A a : TA!is_named_argument(a) = is_named_argument(a)
  /\ \A s : TA!is_deduced(s) = is_deduced(s)
  /\ \A s : TA!tag_type(s) = tag_type(s)
  /\ \A s, a, b : TA!deduce_tag_condition(s, a, b) = deduce_tag_condition(s, a, b)
  /\ TA!ItemCount(specs, args) = ItemCount(specs, args)
  BY DEF TA!is_named_argument, is_named_argument, TA!is_deduced, is_deduced, TA!tag_type,
         tag_type, TA!deduce_tag_condition, deduce_tag_condition, TA!ItemCount, ItemCount

(* The key of an argument in the pack is that of its only node.            *)
KeysAreOfNodes ==
  \A j : /\ \A m \in DOMAIN pack : pack[m].arg = j => AssignedKey(j) = pack[m].key
         /\ ~InPack(j) => AssignedKey(j) = NoKey

(* No other node holds the same argument.                                  *)
LEMMA OnlyNode == TypeOK /\ PackReversesCall => KeysAreOfNodes
<1> SUFFICES ASSUME TypeOK, PackReversesCall, NEW j, NEW m \in DOMAIN pack, pack[m].arg = j
             PROVE  AssignedKey(j) = pack[m].key
  BY DEF KeysAreOfNodes, AssignedKey
<1>1. InPack(j)
  BY DEF InPack
<1>2. ASSUME NEW n \in DOMAIN pack, pack[n].arg = j
      PROVE  n = m
  <2>1. DOMAIN pack \subseteq Nat /\ \A k \in DOMAIN pack : pack[k].arg \in Int
    BY CallShape DEF TypeOK, PackReversesCall
  <2>2. CASE n < m
    BY <1>2, <2>1, <2>2 DEF PackReversesCall
  <2>3. CASE m < n
    BY <1>2, <2>1, <2>3 DEF PackReversesCall
  <2> QED BY <2>1, <2>2, <2>3
<1>3. (CHOOSE n \in DOMAIN pack : pack[n].arg = j) = m
  BY <1>2
<1> QED BY <1>1, <1>3 DEF AssignedKey

(* The same after a step.                                                  *)
LEMMA OnlyNodeNext == TypeOK' /\ PackReversesCall' => KeysAreOfNodes'
  BY OnlyNode, PTL

(* The predicates see the same pack in both specifications.                *)
LEMMA SameBindings ==
  ASSUME TypeOK, PackReversesCall
  PROVE  TA!BindingsSoFar = Bindings(pack, args)
<1>1. \A m \in DOMAIN pack : pack[m].arg \in 1..(i - 1) /\ pack[m].key \in Keys
  <2>1. \A m \in DOMAIN pack : pack[m] \in Node
    BY DEF TypeOK
  <2> QED BY <2>1 DEF PackReversesCall, Node
<1>2. TA!BindingsSoFar =
        {<<AssignedKey(j), args[j].type>> : j \in {h \in 1..(i - 1) : AssignedKey(h) # NoKey}}
  BY DEF TA!BindingsSoFar
<1>3. ASSUME NEW m \in DOMAIN pack
      PROVE  \E j \in {h \in 1..(i - 1) : AssignedKey(h) # NoKey} :
               <<AssignedKey(j), args[j].type>> = <<pack[m].key, args[pack[m].arg].type>>
  <2>1. AssignedKey(pack[m].arg) = pack[m].key
    BY OnlyNode DEF KeysAreOfNodes
  <2> QED BY <1>1, <2>1, NoKeyAssumption
<1>4. ASSUME NEW j \in {h \in 1..(i - 1) : AssignedKey(h) # NoKey}
      PROVE  \E m \in DOMAIN pack :
               <<AssignedKey(j), args[j].type>> = <<pack[m].key, args[pack[m].arg].type>>
  <2>1. PICK m \in DOMAIN pack : pack[m].arg = j
    BY <1>4 DEF AssignedKey, InPack
  <2>2. AssignedKey(j) = pack[m].key
    BY <2>1, OnlyNode DEF KeysAreOfNodes
  <2> QED BY <2>1, <2>2
<1> QED BY <1>2, <1>3, <1>4 DEF Bindings

-----------------------------------------------------------------------------
(* What a step of the loop does to the abstract state.                     *)
LEMMA AssignedByMatch ==
  ASSUME TypeOK, PackReversesCall, PackSpread, [MakeArgListStep]_makeArgListVars,
         NEW key \in Keys, Matched(key)
  PROVE  assignedBar' = Append(assignedBar, key)
<1>1. TypeOK' /\ PackReversesCall'
  BY TypeStep, PackOrderStep
<1>2. i' = i + 1 /\ i \in Nat /\ i >= 1
  BY CallShape DEF Matched, NextItem, TypeOK
<1>3. /\ 1 \in DOMAIN pack'
      /\ pack'[1] = [key |-> key, arg |-> i]
      /\ \A m \in DOMAIN pack : m + 1 \in DOMAIN pack' /\ pack'[m + 1] = pack[m]
      /\ \A m \in DOMAIN pack' : m = 1 \/ (m - 1 \in DOMAIN pack /\ pack'[m] = pack[m - 1])
  <2>1. Len(pack) \in Nat
    BY DEF TypeOK
  <2>2. /\ DOMAIN pack' = 1..(Len(pack) + 1)
        /\ DOMAIN pack = 1..Len(pack)
        /\ pack'[1] = [key |-> key, arg |-> i]
        /\ \A m \in 1..Len(pack) : pack'[m + 1] = pack[m]
        /\ \A m \in DOMAIN pack' : m = 1 \/ (m - 1 \in DOMAIN pack /\ pack'[m] = pack[m - 1])
    BY MatchedPack
  <2> QED BY <2>1, <2>2
<1>4. \A j : j = i => AssignedKey(j)' = key
  BY <1>1, <1>3, OnlyNodeNext DEF KeysAreOfNodes
<1>5. ASSUME NEW j \in 1..(i - 1)
      PROVE  AssignedKey(j)' = AssignedKey(j)
  <2>1. CASE InPack(j)
    <3>1. PICK m \in DOMAIN pack : pack[m].arg = j
      BY <2>1 DEF InPack
    <3>2. AssignedKey(j) = pack[m].key
      BY <3>1, OnlyNode DEF KeysAreOfNodes
    <3>3. m + 1 \in DOMAIN pack' /\ pack'[m + 1].arg = j /\ pack'[m + 1].key = pack[m].key
      BY <1>3, <3>1
    <3>4. AssignedKey(j)' = pack'[m + 1].key
      BY <1>1, <3>3, OnlyNodeNext DEF KeysAreOfNodes
    <3> QED BY <3>2, <3>3, <3>4
  <2>2. CASE ~InPack(j)
    <3>1. j # i
      BY <1>2
    <3>2. ~InPack(j)'
      BY <1>3, <2>2, <3>1 DEF InPack
    <3> QED BY <1>1, <2>2, <3>2, OnlyNode, OnlyNodeNext DEF KeysAreOfNodes
  <2> QED BY <2>1, <2>2
<1>6. assignedBar' = [j \in 1..i |-> IF j = i THEN key ELSE AssignedKey(j)]
  <2>1. assignedBar' = [j \in 1..(i' - 1) |-> AssignedKey(j)']
    BY DEF assignedBar
  <2>2. i' - 1 = i /\ \A j \in 1..i : j = i \/ j \in 1..(i - 1)
    BY <1>2
  <2> QED BY <1>4, <1>5, <2>1, <2>2
<1> QED BY <1>2, <1>6 DEF assignedBar

(* An unmatched argument is assigned no keyword.                           *)
LEMMA AssignedByUnmatched ==
  ASSUME TypeOK, PackReversesCall, LeaveUnmatched
  PROVE  assignedBar' = Append(assignedBar, NoKey)
<1>1. i' = i + 1 /\ i \in Nat /\ i >= 1 /\ pack' = pack
  BY CallShape DEF LeaveUnmatched, NextItem, TypeOK
<1>2. ~InPack(i)
  BY <1>1 DEF InPack, PackReversesCall
<1>3. \A j : AssignedKey(j)' = AssignedKey(j)
  BY <1>1 DEF AssignedKey, InPack
<1>4. AssignedKey(i) = NoKey
  BY <1>2 DEF AssignedKey
<1>5. assignedBar' = [j \in 1..i |-> IF j = i THEN NoKey ELSE AssignedKey(j)]
  <2>1. assignedBar' = [j \in 1..(i' - 1) |-> AssignedKey(j)']
    BY DEF assignedBar
  <2> QED BY <1>1, <1>3, <1>4, <2>1
<1> QED BY <1>1, <1>5 DEF assignedBar

-----------------------------------------------------------------------------
(* During the walk no deduced spec before d accepts the argument.          *)
Accepts(p) == is_deduced(specs[p]) /\ deduce_tag_condition(specs[p], args[i], Bindings(pack, args))

WalkInv ==
  pc = "deduce" => /\ ~is_named_argument(args[i])
                   /\ \A p \in 1..(d - 1) : ~Accepts(p)

RefineInv == PositionalInv /\ PackSpread /\ WalkInv

(* The loop starts in the invariant of the refinement.                     *)
LEMMA RefineInit == Init => RefineInv
<1>1. Init => WalkInv
  BY DEF Init, StartLoop, WalkInv
<1> QED BY <1>1, TypeInit, PackOrderInit, PositionalInit DEF RefineInv, PositionalInv

(* The specs walked over so far do not accept the argument.                *)
LEMMA WalkStep ==
  ASSUME RefineInv, [MakeArgListStep]_makeArgListVars
  PROVE  WalkInv'
<1>1. CASE StartDeduction
  <2>1. ~is_named_argument(args[i]) /\ d' = 1 /\ UNCHANGED <<args, i>>
    BY <1>1 DEF StartDeduction, callVars
  <2> QED BY <2>1 DEF WalkInv
<1>2. CASE SkipSpec
  <2>1. /\ pc = "deduce"
        /\ d' = d + 1
        /\ d \in Nat
        /\ UNCHANGED <<specs, args, i, pack>>
        /\ ~Accepts(d)
    BY <1>2, CallShape
    DEF SkipSpec, AtDeducedSpec, Accepted, Accepts, callVars, RefineInv, PositionalInv, TypeOK
  <2>2. \A p \in 1..(d' - 1) : ~Accepts(p)
    BY <2>1 DEF WalkInv, RefineInv
  <2>3. \A p : Accepts(p)' <=> Accepts(p)
    BY <2>1 DEF Accepts, Bindings
  <2> QED BY <2>1, <2>2, <2>3 DEF WalkInv, RefineInv
<1>3. CASE UNCHANGED makeArgListVars
  BY <1>3 DEF makeArgListVars, RefineInv, WalkInv, Accepts, Bindings
<1>4. CASE ~StartDeduction /\ ~SkipSpec /\ ~UNCHANGED makeArgListVars
  BY <1>4 DEF MakeArgListStep, UseTagged, TagPositionally, TagDeduced, FailAssertion,
              LeaveUnmatched, ReturnPack, NextItem, WalkInv
<1> QED BY <1>1, <1>2, <1>3, <1>4

(* Every step of the loop keeps the invariant of the refinement.           *)
LEMMA RefineStep == RefineInv /\ [MakeArgListStep]_makeArgListVars => RefineInv'
  BY TypeStep, PackOrderStep, PositionalStep, WalkStep DEF RefineInv, PositionalInv

-----------------------------------------------------------------------------
(* The key each way to match an argument gives it is the abstract one.     *)
LEMMA AssignsTag ==
  ASSUME RefineInv, UseTagged
  PROVE  TA!Assignment(i) = args[i].key
  BY SameVocabulary DEF UseTagged, TA!Assignment

(* By position.                                                            *)
LEMMA AssignsPosition ==
  ASSUME RefineInv, TagPositionally
  PROVE  TA!Assignment(i) = specs[i].key
<1>1. pc = "item" /\ isPositional /\ ~is_named_argument(args[i]) /\ ~is_deduced(specs[i])
  BY DEF TagPositionally, AtItem, StaysPositional
<1>2. \A j \in 1..(i - 1) : ~is_named_argument(args[j]) /\ ~is_deduced(specs[j])
  BY <1>1 DEF RefineInv, PositionalInv, PositionalPrefix
<1>3. \A j \in 1..i : j = i \/ j \in 1..(i - 1)
  BY CallShape DEF RefineInv, PositionalInv, TypeOK
<1>4. TA!ByPosition(i)
  BY <1>1, <1>2, <1>3, SameVocabulary DEF TA!ByPosition
<1> QED BY <1>1, <1>4, SameVocabulary DEF TA!Assignment, tag_type

(* The candidates are the specs that accept, none of which was walked over.*)
LEMMA DeducedCandidates ==
  ASSUME RefineInv, pc = "deduce"
  PROVE  /\ ~is_named_argument(args[i])
         /\ ~TA!ByPosition(i)
         /\ TA!Candidates(i) = {q \in 1..Len(specs) : Accepts(q)}
         /\ \A q \in TA!Candidates(i) : d <= q
<1>1. ~is_named_argument(args[i])
  BY DEF RefineInv, WalkInv
<1>2. ~TA!ByPosition(i)
  BY SameVocabulary
  DEF RefineInv, PositionalInv, DeductionIsNotPositional, EndsPositional, TA!ByPosition
<1>3. TA!Candidates(i) = {q \in 1..Len(specs) : Accepts(q)}
  <2>1. TA!BindingsSoFar = Bindings(pack, args)
    BY SameBindings DEF RefineInv, PositionalInv
  <2> QED BY <2>1, SameVocabulary DEF TA!Candidates, Accepts
<1>4. ASSUME NEW q \in 1..Len(specs), Accepts(q)
      PROVE  d <= q
  <2>1. d \in Nat
    BY CallShape DEF RefineInv, PositionalInv, TypeOK
  <2>2. q \notin 1..(d - 1)
    BY <1>4 DEF RefineInv, WalkInv
  <2> QED BY <1>4, <2>1, <2>2
<1> QED BY <1>1, <1>2, <1>3, <1>4

(* The first spec that accepts is the first candidate.                     *)
LEMMA AssignsAccepting ==
  ASSUME RefineInv, AtDeducedSpec, is_deduced(specs[d]), Accepted
  PROVE  TA!Assignment(i) = specs[d].key
<1>1. pc = "deduce" /\ Accepts(d) /\ d \in 1..Len(specs) /\ Len(specs) \in Nat
  BY CallShape
  DEF AtDeducedSpec, Accepted, Accepts, RefineInv, PositionalInv, TypeOK
<1>2. d \in TA!Candidates(i) /\ \A r \in TA!Candidates(i) : d <= r
  BY <1>1, DeducedCandidates
<1>3. TA!Candidates(i) \subseteq Nat
  BY <1>1, DeducedCandidates
<1>4. (CHOOSE q \in TA!Candidates(i) : \A r \in TA!Candidates(i) : q <= r) = d
  <2>1. \A q \in TA!Candidates(i) : (\A r \in TA!Candidates(i) : q <= r) => q = d
    BY <1>2, <1>3
  <2> QED BY <1>2, <2>1
<1> QED BY <1>1, <1>2, <1>4, DeducedCandidates, SameVocabulary DEF TA!Assignment, tag_type

(* By deduction.                                                           *)
LEMMA AssignsDeduction ==
  ASSUME RefineInv, TagDeduced
  PROVE  TA!Assignment(i) = specs[d].key
  BY AssignsAccepting DEF TagDeduced

(* Where the walk ends without a match there is no candidate.              *)
LEMMA AssignsNothing ==
  ASSUME RefineInv, LeaveUnmatched
  PROVE  TA!Assignment(i) = NoKey
<1>1. pc = "deduce" /\ d > Len(specs) /\ Len(specs) \in Nat /\ d \in Nat
  BY CallShape DEF LeaveUnmatched, RefineInv, PositionalInv, TypeOK
<1>2. TA!Candidates(i) = {}
  BY <1>1, DeducedCandidates
<1> QED BY <1>1, <1>2, DeducedCandidates, SameVocabulary DEF TA!Assignment

-----------------------------------------------------------------------------
(* One assignment for every argument that was passed.                      *)
LEMMA AssignedLength ==
  ASSUME TypeOK
  PROVE  Len(assignedBar) + 1 = i /\ Len(assignedBar) \in Nat
  BY CallShape DEF TypeOK, assignedBar

(* Every step of the loop is an abstract decision or a stutter.            *)
LEMMA StepRefines ==
  ASSUME RefineInv, [MakeArgListStep]_makeArgListVars
  PROVE  [TA!Assign]_(TA!vars)
<1> USE DEF RefineInv, PositionalInv
<1>1. Len(assignedBar) + 1 = i /\ Len(assignedBar) \in Nat
  BY AssignedLength
<1>2. ASSUME NEW key, TA!Assignment(i) = key, assignedBar' = Append(assignedBar, key),
             i <= ItemCount(specs, args), UNCHANGED <<specs, args>>
      PROVE  TA!Assign
  <2>1. Len(assignedBar) < ItemCount(specs, args)
    BY <1>1, <1>2, CallShape
  <2> QED BY <1>1, <1>2, <2>1, SameVocabulary DEF TA!Assign, assignedBar
<1>3. CASE UseTagged
  <2>1. args[i].key \in Keys /\ Matched(args[i].key)
    BY <1>3, MatchedByTag
  <2> QED BY <1>2, <1>3, <2>1, AssignsTag, AssignedByMatch DEF Matched, callVars
<1>4. CASE TagPositionally
  <2>1. specs[i].key \in Keys /\ Matched(specs[i].key)
    BY <1>4, MatchedByPosition
  <2> QED BY <1>2, <1>4, <2>1, AssignsPosition, AssignedByMatch DEF Matched, callVars
<1>5. CASE TagDeduced
  <2>1. specs[d].key \in Keys /\ Matched(specs[d].key)
    BY <1>5, MatchedByDeduction
  <2> QED BY <1>2, <1>5, <2>1, AssignsDeduction, AssignedByMatch DEF Matched, callVars
<1>6. CASE LeaveUnmatched
  <2>1. i <= ItemCount(specs, args) /\ UNCHANGED <<specs, args>>
    BY <1>6 DEF LeaveUnmatched, TypeOK, callVars
  <2> QED BY <1>2, <1>6, <2>1, AssignsNothing, AssignedByUnmatched
<1>7. CASE LookingAround
  <2>1. assignedBar' = assignedBar
    BY <1>7 DEF LookingAround, assignedBar, AssignedKey, InPack
  <2> QED BY <1>7, <2>1 DEF LookingAround, TA!vars, assignedBar
<1>8. CASE ~LookingAround
  <2>1. UseTagged \/ TagPositionally \/ TagDeduced \/ LeaveUnmatched
    BY <1>8 DEF MakeArgListStep, LookingAround, StartDeduction, SkipSpec, FailAssertion,
                ReturnPack, callVars, makeArgListVars
  <2> QED BY <2>1, <1>3, <1>4, <1>5, <1>6
<1> QED BY <1>7, <1>8

(* The loop starts as the abstract specification does.                     *)
LEMMA InitRefines == Init => TA!Init
<1> SUFFICES ASSUME Init PROVE TA!Init
  OBVIOUS
<1>1. assignedBar = <<>>
  BY DEF Init, StartLoop, assignedBar
<1> QED BY <1>1 DEF Init, TA!Init, assignedBar

(* make_arg_list implements the one-decision-per-argument specification.   *)
THEOREM Refinement == Spec => ImplementsTagAssignment
<1>1. RefineInv /\ [MakeArgListStep]_makeArgListVars => [TA!Assign]_(TA!vars)
  BY StepRefines
<1> QED
  BY <1>1, RefineInit, RefineStep, InitRefines, PTL DEF Spec, ImplementsTagAssignment, TA!Spec

-----------------------------------------------------------------------------
(* The decisions as a statement about a pack alone: what argument j gets   *)
(* depends on the nodes of the arguments before it, whatever came later.   *)
BindingsBefore(nodes, j) ==
  {<<nodes[m].key, args[nodes[m].arg].type>> : m \in {n \in DOMAIN nodes : nodes[n].arg < j}}

CandidatesAfter(nodes, j) ==
  {p \in 1..Len(specs) :
     is_deduced(specs[p]) /\ deduce_tag_condition(specs[p], args[j], BindingsBefore(nodes, j))}

Decision(nodes, j) ==
  IF is_named_argument(args[j]) THEN args[j].key
  ELSE IF \A m \in 1..j : ~EndsPositional(m) THEN tag_type(specs[j])
  ELSE IF CandidatesAfter(nodes, j) = {} THEN NoKey
  ELSE tag_type(specs[CHOOSE p \in CandidatesAfter(nodes, j) :
                        \A r \in CandidatesAfter(nodes, j) : p <= r])

Gives(nodes, j, key) ==
  IF key = NoKey THEN \A m \in DOMAIN nodes : nodes[m].arg # j
  ELSE \E m \in DOMAIN nodes : nodes[m].key = key /\ nodes[m].arg = j

(* The first n arguments are in the pack as decided.                       *)
Resolved(nodes, n) == \A j \in 1..n : Gives(nodes, j, Decision(nodes, j))

(* Two packs with the same nodes for the arguments before j lead to the    *)
(* same decision on j.                                                     *)
LEMMA DecisionDepends ==
  ASSUME NEW nodes, NEW others, NEW j,
         BindingsBefore(nodes, j) = BindingsBefore(others, j)
  PROVE  Decision(nodes, j) = Decision(others, j)
  BY DEF Decision, CandidatesAfter

(* A decision depends on the call only.                                    *)
LEMMA DecisionUnchanged ==
  ASSUME UNCHANGED <<specs, args>>
  PROVE  \A nodes, j : Decision(nodes, j)' = Decision(nodes, j)
<1>1. \A nodes, j : BindingsBefore(nodes, j)' = BindingsBefore(nodes, j)
  BY DEF BindingsBefore
<1>2. \A nodes, j : CandidatesAfter(nodes, j)' = CandidatesAfter(nodes, j)
  BY <1>1 DEF CandidatesAfter
<1>3. \A m : EndsPositional(m)' <=> EndsPositional(m)
  BY DEF EndsPositional
<1> SUFFICES ASSUME NEW nodes, NEW j
             PROVE  Decision(nodes, j)' = Decision(nodes, j)
  OBVIOUS
<1>4. CandidatesAfter(nodes, j)' = CandidatesAfter(nodes, j)
  BY <1>2
<1>5. (\A m \in 1..j : ~EndsPositional(m))' <=> \A m \in 1..j : ~EndsPositional(m)
  BY <1>3
<1>6. specs' = specs /\ args' = args
  OBVIOUS
<1> QED BY <1>4, <1>5, <1>6 DEF Decision

(* So does what a pack resolves.                                           *)
LEMMA ResolvedUnchanged ==
  ASSUME UNCHANGED <<specs, args>>
  PROVE  \A nodes, n : Resolved(nodes, n)' <=> Resolved(nodes, n)
<1>1. \A nodes, j, key : Gives(nodes, j, key)' <=> Gives(nodes, j, key)
  BY DEF Gives
<1> QED BY <1>1, DecisionUnchanged DEF Resolved

(* The loop decides on its argument as its pack says.                      *)
LEMMA DecidesByPack ==
  ASSUME RefineInv
  PROVE  /\ TA!Assignment(i) = Decision(pack, i)
         /\ BindingsBefore(pack, i) = Bindings(pack, args)
<1>1. \A m \in DOMAIN pack : pack[m].arg < i
  BY CallShape DEF RefineInv, PositionalInv, PackReversesCall, TypeOK
<1>2. BindingsBefore(pack, i) = Bindings(pack, args)
  BY <1>1 DEF BindingsBefore, Bindings
<1>3. TA!BindingsSoFar = Bindings(pack, args)
  BY SameBindings DEF RefineInv, PositionalInv
<1>4. TA!Candidates(i) = CandidatesAfter(pack, i)
  BY <1>2, <1>3, SameVocabulary DEF TA!Candidates, CandidatesAfter
<1>5. TA!ByPosition(i) <=> \A m \in 1..i : ~EndsPositional(m)
  BY SameVocabulary DEF TA!ByPosition, EndsPositional
<1> QED BY <1>2, <1>4, <1>5, SameVocabulary DEF TA!Assignment, Decision

(* Every step executes the decision on argument i, or looks around.        *)
LEMMA StepDecides ==
  ASSUME RefineInv, [MakeArgListStep]_makeArgListVars
  PROVE  \/ \E key \in Keys : Matched(key) /\ Decision(pack, i) = key
         \/ LeaveUnmatched /\ Decision(pack, i) = NoKey
         \/ LookingAround
<1> USE DEF RefineInv, PositionalInv
<1>1. CASE UseTagged
  BY <1>1, MatchedByTag, AssignsTag, DecidesByPack
<1>2. CASE TagPositionally
  BY <1>2, MatchedByPosition, AssignsPosition, DecidesByPack
<1>3. CASE TagDeduced
  BY <1>3, MatchedByDeduction, AssignsDeduction, DecidesByPack
<1>4. CASE LeaveUnmatched
  BY <1>4, AssignsNothing, DecidesByPack
<1>5. CASE ~LookingAround
  <2>1. UseTagged \/ TagPositionally \/ TagDeduced \/ LeaveUnmatched
    BY <1>5 DEF MakeArgListStep, LookingAround, StartDeduction, SkipSpec, FailAssertion,
                ReturnPack, callVars, makeArgListVars
  <2> QED BY <2>1, <1>1, <1>2, <1>3, <1>4
<1> QED BY <1>5

(* A node put ahead for argument i changes no earlier decision.            *)
LEMMA MatchResolves ==
  ASSUME RefineInv, Resolved(pack, i - 1),
         NEW key \in Keys, Matched(key), Decision(pack, i) = key
  PROVE  Resolved(pack', i)
<1> USE DEF RefineInv, PositionalInv
<1>1. /\ 1 \in DOMAIN pack'
      /\ pack'[1].key = key /\ pack'[1].arg = i
      /\ \A m \in DOMAIN pack : m + 1 \in DOMAIN pack' /\ pack'[m + 1] = pack[m]
      /\ \A m \in DOMAIN pack' : m = 1 \/ (m - 1 \in DOMAIN pack /\ pack'[m] = pack[m - 1])
  <2>1. Len(pack) \in Nat
    BY DEF TypeOK
  <2>2. /\ DOMAIN pack' = 1..(Len(pack) + 1)
        /\ DOMAIN pack = 1..Len(pack)
        /\ pack'[1] = [key |-> key, arg |-> i]
        /\ \A m \in 1..Len(pack) : pack'[m + 1] = pack[m]
        /\ \A m \in DOMAIN pack' : m = 1 \/ (m - 1 \in DOMAIN pack /\ pack'[m] = pack[m - 1])
    BY MatchedPack
  <2> QED BY <2>1, <2>2
<1>2. i \in Nat /\ \A m \in DOMAIN pack : pack[m].arg \in 1..(i - 1)
  BY CallShape DEF TypeOK, PackReversesCall
<1>3. ASSUME NEW j \in 1..i
      PROVE  BindingsBefore(pack', j) = BindingsBefore(pack, j)
  <2>1. ASSUME NEW m \in DOMAIN pack', pack'[m].arg < j
        PROVE  \E n \in DOMAIN pack : pack[n].arg < j /\ pack'[m] = pack[n]
    BY <1>1, <1>2, <2>1
  <2>2. ASSUME NEW m \in DOMAIN pack, pack[m].arg < j
        PROVE  \E n \in DOMAIN pack' : pack'[n].arg < j /\ pack[m] = pack'[n]
    BY <1>1, <2>2
  <2> QED BY <2>1, <2>2 DEF BindingsBefore
<1>4. ASSUME NEW j \in 1..i
      PROVE  Decision(pack', j) = Decision(pack, j)
  BY <1>3, DecisionDepends
<1>5. ASSUME NEW j \in 1..(i - 1)
      PROVE  Gives(pack', j, Decision(pack', j))
  <2>1. Gives(pack, j, Decision(pack, j)) /\ Decision(pack', j) = Decision(pack, j)
    BY <1>2, <1>4 DEF Resolved
  <2>2. j # i
    BY <1>2
  <2> QED BY <2>1, <2>2, <1>1 DEF Gives
<1>6. Gives(pack', i, Decision(pack', i))
  BY <1>1, <1>2, <1>4, CallShape, NoKeyAssumption DEF Gives, TypeOK
<1> QED BY <1>2, <1>5, <1>6 DEF Resolved

(* Whatever the loop has consumed is in its pack as decided.               *)
LEMMA ResolvedStep ==
  ASSUME RefineInv, Resolved(pack, i - 1), [MakeArgListStep]_makeArgListVars
  PROVE  Resolved(pack, i - 1)'
<1>1. i \in Nat /\ i >= 1
  BY CallShape DEF RefineInv, PositionalInv, TypeOK
<1>2. ASSUME NEW key \in Keys, Matched(key), Decision(pack, i) = key
      PROVE  Resolved(pack, i - 1)'
  <2>1. UNCHANGED <<specs, args>> /\ i' = i + 1
    BY <1>2 DEF Matched, NextItem, callVars
  <2>2. Resolved(pack', i' - 1)
    BY <1>1, <1>2, <2>1, MatchResolves
  <2> QED BY <2>1, <2>2, ResolvedUnchanged
<1>3. ASSUME LeaveUnmatched, Decision(pack, i) = NoKey
      PROVE  Resolved(pack, i - 1)'
  <2>1. UNCHANGED <<specs, args, pack>> /\ i' = i + 1
    BY <1>3 DEF LeaveUnmatched, NextItem, callVars
  <2>2. Gives(pack, i, NoKey)
    BY DEF Gives, RefineInv, PositionalInv, PackReversesCall
  <2>3. Resolved(pack', i' - 1)
    BY <1>1, <1>3, <2>1, <2>2 DEF Resolved
  <2> QED BY <2>1, <2>3, ResolvedUnchanged
<1>4. ASSUME LookingAround
      PROVE  Resolved(pack, i - 1)'
  BY <1>4, ResolvedUnchanged DEF LookingAround
<1> QED BY <1>2, <1>3, <1>4, StepDecides

-----------------------------------------------------------------------------
(* The nodes of a pack are in reverse call order.                          *)
Ordered(nodes) ==
  \A m, n \in DOMAIN nodes : m < n => nodes[n].arg < nodes[m].arg

(* The pack pk holds the nodes of nodes for the arguments before k.        *)
Agrees(nodes, pk, k) ==
  /\ Len(pk) <= Len(nodes)
  /\ \A m \in 1..Len(pk) : pk[m] = nodes[Len(nodes) - Len(pk) + m]
  /\ \A m \in 1..(Len(nodes) - Len(pk)) : nodes[m].arg >= k

(* As long as the loop has rebuilt the end of a pack that is resolved, it  *)
(* decides on the next argument as that pack has it.                       *)
LEMMA SameDecision ==
  ASSUME RefineInv, NEW nodes \in Seq(Node), Agrees(nodes, pack, i)
  PROVE  Decision(nodes, i) = Decision(pack, i)
<1> USE DEF RefineInv, PositionalInv
<1>1. /\ Len(nodes) \in Nat /\ DOMAIN nodes = 1..Len(nodes)
      /\ Len(pack) \in Nat /\ DOMAIN pack = 1..Len(pack)
      /\ i \in Nat
  BY CallShape DEF TypeOK
<1>2. \A m \in DOMAIN pack : pack[m].arg < i
  BY <1>1, CallShape DEF PackReversesCall, TypeOK
<1>3. \A m \in DOMAIN nodes : nodes[m].arg \in Nat
  <2>1. \A m \in DOMAIN nodes : nodes[m] \in Node
    BY <1>1
  <2> QED BY <2>1 DEF Node
<1>4. ASSUME NEW m \in DOMAIN nodes, nodes[m].arg < i
      PROVE  \E n \in DOMAIN pack : pack[n].arg < i /\ pack[n] = nodes[m]
  <2>1. m \notin 1..(Len(nodes) - Len(pack))
    BY <1>1, <1>3, <1>4 DEF Agrees
  <2>2. m - (Len(nodes) - Len(pack)) \in 1..Len(pack)
    BY <1>1, <2>1 DEF Agrees
  <2>3. pack[m - (Len(nodes) - Len(pack))] = nodes[m]
    BY <1>1, <2>2 DEF Agrees
  <2> QED BY <1>1, <1>4, <2>2, <2>3
<1>5. ASSUME NEW n \in DOMAIN pack
      PROVE  \E m \in DOMAIN nodes : nodes[m].arg < i /\ pack[n] = nodes[m]
  <2>1. /\ Len(nodes) - Len(pack) + n \in DOMAIN nodes
        /\ pack[n] = nodes[Len(nodes) - Len(pack) + n]
    BY <1>1 DEF Agrees
  <2> QED BY <1>2, <2>1
<1>6. BindingsBefore(nodes, i) = BindingsBefore(pack, i)
  BY <1>4, <1>5 DEF BindingsBefore
<1> QED BY <1>6, DecisionDepends

(* A match rebuilds the next node, counted from the end, of a resolved     *)
(* pack.                                                                   *)
LEMMA MatchAgrees ==
  ASSUME RefineInv, NEW nodes \in Seq(Node), Ordered(nodes),
         Resolved(nodes, ItemCount(specs, args)), Agrees(nodes, pack, i),
         NEW key \in Keys, Matched(key), Decision(pack, i) = key
  PROVE  Agrees(nodes, pack', i')
<1> DEFINE h == Len(nodes) - Len(pack)
<1>1. /\ Len(nodes) \in Nat /\ DOMAIN nodes = 1..Len(nodes)
      /\ Len(pack) \in Nat /\ DOMAIN pack = 1..Len(pack)
      /\ i \in Nat /\ i >= 1 /\ h \in Nat /\ i' = i + 1
      /\ i <= ItemCount(specs, args) /\ ItemCount(specs, args) \in Nat
  BY CallShape DEF TypeOK, RefineInv, PositionalInv, Agrees, Matched, NextItem
<1>2. /\ DOMAIN pack' = 1..(Len(pack) + 1)
      /\ pack'[1] = [key |-> key, arg |-> i]
      /\ \A m \in 1..Len(pack) : pack'[m + 1] = pack[m]
      /\ pack' \in Seq(Node)
  BY MatchedPack, TypeStep DEF RefineInv, PositionalInv
<1>3. \A m \in DOMAIN nodes : nodes[m].arg \in Nat /\ nodes[m] \in Node
  <2>1. \A m \in DOMAIN nodes : nodes[m] \in Node
    BY <1>1
  <2> QED BY <2>1 DEF Node
<1>4. PICK m \in DOMAIN nodes : nodes[m].key = key /\ nodes[m].arg = i
  BY <1>1, SameDecision, NoKeyAssumption DEF Resolved, Gives
<1>5. m \in 1..h
  <2>1. ASSUME m > h PROVE FALSE
    <3>1. m - h \in DOMAIN pack /\ pack[m - h] = nodes[m]
      BY <1>1, <2>1 DEF Agrees
    <3>2. pack[m - h].arg < i
      BY <1>1, <3>1, CallShape DEF PackReversesCall, RefineInv, PositionalInv, TypeOK
    <3> QED BY <1>1, <1>4, <3>1, <3>2
  <2> QED BY <1>1, <2>1
<1>6. m = h
  <2>1. h \in DOMAIN nodes /\ h \in 1..h /\ nodes[h].arg >= i
    BY <1>1, <1>5 DEF Agrees
  <2>2. ~(m < h)
    BY <1>1, <1>3, <1>4, <2>1 DEF Ordered
  <2> QED BY <1>1, <1>5, <2>2
<1>7. nodes[h] = [key |-> key, arg |-> i]
  BY <1>3, <1>4, <1>6 DEF Node
<1>8. Len(pack') = Len(pack) + 1
  BY <1>1, <1>2
<1>9. Len(pack') <= Len(nodes)
  BY <1>1, <1>5, <1>8
<1>10. ASSUME NEW n \in 1..Len(pack')
       PROVE  pack'[n] = nodes[Len(nodes) - Len(pack') + n]
  <2>1. CASE n = 1
    BY <1>1, <1>2, <1>7, <1>8, <2>1
  <2>2. CASE n # 1
    <3>1. n - 1 \in 1..Len(pack) /\ n = (n - 1) + 1
      BY <1>1, <1>8, <2>2
    <3>2. pack'[n] = pack[n - 1]
      BY <1>2, <3>1
    <3>3. pack[n - 1] = nodes[Len(nodes) - Len(pack) + (n - 1)]
      BY <3>1 DEF Agrees
    <3>4. Len(nodes) - Len(pack) + (n - 1) = Len(nodes) - Len(pack') + n
      BY <1>1, <1>8
    <3> QED BY <3>2, <3>3, <3>4
  <2> QED BY <2>1, <2>2
<1>11. ASSUME NEW n \in 1..(Len(nodes) - Len(pack'))
       PROVE  nodes[n].arg >= i'
  <2>1. n < h /\ n \in DOMAIN nodes /\ h \in DOMAIN nodes
    BY <1>1, <1>5, <1>8
  <2>2. nodes[h].arg < nodes[n].arg
    BY <2>1 DEF Ordered
  <2> QED BY <1>1, <1>3, <1>4, <1>6, <2>1, <2>2
<1> QED BY <1>9, <1>10, <1>11 DEF Agrees

(* Every step of the loop goes on agreeing with a pack that is resolved.   *)
LEMMA AgreesStep ==
  ASSUME RefineInv, NEW nodes \in Seq(Node), Ordered(nodes),
         Resolved(nodes, ItemCount(specs, args)), Agrees(nodes, pack, i),
         [MakeArgListStep]_makeArgListVars
  PROVE  Agrees(nodes, pack', i')
<1>1. CASE \E key \in Keys : Matched(key) /\ Decision(pack, i) = key
  BY <1>1, MatchAgrees
<1>2. CASE LeaveUnmatched /\ Decision(pack, i) = NoKey
  <2>1. /\ pack' = pack /\ i' = i + 1
        /\ i \in 1..ItemCount(specs, args) /\ i \in Nat
    BY <1>2, CallShape DEF LeaveUnmatched, NextItem, RefineInv, PositionalInv, TypeOK
  <2>2. \A m \in DOMAIN nodes : nodes[m].arg # i
    BY <1>2, <2>1, SameDecision DEF Resolved, Gives
  <2>3. \A m \in DOMAIN nodes : nodes[m].arg \in Nat
    <3>1. \A m \in DOMAIN nodes : nodes[m] \in Node
      OBVIOUS
    <3> QED BY <3>1 DEF Node
  <2>4. /\ Len(nodes) \in Nat /\ Len(pack) \in Nat
        /\ DOMAIN nodes = 1..Len(nodes)
    BY DEF RefineInv, PositionalInv, TypeOK
  <2>5. \A m \in 1..(Len(nodes) - Len(pack)) : nodes[m].arg >= i + 1
    BY <2>1, <2>2, <2>3, <2>4 DEF Agrees
  <2> QED BY <2>1, <2>5 DEF Agrees
<1>3. CASE LookingAround
  BY <1>3 DEF LookingAround
<1> QED BY <1>1, <1>2, <1>3, StepDecides

(* When the loop is done, the pack it rebuilt is the one it agreed with.   *)
LEMMA AgreesAtEnd ==
  ASSUME TypeOK, NEW nodes \in Seq(Node), NEW n \in Nat,
         \A m \in DOMAIN nodes : nodes[m].arg <= n, Agrees(nodes, pack, n + 1)
  PROVE  pack = nodes
<1>1. /\ Len(nodes) \in Nat /\ DOMAIN nodes = 1..Len(nodes)
      /\ Len(pack) \in Nat /\ DOMAIN pack = 1..Len(pack)
      /\ pack \in Seq(Node)
  BY DEF TypeOK
<1>2. \A m \in DOMAIN nodes : nodes[m].arg \in Nat
  <2>1. \A m \in DOMAIN nodes : nodes[m] \in Node
    OBVIOUS
  <2> QED BY <2>1 DEF Node
<1>3. Len(nodes) = Len(pack)
  <2>1. ASSUME Len(pack) < Len(nodes) PROVE FALSE
    <3>1. 1 \in 1..(Len(nodes) - Len(pack)) /\ 1 \in DOMAIN nodes
      BY <1>1, <2>1
    <3> QED BY <1>2, <3>1 DEF Agrees
  <2>2. Len(pack) <= Len(nodes)
    BY DEF Agrees
  <2>3. \A a, b \in Nat : a <= b /\ ~(a < b) => b = a
    OBVIOUS
  <2> QED BY <1>1, <2>1, <2>2, <2>3
<1>4. \A m \in 1..Len(pack) : pack[m] = nodes[m]
  BY <1>1, <1>3 DEF Agrees
<1> QED BY <1>1, <1>3, <1>4

-----------------------------------------------------------------------------
(* The assertion complains of the key its argument was about to get, which *)
(* a node of the pack has already.                                         *)
AssertedDecision ==
  pc = "static_assert" =>
    /\ Decision(pack, i) = specs[d].key
    /\ \E m \in DOMAIN pack : pack[m].key = specs[d].key

(* An assertion that fires is about a key that a node has already.        *)
LEMMA AssertedDecisionStep ==
  ASSUME RefineInv, UsedInv, AssertedDecision, [MakeArgListStep]_makeArgListVars
  PROVE  AssertedDecision'
<1>1. CASE FailAssertion
  <2>1. /\ UNCHANGED <<specs, args, d, i, pack>>
        /\ AtDeducedSpec /\ is_deduced(specs[d]) /\ Accepted
        /\ specs[d].key \in used
    BY <1>1 DEF FailAssertion, SeveralArgumentsAssertion, tag_type, callVars
  <2>2. Decision(pack, i) = specs[d].key
    BY <2>1, AssignsAccepting, DecidesByPack
  <2>3. \E m \in DOMAIN pack : pack[m].key = specs[d].key
    BY <2>1 DEF UsedInv, NotPositionalKeys
  <2>4. \A nodes, j : Decision(nodes, j)' = Decision(nodes, j)
    BY <2>1, DecisionUnchanged
  <2>5. Decision(pack', i') = specs[d].key
    BY <2>1, <2>2
  <2>6. Decision(pack, i)' = specs[d].key
    BY <2>4, <2>5
  <2> QED BY <2>1, <2>3, <2>6 DEF AssertedDecision
<1>2. CASE UNCHANGED makeArgListVars
  <2>1. UNCHANGED <<specs, args, d, i, pack, pc>>
    BY <1>2 DEF makeArgListVars
  <2>2. \A nodes, j : Decision(nodes, j)' = Decision(nodes, j)
    BY <2>1, DecisionUnchanged
  <2>3. Decision(pack, i)' = Decision(pack', i')
    BY <2>2
  <2>4. Decision(pack, i)' = Decision(pack, i)
    BY <2>1, <2>3
  <2> QED BY <2>1, <2>4 DEF AssertedDecision
<1>3. CASE ~FailAssertion /\ ~UNCHANGED makeArgListVars
  BY <1>3 DEF MakeArgListStep, UseTagged, TagPositionally, StartDeduction, SkipSpec, TagDeduced,
              LeaveUnmatched, ReturnPack, NextItem, AtDeducedSpec, AssertedDecision
<1> QED BY <1>1, <1>2, <1>3

-----------------------------------------------------------------------------
(* All that a user of the loop may rely on.                                *)
CallInv ==
  /\ LoopInv
  /\ RefineInv
  /\ UsedInv
  /\ Resolved(pack, i - 1)
  /\ AssertedDecision

(* The loop starts in the invariant of the call.                           *)
LEMMA CallInit == Init => CallInv
<1> SUFFICES ASSUME Init PROVE CallInv
  OBVIOUS
<1>1. LoopInv /\ RefineInv /\ UsedInv
  BY LoopInit, RefineInit, UsedInit DEF RefineInv, UsedInv
<1>2. i - 1 = 0 /\ pc = "item"
  BY DEF Init, StartLoop
<1>3. Resolved(pack, i - 1)
  BY <1>2 DEF Resolved
<1> QED BY <1>1, <1>2, <1>3 DEF CallInv, AssertedDecision

(* Every step of the loop keeps the invariant of the call.                 *)
LEMMA CallStep == CallInv /\ [MakeArgListStep]_makeArgListVars => CallInv'
<1> SUFFICES ASSUME CallInv, [MakeArgListStep]_makeArgListVars PROVE CallInv'
  OBVIOUS
<1>1. LoopInv' /\ RefineInv'
  BY LoopStep, RefineStep DEF CallInv
<1>2. UsedInv'
  BY <1>1, UsedStep DEF CallInv, UsedInv, RefineInv
<1> QED BY <1>1, <1>2, ResolvedStep, AssertedDecisionStep DEF CallInv

=============================================================================
