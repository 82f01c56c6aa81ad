------------------------- MODULE Parameters_proofs -------------------------
(***************************************************************************)
(* Proofs about one call of parameters<Spec...>, for every parameter list, *)
(* every call and every meaning of the predicates.  What the two runs of   *)
(* make_arg_list contribute is taken from TagAssignment_proofs.              *)
(***************************************************************************)
EXTENDS Parameters, TLAPS

LP == INSTANCE TagAssignment_proofs

(* The loop of Parameters is the loop proved about, action by action.      *)
LEMMA SameTypeOK == Loop!TypeOK <=> LP!TypeOK
  BY DEF Loop!TypeOK, LP!TypeOK, Loop!ItemCount, LP!ItemCount, Loop!Node, LP!Node,
         Loop!PcValues, LP!PcValues

(* Both instances of the loop start alike.                                 *)
LEMMA SameInit ==
  /\ Loop!StartLoop <=> LP!StartLoop
  /\ Loop!RestartLoop <=> LP!StartLoop'
  BY DEF Loop!StartLoop, LP!StartLoop, Loop!RestartLoop

(* Both instances of the loop step alike.                                  *)
LEMMA SameStep == Loop!MakeArgListStep <=> LP!MakeArgListStep
<1> USE DEF Loop!ItemCount, LP!ItemCount, Loop!AtItem, LP!AtItem,
            Loop!is_named_argument, LP!is_named_argument, Loop!NextItem, LP!NextItem,
            Loop!Prepend, LP!Prepend, Loop!callVars, LP!callVars,
            Loop!is_deduced, LP!is_deduced, Loop!tag_type, LP!tag_type
<1>1. Loop!UseTagged <=> LP!UseTagged
  BY DEF Loop!UseTagged, LP!UseTagged
<1>2. Loop!StaysPositional <=> LP!StaysPositional
  BY DEF Loop!StaysPositional, LP!StaysPositional
<1>3. Loop!TagPositionally <=> LP!TagPositionally
  BY <1>2 DEF Loop!TagPositionally, LP!TagPositionally
<1>4. Loop!StartDeduction <=> LP!StartDeduction
  BY <1>2 DEF Loop!StartDeduction, LP!StartDeduction
<1>5. /\ Loop!AtDeducedSpec <=> LP!AtDeducedSpec
      /\ Loop!Accepted = LP!Accepted
      /\ Loop!SeveralArgumentsAssertion <=> LP!SeveralArgumentsAssertion
  BY DEF Loop!AtDeducedSpec, LP!AtDeducedSpec, Loop!Accepted, LP!Accepted,
         Loop!deduce_tag_condition, LP!deduce_tag_condition, Loop!Bindings, LP!Bindings,
         Loop!SeveralArgumentsAssertion, LP!SeveralArgumentsAssertion
<1>6. Loop!SkipSpec <=> LP!SkipSpec
  BY <1>5 DEF Loop!SkipSpec, LP!SkipSpec
<1>7. Loop!TagDeduced <=> LP!TagDeduced
  BY <1>5 DEF Loop!TagDeduced, LP!TagDeduced
<1>8. Loop!FailAssertion <=> LP!FailAssertion
  BY <1>5 DEF Loop!FailAssertion, LP!FailAssertion
<1>9. Loop!LeaveUnmatched <=> LP!LeaveUnmatched
  BY DEF Loop!LeaveUnmatched, LP!LeaveUnmatched
<1>10. Loop!ReturnPack <=> LP!ReturnPack
  BY DEF Loop!ReturnPack, LP!ReturnPack
<1> QED
  BY <1>1, <1>3, <1>4, <1>6, <1>7, <1>8, <1>9, <1>10
  DEF Loop!MakeArgListStep, LP!MakeArgListStep

(* The loop's invariant, established by a start and kept by a step.        *)
LEMMA LoopStarts ==
  /\ specs \in SpecLists
  /\ args \in ArgLists
  /\ mp11 \in BOOLEAN
  /\ emits \in BOOLEAN
  /\ LP!StartLoop
  => LP!CallInv
  BY LP!CallInit, NoKeyAssumption, SpecListsAssumption, ArgListsAssumption
  DEF LP!Init, LP!ParameterSpec, LP!Argument, ParameterSpec, Argument

(* The loop restarts in its invariant, on any call.                        *)
LEMMA LoopRestarts ==
  /\ specs' \in SpecLists
  /\ args' \in ArgLists
  /\ mp11' \in BOOLEAN
  /\ emits' \in BOOLEAN
  /\ Loop!RestartLoop
  => LP!CallInv'
<1>1. (/\ specs \in SpecLists
       /\ args \in ArgLists
       /\ mp11 \in BOOLEAN
       /\ emits \in BOOLEAN
       /\ LP!StartLoop
       => LP!CallInv)'
  BY LoopStarts, PTL
<1> QED BY <1>1, SameInit

(* A step of the loop within the call keeps the loop's invariant.          *)
LEMMA LoopSteps == LP!CallInv /\ Loop!MakeArgListStep => LP!CallInv'
<1>1. LP!CallInv /\ [LP!MakeArgListStep]_(LP!makeArgListVars) => LP!CallInv'
  BY LP!CallStep, NoKeyAssumption, SpecListsAssumption, ArgListsAssumption
  DEF LP!ParameterSpec, LP!Argument, ParameterSpec, Argument
<1> QED BY <1>1, SameStep

(* So does a step of the call that leaves the loop alone.                  *)
LEMMA LoopStutters == LP!CallInv /\ UNCHANGED loopVars => LP!CallInv'
<1>1. LP!CallInv /\ [LP!MakeArgListStep]_(LP!makeArgListVars) => LP!CallInv'
  BY LP!CallStep, NoKeyAssumption, SpecListsAssumption, ArgListsAssumption
  DEF LP!ParameterSpec, LP!Argument, ParameterSpec, Argument
<1> QED BY <1>1 DEF loopVars, LP!makeArgListVars

(* What the invariant says in the words of Parameters.                     *)
LEMMA LoopFacts ==
  ASSUME LP!CallInv
  PROVE  /\ Loop!TypeOK
         /\ specs \in SpecLists /\ args \in ArgLists
         /\ pack \in Seq(Node)
         /\ Len(specs) \in Nat /\ Len(args) \in Nat
         /\ \A m \in DOMAIN pack :
              /\ pack[m].arg \in Nat
              /\ Len(pack) + 1 - m <= pack[m].arg
              /\ pack[m].arg <= Len(args) + 1 - m
<1>1. LP!TypeOK /\ LP!PackSpread
  BY DEF LP!CallInv, LP!LoopInv, LP!ErrorInv
<1>2. Loop!TypeOK
  BY <1>1, SameTypeOK
<1>3. /\ specs \in SpecLists
      /\ args \in ArgLists
      /\ pack \in Seq(Node)
  BY <1>2 DEF Loop!TypeOK, Loop!Node, Node
<1>4. specs \in Seq(ParameterSpec) /\ args \in Seq(Argument)
  BY <1>3, SpecListsAssumption, ArgListsAssumption
<1>5. Len(specs) \in Nat /\ Len(args) \in Nat
  BY <1>4
<1>6. i \in Nat /\ i <= Len(args) + 1
  BY <1>2, <1>5 DEF Loop!TypeOK, Loop!ItemCount
<1>7. DOMAIN pack \subseteq Nat /\ Len(pack) \in Nat
  BY <1>3
<1>8. ASSUME NEW m \in DOMAIN pack
      PROVE  /\ pack[m].arg \in Nat
             /\ Len(pack) + 1 - m <= pack[m].arg
             /\ pack[m].arg <= Len(args) + 1 - m
  <2>1. /\ pack[m].arg \in Nat
        /\ Len(pack) + 1 - m <= pack[m].arg
        /\ pack[m].arg <= i - m
    BY <1>1, <1>8 DEF LP!PackSpread
  <2> QED BY <2>1, <1>5, <1>6, <1>7
<1> QED BY <1>2, <1>3, <1>5, <1>8

(* The types the call needs of the loop.                                   *)
LEMMA LoopTypes ==
  LP!CallInv => /\ Loop!TypeOK
                /\ pack \in Seq(Node)
                /\ emits \in BOOLEAN
                /\ Len(specs) \in Nat
  BY LoopFacts DEF Loop!TypeOK

(* The same after a step.                                                  *)
LEMMA LoopTypesNext ==
  LP!CallInv' => /\ Loop!TypeOK'
                 /\ pack' \in Seq(Node)
                 /\ emits' \in BOOLEAN
                 /\ Len(specs') \in Nat
<1>1. (LP!CallInv => /\ Loop!TypeOK
                     /\ pack \in Seq(Node)
                     /\ emits \in BOOLEAN
                     /\ Len(specs) \in Nat)'
  BY LoopTypes, PTL
<1> QED BY <1>1 DEF Node

-----------------------------------------------------------------------------
(* Nodes are filled head first, with the arguments in reverse call order,  *)
(* from the result of a loop that ended without error.                     *)
StoredInv ==
  /\ phase \notin {"build", "bound", "hard_error"} => stored = <<>>
  /\ \A m \in DOMAIN stored : stored[m] = ReversedArg(m)
  /\ phase = "bound" => Len(stored) = Len(pack)
  /\ phase \in {"build", "bound"} => pc = "done" /\ error = 0

ParametersInv == LP!CallInv /\ TypeOK /\ StoredInv

(* The call starts in its invariant.                                       *)
LEMMA ParametersInit == Init => ParametersInv
<1> SUFFICES ASSUME Init PROVE ParametersInv
  OBVIOUS
<1>1. LP!CallInv
  BY SameInit, LoopStarts DEF Init
<1>2. /\ Loop!TypeOK
      /\ Len(specs) \in Nat
      /\ Len(pack) \in Nat
  BY <1>1, LoopTypes
<1>3. stored = <<>> /\ stored \in Seq(Nat) /\ matched \in Seq(Node) /\ Len(stored) = 0
  BY DEF Init
<1>4. phase = (IF filtered THEN "match" ELSE "bind") /\ emits = ~filtered /\ filtered \in BOOLEAN
  BY DEF Init
<1>5. TypeOK
  <2>1. phase \in Phases /\ (emits <=> phase \in {"bind", "build", "bound", "hard_error"})
    BY <1>4 DEF Phases
  <2>2. hides \in BOOLEAN /\ q \in 1..(Len(specs) + 1) /\ Len(stored) <= Len(pack)
    BY <1>2, <1>3 DEF Init
  <2> QED BY <1>2, <1>3, <1>4, <2>1, <2>2 DEF TypeOK
<1>6. StoredInv
  BY <1>3, <1>4 DEF StoredInv
<1> QED BY <1>1, <1>5, <1>6 DEF ParametersInv

(* The bookkeeping actions leave the loop alone.                           *)
LEMMA PhaseStep ==
  ASSUME ParametersInv,
         UNCHANGED <<loopVars, filtered, hides>>,
         phase' \in Phases,
         emits <=> phase' \in {"bind", "build", "bound", "hard_error"},
         q' \in 1..(Len(specs) + 1),
         matched' \in Seq(Node),
         stored' \in Seq(Nat),
         Len(stored') <= Len(pack)
  PROVE  LP!CallInv' /\ TypeOK'
<1>1. LP!CallInv'
  BY LoopStutters DEF ParametersInv
<1>2. Loop!TypeOK'
  BY <1>1, LoopTypesNext
<1> QED BY <1>1, <1>2 DEF ParametersInv, TypeOK, loopVars

(* Every step of the call keeps its invariant.                             *)
LEMMA ParametersStep == ParametersInv /\ [Next]_vars => ParametersInv'
<1> SUFFICES ASSUME ParametersInv, [Next]_vars PROVE ParametersInv'
  OBVIOUS
<1> USE DEF ParametersInv
<1>0. /\ Len(specs) \in Nat
      /\ Len(pack) \in Nat
      /\ Len(stored) \in Nat
      /\ pack \in Seq(Node)
      /\ stored \in Seq(Nat)
      /\ matched \in Seq(Node)
      /\ phase \in Phases
      /\ emits <=> phase \in {"bind", "build", "bound", "hard_error"}
      /\ q \in 1..(Len(specs) + 1)
      /\ Len(stored) <= Len(pack)
  BY LoopTypes DEF TypeOK
<1>1. CASE RunMakeArgList
  <2>1. phase \in {"match", "bind"} /\ Loop!MakeArgListStep
        /\ UNCHANGED <<filtered, hides, phase, q, matched, stored>>
    BY <1>1 DEF RunMakeArgList
  <2>2. LP!CallInv'
    BY <2>1, LoopSteps
  <2>3. Loop!TypeOK' /\ pack' \in Seq(Node) /\ Len(pack') \in Nat
    BY <2>2, LoopTypesNext
  <2>4. UNCHANGED <<specs, args, emits>>
    BY <2>1
    DEF Loop!MakeArgListStep, Loop!UseTagged, Loop!TagPositionally, Loop!StartDeduction,
        Loop!SkipSpec, Loop!TagDeduced, Loop!FailAssertion, Loop!LeaveUnmatched,
        Loop!ReturnPack, Loop!callVars
  <2>5. stored' = <<>>
    BY <2>1 DEF StoredInv
  <2>6. TypeOK'
    BY <2>1, <2>3, <2>4, <2>5 DEF TypeOK
  <2>7. StoredInv'
    BY <2>1, <2>5 DEF StoredInv
  <2> QED BY <2>2, <2>6, <2>7
<1>2. CASE BeginSatisfy
  <2>1. LP!CallInv' /\ TypeOK'
    BY <1>0, <1>2, PhaseStep DEF BeginSatisfy, Phases
  <2>2. StoredInv'
    BY <1>2 DEF BeginSatisfy, StoredInv
  <2> QED BY <2>1, <2>2
<1>3. CASE CheckSpec
  <2>1. LP!CallInv' /\ TypeOK'
    BY <1>0, <1>3, PhaseStep DEF CheckSpec
  <2>2. StoredInv'
    BY <1>3 DEF CheckSpec, StoredInv
  <2> QED BY <2>1, <2>2
<1>4. CASE RejectSpec \/ RejectError
  <2>1. LP!CallInv' /\ TypeOK'
    BY <1>0, <1>4, PhaseStep DEF RejectSpec, RejectError, Phases
  <2>2. StoredInv'
    BY <1>4 DEF RejectSpec, RejectError, StoredInv
  <2> QED BY <2>1, <2>2
<1>5. CASE CallBind
  <2>1. /\ phase' = "bind"
        /\ emits' = TRUE
        /\ Loop!RestartLoop
        /\ UNCHANGED <<specs, args, mp11, filtered, hides, q, matched, stored>>
        /\ phase = "satisfy"
    BY <1>5 DEF CallBind
  <2>2. specs \in SpecLists /\ args \in ArgLists /\ mp11 \in BOOLEAN
    BY DEF TypeOK, Loop!TypeOK
  <2>3. LP!CallInv'
    BY <2>1, <2>2, LoopRestarts
  <2>4. Loop!TypeOK' /\ Len(pack') \in Nat
    BY <2>3, LoopTypesNext
  <2>5. stored' = <<>>
    BY <2>1 DEF StoredInv
  <2>6. TypeOK'
    BY <2>1, <2>4, <2>5 DEF TypeOK, Phases
  <2>7. StoredInv'
    BY <2>1, <2>5 DEF StoredInv
  <2> QED BY <2>3, <2>6, <2>7
<1>6. CASE FailBind
  <2>1. LP!CallInv' /\ TypeOK'
    BY <1>0, <1>6, PhaseStep DEF FailBind, Phases
  <2>2. StoredInv'
    BY <1>6 DEF FailBind, StoredInv, ReversedArg, loopVars
  <2> QED BY <2>1, <2>2
<1>7. CASE BeginBuild
  <2>1. LP!CallInv' /\ TypeOK'
    BY <1>0, <1>7, PhaseStep DEF BeginBuild, Phases
  <2>2. StoredInv'
    BY <1>7 DEF BeginBuild, StoredInv, ReversedArg, loopVars
  <2> QED BY <2>1, <2>2
<1>8. CASE StoreNode
  <2>1. /\ phase = "build"
        /\ Len(stored) + 1 <= Len(pack)
        /\ stored' = Append(stored, ReversedArg(Len(stored) + 1))
        /\ UNCHANGED <<loopVars, filtered, hides, phase, q, matched>>
    BY <1>8 DEF StoreNode, NextNode
  <2>2. Len(pack) <= Len(args) /\ Len(args) \in Nat
    <3>1. 1 \in DOMAIN pack
      BY <1>0, <2>1
    <3>2. Len(args) \in Nat /\ pack[1].arg \in Nat
      BY <3>1, LoopFacts
    <3>3. Len(pack) + 1 - 1 <= pack[1].arg /\ pack[1].arg <= Len(args) + 1 - 1
      BY <3>1, LoopFacts
    <3> QED BY <1>0, <3>2, <3>3
  <2>3. ReversedArg(Len(stored) + 1) \in Nat
    BY <1>0, <2>1, <2>2 DEF ReversedArg
  <2>4. stored' \in Seq(Nat) /\ Len(stored') = Len(stored) + 1
    BY <1>0, <2>1, <2>3
  <2>5. LP!CallInv' /\ TypeOK'
    BY <1>0, <2>1, <2>4, PhaseStep
  <2>6. \A m \in DOMAIN stored' : stored'[m] = ReversedArg(m)
    <3>1. DOMAIN stored' = 1..(Len(stored) + 1) /\ DOMAIN stored = 1..Len(stored)
      BY <1>0, <2>1, <2>3
    <3>2. \A m \in 1..Len(stored) : stored'[m] = stored[m]
      BY <1>0, <2>1, <2>3
    <3>3. stored'[Len(stored) + 1] = ReversedArg(Len(stored) + 1)
      BY <1>0, <2>1, <2>3
    <3> QED BY <1>0, <3>1, <3>2, <3>3 DEF StoredInv
  <2>7. StoredInv'
    BY <2>1, <2>6 DEF StoredInv, ReversedArg, loopVars
  <2> QED BY <2>5, <2>7
<1>9. CASE FailNode
  <2>1. LP!CallInv' /\ TypeOK'
    BY <1>0, <1>9, PhaseStep DEF FailNode, Phases
  <2>2. StoredInv'
    BY <1>9 DEF FailNode, StoredInv, ReversedArg, loopVars
  <2> QED BY <2>1, <2>2
<1>10. CASE FinishBuild
  <2>1. LP!CallInv' /\ TypeOK'
    BY <1>0, <1>10, PhaseStep DEF FinishBuild, Phases
  <2>2. Len(stored) = Len(pack)
    BY <1>0, <1>10 DEF FinishBuild, NextNode
  <2>3. StoredInv'
    BY <1>10, <2>2 DEF FinishBuild, StoredInv, ReversedArg, loopVars
  <2> QED BY <2>1, <2>3
<1>11. CASE UNCHANGED vars
  <2>1. LP!CallInv'
    BY <1>11, LoopStutters DEF vars
  <2>2. TypeOK'
    BY <2>1, <1>11, LoopTypesNext DEF vars, loopVars, TypeOK
  <2>3. StoredInv'
    BY <1>11 DEF vars, loopVars, StoredInv, ReversedArg
  <2> QED BY <2>1, <2>2, <2>3
<1> QED
  BY <1>1, <1>2, <1>3, <1>4, <1>5, <1>6, <1>7, <1>8, <1>9, <1>10, <1>11 DEF Next

-----------------------------------------------------------------------------
(* Every reachable state of a call is well typed.                          *)
THEOREM ParametersTypeCorrect == Spec => []TypeOK
<1>1. ParametersInv => TypeOK
  BY DEF ParametersInv
<1> QED BY <1>1, ParametersInit, ParametersStep, PTL DEF Spec

(* A strictly decreasing sequence of n positions among n has no choice.    *)
LEMMA AlignedNode ==
  ASSUME ParametersInv, Len(pack) = Len(args), NEW m \in DOMAIN stored
  PROVE  stored[m] = pack[m].arg
<1>1. stored[m] = Len(args) + 1 - m
  BY DEF ParametersInv, StoredInv, ReversedArg
<1>2. m \in DOMAIN pack /\ m \in Nat
  <2>1. stored \in Seq(Nat) /\ pack \in Seq(Node) /\ Len(stored) <= Len(pack)
    BY LoopTypes DEF ParametersInv, TypeOK
  <2> QED BY <2>1
<1>3. /\ Len(args) \in Nat
      /\ pack[m].arg \in Nat
      /\ Len(pack) + 1 - m <= pack[m].arg
      /\ pack[m].arg <= Len(args) + 1 - m
  BY <1>2, LoopFacts DEF ParametersInv
<1> QED BY <1>1, <1>2, <1>3

(* When every argument has a node, each node stores its own argument: the  *)
(* spread of the pack leaves node m no argument but the m-th from the end. *)
THEOREM Alignment == Spec => []CompletePackIsAligned
<1>1. ParametersInv => CompletePackIsAligned
  BY AlignedNode DEF ParametersInv, StoredInv, CompletePackIsAligned
<1> QED BY <1>1, ParametersInit, ParametersStep, PTL DEF Spec

-----------------------------------------------------------------------------
(* A triple of numbers descends with the first that changes.               *)
LEMMA TripleDescends ==
  ASSUME NEW a \in Nat, NEW b \in Nat, NEW c \in Nat,
         NEW a1 \in Nat, NEW b1 \in Nat, NEW c1 \in Nat,
         a1 < a \/ (a1 = a /\ b1 < b) \/ (a1 = a /\ b1 = b /\ c1 < c)
  PROVE  Descends(3, <<a, b, c>>, <<a1, b1, c1>>)
<1>1. <<a, b, c>> \in [1 .. 3 -> Nat] /\ <<a1, b1, c1>> \in [1 .. 3 -> Nat]
  OBVIOUS
<1>2. CASE a1 < a
  <2>1. \A l \in 1 .. (1 - 1) : <<a1, b1, c1>>[l] = <<a, b, c>>[l]
    OBVIOUS
  <2> QED BY <1>1, <1>2, <2>1 DEF Descends
<1>3. CASE a1 = a /\ b1 < b
  <2>1. \A l \in 1 .. (2 - 1) : <<a1, b1, c1>>[l] = <<a, b, c>>[l]
    BY <1>3
  <2> QED BY <1>1, <1>3, <2>1 DEF Descends
<1>4. CASE a1 = a /\ b1 = b /\ c1 < c
  <2>1. \A l \in 1 .. (3 - 1) : <<a1, b1, c1>>[l] = <<a, b, c>>[l]
    BY <1>4
  <2> QED BY <1>1, <1>4, <2>1 DEF Descends
<1> QED BY <1>2, <1>3, <1>4

(* The measure of a call while a loop runs.                                *)
LEMMA LoopWork ==
  /\ phase = "match" => CallLeft = <<4, LP!ItemsLeft, LP!SpecsLeft>>
  /\ phase = "bind" => CallLeft = <<2, LP!ItemsLeft, LP!SpecsLeft>>
  BY DEF CallLeft, Loop!ItemsLeft, LP!ItemsLeft, Loop!ItemCount, LP!ItemCount,
         Loop!SpecsLeft, LP!SpecsLeft

(* The measure of a call consists of three numbers, the first of which     *)
(* tells the phase.                                                        *)
Rank ==
  CASE phase = "match"   -> 4
    [] phase = "satisfy" -> 3
    [] phase = "bind"    -> 2
    [] phase = "build"   -> 1
    [] OTHER             -> 0

(* So it does in every state of the invariant.                             *)
LEMMA CallLeftShape ==
  ParametersInv => \E b \in Nat, c \in Nat : CallLeft = <<Rank, b, c>>
<1> SUFFICES ASSUME ParametersInv
             PROVE  \E b \in Nat, c \in Nat : CallLeft = <<Rank, b, c>>
  OBVIOUS
<1>1. /\ Len(specs) \in Nat /\ q \in 1..(Len(specs) + 1)
      /\ Len(pack) \in Nat /\ Len(stored) \in Nat /\ Len(stored) <= Len(pack)
  BY LoopTypes DEF ParametersInv, TypeOK
<1>2. LP!ItemsLeft \in Nat /\ LP!SpecsLeft \in Nat
  <2>1. LP!TypeOK
    BY LoopTypes, SameTypeOK DEF ParametersInv
  <2> QED BY <2>1, LP!WorkLeftNat, NoKeyAssumption, SpecListsAssumption, ArgListsAssumption
          DEF LP!ParameterSpec, LP!Argument, ParameterSpec, Argument
<1>3. CASE phase = "match"
  BY <1>2, <1>3, LoopWork DEF Rank
<1>4. CASE phase = "bind"
  BY <1>2, <1>4, LoopWork DEF Rank
<1>5. CASE phase = "satisfy"
  <2>1. CallLeft = <<3, Len(specs) + 1 - q, 0>> /\ Rank = 3
    BY <1>5 DEF CallLeft, Rank
  <2> QED BY <1>1, <2>1
<1>6. CASE phase = "build"
  <2>1. CallLeft = <<1, Len(pack) - Len(stored), 0>> /\ Rank = 1
    BY <1>6 DEF CallLeft, Rank
  <2>2. Len(pack) - Len(stored) \in Nat
    BY <1>1
  <2> QED BY <2>1, <2>2
<1>7. CASE phase \notin {"match", "satisfy", "bind", "build"}
  <2>1. CallLeft = <<0, 0, 0>> /\ Rank = 0
    BY <1>7 DEF CallLeft, Rank
  <2> QED BY <2>1
<1> QED BY <1>3, <1>4, <1>5, <1>6, <1>7

(* Every step of a call brings its decision closer.                        *)
LEMMA CallShrinks ==
  ParametersInv /\ ParametersInv' /\ [Next]_vars => [Descends(3, CallLeft, CallLeft')]_vars
<1> SUFFICES ASSUME ParametersInv, ParametersInv', Next
             PROVE  Descends(3, CallLeft, CallLeft')
  OBVIOUS
<1>1. Rank \in Nat /\ Rank' \in Nat
  BY DEF Rank
<1>2. /\ \E b \in Nat, c \in Nat : CallLeft = <<Rank, b, c>>
      /\ \E b \in Nat, c \in Nat : CallLeft' = <<Rank', b, c>>
  <2>1. (\E b \in Nat, c \in Nat : CallLeft = <<Rank, b, c>>)'
    BY CallLeftShape, PTL
  <2> QED BY <2>1, CallLeftShape
<1>3. Rank' < Rank => Descends(3, CallLeft, CallLeft')
  BY <1>1, <1>2, TripleDescends
<1>4. /\ Len(specs) \in Nat /\ q \in 1..(Len(specs) + 1)
      /\ Len(pack) \in Nat /\ Len(stored) \in Nat /\ stored \in Seq(Nat)
  BY LoopTypes DEF ParametersInv, TypeOK
<1>5. CASE RunMakeArgList
  <2>1. phase \in {"match", "bind"} /\ phase' = phase /\ LP!MakeArgListStep
    BY <1>5, SameStep DEF RunMakeArgList
  <2>2. LP!TypeOK
    BY LoopTypes, SameTypeOK DEF ParametersInv
  <2>3. /\ LP!ItemsLeft \in Nat /\ LP!ItemsLeft' \in Nat
        /\ LP!SpecsLeft \in Nat /\ LP!SpecsLeft' \in Nat
        /\ \/ LP!ItemsLeft' < LP!ItemsLeft
           \/ LP!ItemsLeft' = LP!ItemsLeft /\ LP!SpecsLeft' < LP!SpecsLeft
    BY <2>1, <2>2, LP!WorkShrinks, NoKeyAssumption, SpecListsAssumption, ArgListsAssumption
    DEF LP!ParameterSpec, LP!Argument, ParameterSpec, Argument
  <2>4. (/\ phase = "match" => CallLeft = <<4, LP!ItemsLeft, LP!SpecsLeft>>
         /\ phase = "bind" => CallLeft = <<2, LP!ItemsLeft, LP!SpecsLeft>>)'
    BY LoopWork, PTL
  <2>5. CASE phase = "match"
    BY <2>1, <2>3, <2>4, <2>5, LoopWork, TripleDescends
  <2>6. CASE phase = "bind"
    BY <2>1, <2>3, <2>4, <2>6, LoopWork, TripleDescends
  <2> QED BY <2>1, <2>5, <2>6
<1>6. CASE BeginSatisfy
  BY <1>3, <1>6 DEF BeginSatisfy, Rank
<1>7. CASE CheckSpec
  <2>1. /\ phase = "satisfy" /\ phase' = phase /\ q <= Len(specs) /\ q' = q + 1
        /\ specs' = specs
    BY <1>7 DEF CheckSpec, loopVars
  <2>2. /\ CallLeft = <<3, Len(specs) + 1 - q, 0>>
        /\ CallLeft' = <<3, Len(specs) + 1 - (q + 1), 0>>
    BY <2>1 DEF CallLeft
  <2>3. /\ Len(specs) + 1 - q \in Nat /\ Len(specs) + 1 - (q + 1) \in Nat
        /\ Len(specs) + 1 - (q + 1) < Len(specs) + 1 - q
    BY <1>4, <2>1
  <2> QED BY <2>2, <2>3, TripleDescends
<1>8. CASE RejectSpec \/ RejectError \/ CallBind
  BY <1>3, <1>8 DEF RejectSpec, RejectError, CallBind, Rank
<1>9. CASE FailBind \/ BeginBuild
  BY <1>3, <1>9 DEF FailBind, BeginBuild, Rank
<1>10. CASE StoreNode
  <2>1. /\ phase = "build" /\ phase' = phase /\ Len(stored) + 1 <= Len(pack)
        /\ pack' = pack /\ stored' = Append(stored, ReversedArg(Len(stored) + 1))
    BY <1>10 DEF StoreNode, NextNode, loopVars
  <2>2. Len(stored') = Len(stored) + 1
    BY <1>4, <2>1
  <2>3. /\ CallLeft = <<1, Len(pack) - Len(stored), 0>>
        /\ CallLeft' = <<1, Len(pack) - (Len(stored) + 1), 0>>
    BY <2>1, <2>2 DEF CallLeft
  <2>4. /\ Len(pack) - Len(stored) \in Nat /\ Len(pack) - (Len(stored) + 1) \in Nat
        /\ Len(pack) - (Len(stored) + 1) < Len(pack) - Len(stored)
    BY <1>4, <2>1
  <2> QED BY <2>3, <2>4, TripleDescends
<1>11. CASE FailNode \/ FinishBuild
  BY <1>3, <1>11 DEF FailNode, FinishBuild, Rank
<1> QED
  BY <1>5, <1>6, <1>7, <1>8, <1>9, <1>10, <1>11 DEF Next

(* Every call is decided after finitely many steps, if only it goes on:    *)
(* for every parameter list, every call and every meaning of the predicates*)
(* each step is smaller than the one before in the order of DescentEnds.   *)
THEOREM CallsEnd == Spec => CallDescends
<1>1. ParametersInv /\ [Next]_vars => ParametersInv' /\ [Descends(3, CallLeft, CallLeft')]_vars
  BY ParametersStep, CallShrinks
<1> QED BY <1>1, ParametersInit, PTL DEF Spec, CallDescends

=============================================================================
