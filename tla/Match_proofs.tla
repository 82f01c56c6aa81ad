---------------------------- MODULE Match_proofs ----------------------------
(***************************************************************************)
(* Proofs about the two runs of make_arg_list in one call: match<> decides *)
(* on a pack, operator() builds a pack, and the two are the same.  What    *)
(* one run leaves in its pack, as a statement about that pack alone, is    *)
(* taken from TagAssignment_proofs.                                        *)
(***************************************************************************)
EXTENDS Parameters_proofs, FiniteSetTheorems

(* As many keys as nodes: no two nodes have the same key.                  *)
LEMMA UnambiguousIsInjective ==
  ASSUME NEW nodes \in Seq(Node), Unambiguous(nodes),
         NEW m \in DOMAIN nodes, NEW n \in DOMAIN nodes, nodes[m].key = nodes[n].key
  PROVE  m = n
<1> DEFINE f == [k \in 1..Len(nodes) |-> nodes[k].key]
<1>1. Len(nodes) \in Nat /\ DOMAIN nodes = 1..Len(nodes)
  OBVIOUS
<1>2. f \in Surjection(1..Len(nodes), KeysOf(nodes))
  BY <1>1 DEF Surjection, KeysOf
<1>3. IsFiniteSet(1..Len(nodes)) /\ Cardinality(1..Len(nodes)) = Len(nodes)
  <2>1. 1 \in Int /\ Len(nodes) \in Int
    BY <1>1
  <2>2. /\ IsFiniteSet(1..Len(nodes))
        /\ Cardinality(1..Len(nodes)) = IF 1 > Len(nodes) THEN 0 ELSE Len(nodes) - 1 + 1
    BY <2>1, FS_Interval, Zenon
  <2> QED BY <1>1, <2>2
<1>4. f \in Injection(1..Len(nodes), KeysOf(nodes))
  <2>1. Cardinality(KeysOf(nodes)) = Cardinality(1..Len(nodes))
    BY <1>3 DEF Unambiguous
  <2> QED BY <1>2, <1>3, <2>1, FS_Surjection
<1>5. f[m] = f[n] => m = n
  BY <1>1, <1>4 DEF Injection, IsInjective
<1> QED BY <1>1, <1>5

(* On such a pack satisfies_requirements_of answers what the documentation *)
(* states, whether or not a node hides the ones below it.                  *)
LEMMA SatisfactionAgrees ==
  ASSUME pack \in Seq(Node), Unambiguous(pack), NEW spec
  PROVE  SatisfiesRequirementsOf(spec) <=> SpecIsSatisfied(spec, pack)
<1>1. CASE NodesOf(spec.key) = {}
  <2>1. spec.key \notin KeysOf(pack) /\ \A m \in DOMAIN pack : pack[m].key # spec.key
    BY <1>1 DEF NodesOf, KeysOf
  <2> QED BY <1>1, <2>1 DEF SatisfiesRequirementsOf, SpecIsSatisfied, has_default, tag_type
<1>2. CASE NodesOf(spec.key) # {}
  <2>1. PICK m \in DOMAIN pack : pack[m].key = spec.key
    BY <1>2 DEF NodesOf
  <2>2. NodesOf(spec.key) = {m}
    BY <2>1, UnambiguousIsInjective DEF NodesOf
  <2>3. Cardinality(NodesOf(spec.key)) = 1
    BY <2>2, FS_Singleton
  <2>4. Innermost(spec.key) = m
    <3>1. m <= m
      <4>1. m \in Nat
        BY <2>1
      <4> QED BY <4>1
    <3> QED BY <2>2, <3>1 DEF Innermost
  <2>5. SatisfiesRequirementsOf(spec) <=>
          Holds(spec.pred, args[pack[m].arg].type, Bindings(pack, args))
    BY <1>2, <2>3, <2>4 DEF SatisfiesRequirementsOf, tag_type
  <2>6. spec.key \in KeysOf(pack)
    BY <2>1 DEF KeysOf
  <2>7. \A n \in DOMAIN pack : pack[n].key = spec.key => n = m
    BY <2>1, UnambiguousIsInjective
  <2> QED BY <2>1, <2>5, <2>6, <2>7 DEF SpecIsSatisfied
<1> QED BY <1>1, <1>2

-----------------------------------------------------------------------------
(* A pack make_arg_list returns for the call: every argument is in it as   *)
(* decided, latest first.                                                  *)
PackOfTheCall(nodes) ==
  /\ LP!Ordered(nodes)
  /\ \A m \in DOMAIN nodes : nodes[m].arg \in 1..LP!ItemCount(specs, args)
  /\ LP!Resolved(nodes, LP!ItemCount(specs, args))

(* What the decision and the second run owe to the first.                  *)
MatchInv ==
  /\ phase \in {"match", "satisfy", "not_viable"} => filtered
  /\ phase = "match" => q = 1
  /\ phase = "satisfy" => matched = pack /\ (error # 0 <=> ErrorIsPending(matched))
  /\ Viable => ~ErrorIsPending(matched)
  /\ phase \in {"satisfy", "not_viable"} \/ Viable => PackOfTheCall(matched)
  /\ (phase = "satisfy" \/ Viable) /\ Unambiguous(matched) =>
       \A p \in 1..(q - 1) : SpecIsSatisfied(specs[p], matched)
  /\ Viable => q = Len(specs) + 1 /\ LP!Agrees(matched, pack, i)
  /\ phase = "not_viable" /\ Unambiguous(matched) =>
       ErrorIsPending(matched) \/ \E p \in DOMAIN specs : ~SpecIsSatisfied(specs[p], matched)
  /\ ViableFailsOnlyOnDuplicateOrLoss

(* The invariant of the call with that of the match.                       *)
CallDecided == ParametersInv /\ MatchInv

(* A call starts with its match, or without one at the binding.            *)
LEMMA MatchInit == Init => CallDecided
<1> SUFFICES ASSUME Init PROVE MatchInv
  BY ParametersInit DEF CallDecided
<1>1. phase = (IF filtered THEN "match" ELSE "bind") /\ q = 1
  BY DEF Init
<1> QED BY <1>1 DEF MatchInv, Viable, ViableFailsOnlyOnDuplicateOrLoss

(* The loop as the composition sees it.                                    *)
LEMMA LoopInWords ==
  ASSUME ParametersInv
  PROVE  /\ LP!CallInv /\ LP!RefineInv /\ LP!TypeOK
         /\ pack \in Seq(LP!Node) /\ matched \in Seq(LP!Node)
         /\ pack \in Seq(Node) /\ matched \in Seq(Node)
         /\ Len(specs) \in Nat /\ DOMAIN specs = 1..Len(specs)
         /\ Len(args) \in Nat /\ DOMAIN args = 1..Len(args)
         /\ \A j \in DOMAIN args : args[j].type \in Types
         /\ LP!ItemCount(specs, args) \in Nat
         /\ LP!ItemCount(specs, args) <= Len(args)
         /\ i \in 1..(LP!ItemCount(specs, args) + 1)
         /\ pc = "done" => i = LP!ItemCount(specs, args) + 1
<1>1. LP!CallInv /\ LP!RefineInv /\ LP!TypeOK /\ LP!DoneMeansAll
  BY DEF ParametersInv, LP!CallInv, LP!LoopInv, LP!ErrorInv
<1>2. LP!Node = Node
  BY DEF LP!Node, Node
<1>3. pack \in Seq(Node) /\ matched \in Seq(Node) /\ Len(specs) \in Nat /\ Len(args) \in Nat
  BY LoopFacts DEF ParametersInv, TypeOK
<1>4. specs \in Seq(ParameterSpec) /\ args \in Seq(Argument)
  BY <1>1, SpecListsAssumption, ArgListsAssumption DEF LP!TypeOK
<1>5. \A j \in DOMAIN args : args[j].type \in Types
  <2>1. \A j \in DOMAIN args : args[j] \in Argument
    BY <1>4
  <2> QED BY <2>1 DEF Argument
<1>6. DOMAIN specs = 1..Len(specs) /\ DOMAIN args = 1..Len(args)
  BY <1>4
<1>7. LP!ItemCount(specs, args) \in Nat /\ LP!ItemCount(specs, args) <= Len(args)
  BY <1>3 DEF LP!ItemCount
<1>8. i \in 1..(LP!ItemCount(specs, args) + 1)
  BY <1>1 DEF LP!TypeOK
<1>9. pc = "done" => i = LP!ItemCount(specs, args) + 1
  BY <1>1 DEF LP!DoneMeansAll
<1> QED BY <1>1, <1>2, <1>3, <1>5, <1>6, <1>7, <1>8, <1>9

(* A finished run has put the whole call in its pack.                      *)
LEMMA FinishedRun ==
  ASSUME ParametersInv, pc = "done"
  PROVE  PackOfTheCall(pack)
<1>1. LP!PackReversesCall /\ LP!Resolved(pack, i - 1)
  BY LoopInWords DEF LP!CallInv, LP!LoopInv, LP!ErrorInv
<1>2. i - 1 = LP!ItemCount(specs, args)
  BY LoopInWords
<1> QED BY <1>1, <1>2 DEF PackOfTheCall, LP!PackReversesCall, LP!Ordered

(* What a finished run leaves in Error can be read off its pack.           *)
LEMMA FinishedRunError ==
  ASSUME ParametersInv, pc = "done"
  PROVE  error # 0 <=> ErrorIsPending(pack)
<1> DEFINE n == ItemCount(specs, args)
           EndsWith(r) == /\ \A j \in (n + 1 - r)..n : Lost(pack, j)
                          /\ r = n \/ ~Lost(pack, n - r)
<1>1. n \in Nat /\ i = n + 1
  <2>1. n = LP!ItemCount(specs, args)
    BY DEF ItemCount, LP!ItemCount
  <2> QED BY <2>1, LoopInWords
<1>2. LP!ErrorIsParityOfLastRun
  BY LoopInWords DEF LP!CallInv, LP!LoopInv, LP!ErrorInv
<1>3. \A j : Lost(pack, j) <=> ~LP!InPack(j)
  BY DEF Lost, LP!InPack
<1>4. ASSUME NEW r \in 1..n
      PROVE  LP!UnmatchedRun(r) <=> EndsWith(r)
  <2>1. i - 1 = n /\ i - r = n + 1 - r /\ i - 1 - r = n - r /\ r \in 1..(i - 1)
    BY <1>1, <1>4
  <2> QED BY <1>3, <2>1, Zenon DEF LP!UnmatchedRun
<1>5. error # 0 <=> \E r \in 1..n : r % 2 = 1 /\ LP!UnmatchedRun(r)
  <2>1. i - 1 = n
    BY <1>1
  <2> QED BY <1>2, <2>1 DEF LP!ErrorIsParityOfLastRun
<1>6. ErrorIsPending(pack) <=> \E r \in 1..n : r % 2 = 1 /\ EndsWith(r)
  BY DEF ErrorIsPending
<1> HIDE DEF n, EndsWith
<1> QED BY <1>4, <1>5, <1>6, Zenon

(* A last argument that alone is unmatched leaves the error of its own run.*)
LEMMA LostLastIsPending ==
  ASSUME Len(args) \in Nat, Len(specs) \in Nat, Len(args) \in 1..Len(specs),
         NEW nodes, OnlyLastIsLost(nodes)
  PROVE  ErrorIsPending(nodes)
<1>1. ItemCount(specs, args) = Len(args)
  BY DEF ItemCount
<1>2. Lost(nodes, Len(args)) /\ (1 = Len(args) \/ ~Lost(nodes, Len(args) - 1))
  BY DEF OnlyLastIsLost
<1>3. \A j \in (Len(args) + 1 - 1)..Len(args) : j = Len(args)
  OBVIOUS
<1>4. 1 \in 1..Len(args) /\ 1 % 2 = 1
  OBVIOUS
<1> QED BY <1>1, <1>2, <1>3, <1>4, Zenon DEF ErrorIsPending

(* A finished second run has rebuilt the pack of the first.                *)
LEMMA FinishedSecondRun ==
  ASSUME CallDecided, Viable, pc = "done"
  PROVE  pack = matched
<1>1. PackOfTheCall(matched) /\ LP!Agrees(matched, pack, i)
  BY DEF CallDecided, MatchInv
<1>2. /\ LP!TypeOK /\ matched \in Seq(LP!Node)
      /\ LP!ItemCount(specs, args) \in Nat
      /\ i = LP!ItemCount(specs, args) + 1
  BY LoopInWords DEF CallDecided
<1>3. \A m \in DOMAIN matched : matched[m].arg <= LP!ItemCount(specs, args)
  BY <1>1, <1>2 DEF PackOfTheCall
<1> QED
  BY <1>1, <1>2, <1>3, LP!AgreesAtEnd, NoKeyAssumption, SpecListsAssumption, ArgListsAssumption
  DEF LP!ParameterSpec, LP!Argument, ParameterSpec, Argument

-----------------------------------------------------------------------------
(* The assertion of deduce_tag in the second run: the argument it stops at *)
(* has in the first run's pack a node of a key another node has already.   *)
LEMMA AssertedRunHasDuplicate ==
  ASSUME CallDecided, Viable, pc = "static_assert"
  PROVE  ~Unambiguous(matched)
<1>1. /\ PackOfTheCall(matched)
      /\ LP!Agrees(matched, pack, i)
  BY DEF CallDecided, MatchInv
<1>2. /\ LP!CallInv /\ LP!RefineInv /\ LP!TypeOK
      /\ matched \in Seq(Node) /\ matched \in Seq(LP!Node) /\ pack \in Seq(Node)
      /\ LP!ItemCount(specs, args) \in Nat
  BY LoopInWords DEF CallDecided
<1>3. PICK m \in DOMAIN pack : pack[m].key = specs[d].key
  BY <1>2 DEF LP!CallInv, LP!AssertedDecision
<1>4. specs[d].key # NoKey
  <2>1. pack[m] \in Node
    BY <1>2
  <2> QED BY <1>3, <2>1, NoKeyAssumption DEF Node
<1>5. LP!Decision(matched, i) = specs[d].key
  <2>1. LP!Decision(pack, i) = specs[d].key
    BY <1>2 DEF LP!CallInv, LP!AssertedDecision
  <2>2. LP!Decision(matched, i) = LP!Decision(pack, i)
    BY <1>1, <1>2, LP!SameDecision, NoKeyAssumption, SpecListsAssumption, ArgListsAssumption
    DEF LP!ParameterSpec, LP!Argument, ParameterSpec, Argument
  <2> QED BY <2>1, <2>2
<1>6. i \in 1..LP!ItemCount(specs, args)
  BY <1>2 DEF LP!TypeOK
<1>7. PICK n \in DOMAIN matched : matched[n].key = specs[d].key /\ matched[n].arg = i
  BY <1>1, <1>4, <1>5, <1>6 DEF PackOfTheCall, LP!Resolved, LP!Gives
<1>8. pack[m].arg < i
  <2>1. pack[m].arg \in 1..(i - 1) /\ i \in Int
    BY <1>2, <1>6 DEF LP!CallInv, LP!LoopInv, LP!ErrorInv, LP!PackReversesCall
  <2> QED BY <2>1
<1>9. /\ Len(matched) - Len(pack) + m \in DOMAIN matched
      /\ matched[Len(matched) - Len(pack) + m] = pack[m]
  <2>1. m \in 1..Len(pack) /\ Len(pack) \in Nat /\ Len(matched) \in Nat
    BY <1>2
  <2>2. Len(pack) <= Len(matched)
    BY <1>1 DEF LP!Agrees
  <2>3. Len(matched) - Len(pack) + m \in 1..Len(matched)
    BY <2>1, <2>2
  <2>4. matched[Len(matched) - Len(pack) + m] = pack[m]
    BY <1>1, <2>1 DEF LP!Agrees
  <2> QED BY <1>2, <2>3, <2>4
<1>10. n # Len(matched) - Len(pack) + m
  BY <1>6, <1>7, <1>8, <1>9
<1> QED BY <1>2, <1>3, <1>7, <1>9, <1>10, UnambiguousIsInjective

(* A run that ends with an error has lost its last argument.               *)
LEMMA ErrorMeansLoss ==
  ASSUME ParametersInv, pc = "done", error # 0
  PROVE  Len(pack) < Len(args)
<1>1. /\ LP!CallInv /\ pack \in Seq(Node) /\ Len(args) \in Nat
      /\ LP!ItemCount(specs, args) \in Nat
      /\ LP!ItemCount(specs, args) <= Len(args)
      /\ i \in 1..(LP!ItemCount(specs, args) + 1)
  BY LoopInWords
<1>2. LP!ErrorIsParityOfLastRun /\ LP!PackSpread
  BY <1>1 DEF LP!CallInv, LP!LoopInv, LP!ErrorInv
<1>3. PICK r \in 1..(i - 1) : LP!UnmatchedRun(r)
  BY <1>2 DEF LP!ErrorIsParityOfLastRun
<1>4. i - 1 \in (i - r)..(i - 1) /\ i >= 2
  BY <1>1, <1>3
<1>5. ~LP!InPack(i - 1)
  BY <1>3, <1>4 DEF LP!UnmatchedRun
<1>6. SUFFICES ASSUME Len(pack) >= Len(args) PROVE FALSE
  BY <1>1
<1>7. 1 \in DOMAIN pack /\ Len(pack) \in Nat
  BY <1>1, <1>4, <1>6
<1>8. /\ pack[1].arg \in Nat
      /\ Len(pack) + 1 - 1 <= pack[1].arg
      /\ pack[1].arg <= i - 1
  BY <1>2, <1>7 DEF LP!PackSpread
<1>9. pack[1].arg = i - 1
  BY <1>1, <1>4, <1>6, <1>7, <1>8
<1> QED BY <1>5, <1>7, <1>9 DEF LP!InPack

(* No more nodes than arguments.                                           *)
LEMMA NoNodeTooMany ==
  ASSUME ParametersInv
  PROVE  Len(pack) <= Len(args)
<1>1. Len(pack) \in Nat /\ Len(args) \in Nat
  BY LoopInWords
<1>2. ASSUME 1 \in DOMAIN pack
      PROVE  Len(pack) <= Len(args)
  <2>1. /\ pack[1].arg \in Nat
        /\ Len(pack) + 1 - 1 <= pack[1].arg
        /\ pack[1].arg <= Len(args) + 1 - 1
    BY <1>2, LoopFacts DEF ParametersInv
  <2> QED BY <1>1, <2>1
<1>3. 1 \notin DOMAIN pack => Len(pack) = 0
  BY LoopInWords
<1> QED BY <1>1, <1>2, <1>3

(* In a pack without losses each node can store the argument it gets: its  *)
(* own, which has the node's keyword if it has one.                        *)
LEMMA OwnArgumentFits ==
  ASSUME ParametersInv, Len(pack) = Len(args), NEW m \in DOMAIN pack
  PROVE  Initialisable(m, ReversedArg(m))
<1> DEFINE j == pack[m].arg
<1>1. /\ LP!CallInv /\ pack \in Seq(Node)
      /\ Len(args) \in Nat /\ DOMAIN args = 1..Len(args)
      /\ LP!ItemCount(specs, args) \in Nat
      /\ LP!ItemCount(specs, args) <= Len(args)
      /\ i \in 1..(LP!ItemCount(specs, args) + 1)
      /\ \A h \in DOMAIN args : args[h].type \in Types
  BY LoopInWords
<1>2. ReversedArg(m) = j
  <2>1. /\ j \in Nat /\ m \in Nat
        /\ Len(pack) + 1 - m <= j
        /\ j <= Len(args) + 1 - m
    BY <1>1, LoopFacts DEF ParametersInv
  <2> QED BY <1>1, <2>1 DEF ReversedArg
<1>3. LP!PackReversesCall /\ LP!Resolved(pack, i - 1)
  BY <1>1 DEF LP!CallInv, LP!LoopInv, LP!ErrorInv
<1>4. j \in 1..(i - 1) /\ j \in DOMAIN args
  BY <1>1, <1>3 DEF LP!PackReversesCall
<1>5. CASE is_named_argument(args[j])
  <2>1. LP!Decision(pack, j) = args[j].key /\ args[j].key # NoKey
    BY <1>5 DEF LP!Decision, LP!is_named_argument, is_named_argument
  <2>2. PICK n \in DOMAIN pack : pack[n].key = args[j].key /\ pack[n].arg = j
    BY <1>3, <1>4, <2>1 DEF LP!Resolved, LP!Gives
  <2>3. n = m
    <3>1. m \in Nat /\ n \in Nat /\ j \in Int
      BY <1>1, <1>4
    <3>2. ~(n < m) /\ ~(m < n)
      BY <1>3, <2>2, <3>1 DEF LP!PackReversesCall
    <3> QED BY <3>1, <3>2
  <2> QED BY <1>2, <1>5, <2>2, <2>3 DEF Initialisable
<1>6. CASE ~is_named_argument(args[j])
  BY <1>1, <1>2, <1>4, <1>6, ConvertsAssumption DEF Initialisable
<1> QED BY <1>5, <1>6

-----------------------------------------------------------------------------
(* Nothing said about a pack changes while the call stays the same.        *)
LEMMA SameCall ==
  ASSUME UNCHANGED <<specs, args>>
  PROVE  \A nodes :
           /\ PackOfTheCall(nodes)' <=> PackOfTheCall(nodes)
           /\ ErrorIsPending(nodes)' <=> ErrorIsPending(nodes)
           /\ Unambiguous(nodes)' <=> Unambiguous(nodes)
           /\ \A p : SpecIsSatisfied(specs[p], nodes)' <=> SpecIsSatisfied(specs[p], nodes)
<1> SUFFICES ASSUME NEW nodes
             PROVE  /\ PackOfTheCall(nodes)' <=> PackOfTheCall(nodes)
                    /\ ErrorIsPending(nodes)' <=> ErrorIsPending(nodes)
                    /\ Unambiguous(nodes)' <=> Unambiguous(nodes)
                    /\ \A p : SpecIsSatisfied(specs[p], nodes)'
                                 <=> SpecIsSatisfied(specs[p], nodes)
  OBVIOUS
<1>1. LP!ItemCount(specs, args)' = LP!ItemCount(specs, args)
  BY DEF LP!ItemCount
<1>2. \A n : LP!Resolved(nodes, n)' <=> LP!Resolved(nodes, n)
  BY LP!ResolvedUnchanged, NoKeyAssumption, SpecListsAssumption, ArgListsAssumption
  DEF LP!ParameterSpec, LP!Argument, ParameterSpec, Argument
<1>3. LP!Ordered(nodes)' <=> LP!Ordered(nodes)
  BY DEF LP!Ordered
<1>4. PackOfTheCall(nodes)' <=> PackOfTheCall(nodes)
  BY <1>1, <1>2, <1>3 DEF PackOfTheCall
<1>5. Unambiguous(nodes)' <=> Unambiguous(nodes)
  BY DEF Unambiguous, KeysOf
<1>6. \A p : SpecIsSatisfied(specs[p], nodes)' <=> SpecIsSatisfied(specs[p], nodes)
  BY DEF SpecIsSatisfied, KeysOf, Bindings
<1>7. ErrorIsPending(nodes)' <=> ErrorIsPending(nodes)
  BY DEF ErrorIsPending, Lost, ItemCount
<1> QED BY <1>4, <1>5, <1>6, <1>7

(* Inside operator() only the failures are in question.                    *)
LEMMA BodyStep ==
  ASSUME MatchInv,
         phase \in {"bind", "build"},
         phase' \in {"bind", "build", "bound", "hard_error"},
         UNCHANGED <<loopVars, filtered, q, matched>>,
         phase' = "hard_error" /\ Viable => ~Unambiguous(matched) \/ Len(matched) < Len(args)
  PROVE  MatchInv'
<1>1. /\ UNCHANGED <<specs, args, pack, i, error, matched, q>>
      /\ Viable' <=> Viable
  BY DEF loopVars, Viable
<1>2. /\ PackOfTheCall(matched)' <=> PackOfTheCall(matched)
      /\ ErrorIsPending(matched)' <=> ErrorIsPending(matched)
      /\ Unambiguous(matched)' <=> Unambiguous(matched)
      /\ \A p : SpecIsSatisfied(specs[p], matched)' <=> SpecIsSatisfied(specs[p], matched)
  BY <1>1, SameCall
<1>3. LP!Agrees(matched, pack, i)' <=> LP!Agrees(matched, pack, i)
  BY <1>1 DEF LP!Agrees
<1>4. ViableFailsOnlyOnDuplicateOrLoss'
  BY <1>1, <1>2 DEF ViableFailsOnlyOnDuplicateOrLoss
<1> QED BY <1>1, <1>2, <1>3, <1>4 DEF MatchInv

(* While match<> checks specs, the pack is the matched one.                *)
LEMMA CheckStep ==
  ASSUME MatchInv,
         phase = "satisfy",
         phase' \in {"satisfy", "not_viable"},
         q' \in {q, q + 1},
         UNCHANGED <<loopVars, filtered, matched>>,
         phase' = "satisfy" /\ Unambiguous(matched) =>
           \A p \in 1..(q' - 1) : SpecIsSatisfied(specs[p], matched),
         phase' = "not_viable" /\ Unambiguous(matched) =>
           ErrorIsPending(matched) \/ \E p \in DOMAIN specs : ~SpecIsSatisfied(specs[p], matched)
  PROVE  MatchInv'
<1>1. /\ UNCHANGED <<specs, args, pack, error, matched, filtered>>
      /\ ~Viable'
  BY DEF loopVars, Viable
<1>2. /\ PackOfTheCall(matched)' <=> PackOfTheCall(matched)
      /\ ErrorIsPending(matched)' <=> ErrorIsPending(matched)
      /\ Unambiguous(matched)' <=> Unambiguous(matched)
      /\ \A p : SpecIsSatisfied(specs[p], matched)' <=> SpecIsSatisfied(specs[p], matched)
  BY <1>1, SameCall
<1> QED BY <1>1, <1>2 DEF MatchInv, ViableFailsOnlyOnDuplicateOrLoss

(* The steps of the match, of the binding and of the call operator keep    *)
(* it.                                                                     *)
LEMMA MatchStep == CallDecided /\ [Next]_vars => CallDecided'
<1> SUFFICES ASSUME CallDecided, [Next]_vars PROVE MatchInv'
  BY ParametersStep DEF CallDecided
<1> USE DEF CallDecided
<1>0. /\ pack \in Seq(Node) /\ matched \in Seq(Node)
      /\ Len(specs) \in Nat /\ DOMAIN specs = 1..Len(specs)
      /\ q \in 1..(Len(specs) + 1) /\ q \in Nat
      /\ phase \in Phases
  BY LoopInWords DEF ParametersInv, TypeOK
<1>1. CASE RunMakeArgList
  <2>1. phase \in {"match", "bind"} /\ Loop!MakeArgListStep
        /\ UNCHANGED <<filtered, hides, phase, q, matched, stored>>
    BY <1>1 DEF RunMakeArgList
  <2>2. UNCHANGED <<specs, args>>
    BY <2>1
    DEF Loop!MakeArgListStep, Loop!UseTagged, Loop!TagPositionally, Loop!StartDeduction,
        Loop!SkipSpec, Loop!TagDeduced, Loop!FailAssertion, Loop!LeaveUnmatched,
        Loop!ReturnPack, Loop!callVars
  <2>3. Viable => LP!Agrees(matched, pack', i')
    <3>1. ASSUME Viable PROVE LP!Agrees(matched, pack', i')
      <4>1. LP!RefineInv /\ matched \in Seq(LP!Node) /\ LP!MakeArgListStep
        BY <2>1, LoopInWords, SameStep
      <4>2. PackOfTheCall(matched) /\ LP!Agrees(matched, pack, i)
        BY <3>1 DEF MatchInv
      <4> QED
        BY <4>1, <4>2, LP!AgreesStep, NoKeyAssumption, SpecListsAssumption, ArgListsAssumption
        DEF PackOfTheCall, LP!ParameterSpec, LP!Argument, ParameterSpec, Argument
    <3> QED BY <3>1
  <2>4. Viable' <=> Viable
    BY <2>1 DEF Viable
  <2>5. Viable => LP!Agrees(matched, pack, i)'
    BY <2>1, <2>3 DEF LP!Agrees
  <2>6. CASE phase = "match"
    BY <2>1, <2>6 DEF MatchInv, Viable, ViableFailsOnlyOnDuplicateOrLoss
  <2>7. CASE phase = "bind"
    <3>1. Viable => PackOfTheCall(matched)' /\ ~ErrorIsPending(matched)'
      BY <2>1, <2>2, SameCall DEF MatchInv
    <3>2. Viable /\ Unambiguous(matched)' => \A p \in 1..(q - 1) : SpecIsSatisfied(specs[p], matched)'
      BY <2>1, <2>2, SameCall DEF MatchInv
    <3>3. phase' = "bind" /\ matched' = matched /\ q' = q /\ specs' = specs
      BY <2>1, <2>2, <2>7
    <3> QED
      BY <2>4, <2>5, <3>1, <3>2, <3>3 DEF MatchInv, ViableFailsOnlyOnDuplicateOrLoss
  <2> QED BY <2>1, <2>6, <2>7
<1>2. CASE BeginSatisfy
  <2>1. /\ phase = "match" /\ pc = "done" /\ phase' = "satisfy" /\ matched' = pack
        /\ q = 1
        /\ filtered
        /\ UNCHANGED <<loopVars, filtered, hides, q, stored>>
    BY <1>2 DEF BeginSatisfy, MatchInv
  <2>2. PackOfTheCall(pack)
    BY <2>1, FinishedRun
  <2>3. PackOfTheCall(matched)'
    BY <2>1, <2>2, SameCall DEF loopVars
  <2>4. (error # 0 <=> ErrorIsPending(matched))'
    <3>1. error # 0 <=> ErrorIsPending(pack)
      BY <2>1, FinishedRunError
    <3>2. ErrorIsPending(matched)' <=> ErrorIsPending(pack)
      BY <2>1, SameCall DEF loopVars
    <3>3. error' = error
      BY <2>1 DEF loopVars
    <3> QED BY <3>1, <3>2, <3>3
  <2> QED BY <2>1, <2>3, <2>4 DEF MatchInv, Viable, ViableFailsOnlyOnDuplicateOrLoss, loopVars
<1>3. CASE CheckSpec
  <2>1. /\ phase = "satisfy" /\ phase' = phase /\ q' = q + 1
        /\ matched = pack
        /\ SatisfiesRequirementsOf(specs[q])
        /\ UNCHANGED <<loopVars, filtered, matched>>
    BY <1>3 DEF CheckSpec, MatchInv
  <2>2. ASSUME Unambiguous(matched), NEW p \in 1..(q' - 1)
        PROVE  SpecIsSatisfied(specs[p], matched)
    <3>1. p = q \/ p \in 1..(q - 1)
      BY <1>0, <2>1
    <3> QED BY <1>0, <2>1, <2>2, <3>1, SatisfactionAgrees DEF MatchInv
  <2> QED BY <2>1, <2>2, CheckStep
<1>4. CASE RejectSpec
  <2>1. /\ phase = "satisfy" /\ phase' = "not_viable" /\ q' = q
        /\ matched = pack
        /\ q \in DOMAIN specs /\ ~SatisfiesRequirementsOf(specs[q])
        /\ UNCHANGED <<loopVars, filtered, matched>>
    BY <1>0, <1>4 DEF RejectSpec, MatchInv
  <2>2. Unambiguous(matched) => ~SpecIsSatisfied(specs[q], matched)
    BY <1>0, <2>1, SatisfactionAgrees
  <2> QED BY <2>1, <2>2, CheckStep
<1>5. CASE RejectError
  <2>1. /\ phase = "satisfy" /\ phase' = "not_viable" /\ q' = q
        /\ ErrorIsPending(matched)
        /\ UNCHANGED <<loopVars, filtered, matched>>
    BY <1>5 DEF RejectError, MatchInv
  <2> QED BY <2>1, CheckStep
<1>6. CASE CallBind
  <2>1. /\ phase = "satisfy" /\ phase' = "bind" /\ q > Len(specs)
        /\ filtered
        /\ ~ErrorIsPending(matched)
        /\ pack' = <<>> /\ i' = 1
        /\ UNCHANGED <<specs, args, filtered, q, matched>>
    BY <1>6 DEF CallBind, Loop!RestartLoop, MatchInv
  <2>2. PackOfTheCall(matched) /\ PackOfTheCall(matched)' /\ ~ErrorIsPending(matched)'
    BY <2>1, SameCall DEF MatchInv
  <2>3. q = Len(specs) + 1
    BY <1>0, <2>1
  <2>4. LP!Agrees(matched, <<>>, 1)
    <3>1. Len(matched) \in Nat /\ DOMAIN matched = 1..Len(matched)
      BY <1>0
    <3>2. \A m \in DOMAIN matched : matched[m].arg >= 1
      <4>1. LP!ItemCount(specs, args) \in Nat
        BY LoopInWords
      <4> QED BY <2>2, <4>1 DEF PackOfTheCall
    <3> QED BY <3>1, <3>2 DEF LP!Agrees
  <2>5. LP!Agrees(matched, pack, i)'
    BY <2>1, <2>4 DEF LP!Agrees
  <2>6. Unambiguous(matched)' =>
          \A p \in 1..(q - 1) : SpecIsSatisfied(specs[p], matched)'
    BY <2>1, SameCall DEF MatchInv
  <2> QED
    BY <2>1, <2>2, <2>3, <2>5, <2>6 DEF MatchInv, Viable, ViableFailsOnlyOnDuplicateOrLoss
<1>7. CASE FailBind
  <2>1. /\ phase = "bind" /\ phase' = "hard_error"
        /\ UNCHANGED <<loopVars, filtered, q, matched>>
    BY <1>7 DEF FailBind
  <2>2. pc = "static_assert" \/ (pc = "done" /\ (error # 0 \/ HasDuplicateKeyword))
    BY <1>7 DEF FailBind
  <2>3. ASSUME Viable
        PROVE  ~Unambiguous(matched) \/ Len(matched) < Len(args)
    <3>1. CASE pc = "static_assert"
      BY <2>3, <3>1, AssertedRunHasDuplicate
    <3>2. CASE pc = "done" /\ error # 0
      BY <2>3, <3>2, FinishedSecondRun, ErrorMeansLoss
    <3>3. CASE pc = "done" /\ HasDuplicateKeyword
      <4>1. matched = pack
        BY <2>3, <3>3, FinishedSecondRun
      <4> QED BY <1>0, <3>3, <4>1, UnambiguousIsInjective DEF HasDuplicateKeyword
    <3> QED BY <2>2, <3>1, <3>2, <3>3
  <2> QED BY <2>1, <2>3, BodyStep
<1>8. CASE FailNode
  <2>1. /\ phase = "build" /\ phase' = "hard_error"
        /\ NextNode <= Len(pack)
        /\ ~Initialisable(NextNode, ReversedArg(NextNode))
        /\ UNCHANGED <<loopVars, filtered, q, matched>>
        /\ pc = "done"
    BY <1>8 DEF FailNode, ParametersInv, StoredInv
  <2>2. ASSUME Viable
        PROVE  Len(matched) < Len(args)
    <3>1. matched = pack
      BY <2>1, <2>2, FinishedSecondRun
    <3>2. NextNode \in DOMAIN pack
      <4>1. Len(stored) \in Nat
        BY DEF ParametersInv, TypeOK
      <4> QED BY <1>0, <2>1, <4>1 DEF NextNode
    <3>3. Len(pack) # Len(args)
      BY <2>1, <3>2, OwnArgumentFits
    <3>4. Len(pack) \in Nat /\ Len(args) \in Nat
      BY LoopInWords
    <3> QED BY <3>1, <3>3, <3>4, NoNodeTooMany
  <2> QED BY <2>1, <2>2, BodyStep
<1>9. CASE BeginBuild \/ StoreNode \/ FinishBuild
  BY <1>9, BodyStep DEF BeginBuild, StoreNode, FinishBuild
<1>10. CASE UNCHANGED vars
  <2>1. /\ UNCHANGED <<specs, args, pack, i, error, matched, q, filtered, phase>>
        /\ Viable' <=> Viable
    BY <1>10 DEF vars, loopVars, Viable
  <2>2. /\ PackOfTheCall(matched)' <=> PackOfTheCall(matched)
        /\ ErrorIsPending(matched)' <=> ErrorIsPending(matched)
        /\ Unambiguous(matched)' <=> Unambiguous(matched)
        /\ \A p : SpecIsSatisfied(specs[p], matched)' <=> SpecIsSatisfied(specs[p], matched)
    BY <2>1, SameCall
  <2>3. LP!Agrees(matched, pack, i)' <=> LP!Agrees(matched, pack, i)
    BY <2>1 DEF LP!Agrees
  <2>4. ViableFailsOnlyOnDuplicateOrLoss'
    BY <2>1, <2>2 DEF MatchInv, ViableFailsOnlyOnDuplicateOrLoss
  <2> QED BY <2>1, <2>2, <2>3, <2>4 DEF MatchInv
<1> QED
  BY <1>1, <1>2, <1>3, <1>4, <1>5, <1>6, <1>7, <1>8, <1>9, <1>10 DEF Next

-----------------------------------------------------------------------------
(* match<> and operator() tag the arguments alike: operator() only builds  *)
(* a pack whose loop has rebuilt the matched pack from its end, node by    *)
(* node, whatever the two runs differ in.                                  *)
THEOREM SecondRunRebuildsThePack == Spec => []BindBuildsTheMatchedPack
<1>1. CallDecided => BindBuildsTheMatchedPack
  <2> SUFFICES ASSUME CallDecided, filtered, phase \in {"build", "bound"}
               PROVE  pack = matched
    BY DEF BindBuildsTheMatchedPack
  <2>1. Viable /\ pc = "done"
    BY DEF Viable, CallDecided, ParametersInv, StoredInv
  <2> QED BY <2>1, FinishedSecondRun
<1> QED BY <1>1, MatchInit, MatchStep, PTL DEF Spec

(* No overload is viable if the run that built its pack left an error; on  *)
(* a pack without duplicates it is viable exactly if besides the complete  *)
(* pack satisfies every parameter.                                         *)
(* The walk over the specs ends in operator() only past the error's test,  *)
(* and the parity of the last unmatched arguments tells what was tested.   *)
THEOREM ViabilityIsSatisfaction == Spec => []MatchMeansSatisfied
<1>1. CallDecided => MatchMeansSatisfied
  <2> SUFFICES ASSUME CallDecided
               PROVE  MatchMeansSatisfied
    OBVIOUS
  <2>1. DOMAIN specs = 1..Len(specs) /\ Len(specs) \in Nat
    BY LoopInWords DEF CallDecided
  <2>2. Viable => DOMAIN specs = 1..(q - 1)
    BY <2>1 DEF CallDecided, MatchInv
  <2> QED BY <2>2 DEF CallDecided, MatchInv, MatchMeansSatisfied
<1> QED BY <1>1, MatchInit, MatchStep, PTL DEF Spec

(* No overload is viable for a call whose last argument is unmatched, the  *)
(* one before it not, and no pack is built for one: either run ended with  *)
(* an error.                                                               *)
THEOREM TrailingRefusal == Spec => []TrailingUnmatchedIsRefused
<1>1. CallDecided => TrailingUnmatchedIsRefused
  <2> SUFFICES ASSUME CallDecided, Len(args) \in 1..Len(specs)
               PROVE  /\ Viable => ~OnlyLastIsLost(matched)
                      /\ phase \in {"build", "bound"} => ~OnlyLastIsLost(pack)
    BY DEF TrailingUnmatchedIsRefused
  <2>1. Len(args) \in Nat /\ Len(specs) \in Nat
    BY LoopInWords DEF CallDecided
  <2>2. Viable => ~ErrorIsPending(matched)
    BY DEF CallDecided, MatchInv
  <2>3. phase \in {"build", "bound"} => ~ErrorIsPending(pack)
    BY FinishedRunError DEF CallDecided, ParametersInv, StoredInv
  <2> QED BY <2>1, <2>2, <2>3, LostLastIsPending
<1> QED BY <1>1, MatchInit, MatchStep, PTL DEF Spec

(* A viable call that does not compile bound a keyword twice or lost an    *)
(* argument: in every other pack each node can store what it is handed.    *)
THEOREM ViableCallsCompile == Spec => []ViableFailsOnlyOnDuplicateOrLoss
<1>1. CallDecided => ViableFailsOnlyOnDuplicateOrLoss
  BY DEF CallDecided, MatchInv
<1> QED BY <1>1, MatchInit, MatchStep, PTL DEF Spec

=============================================================================
