----------------------------- MODULE Parameters -----------------------------
(***************************************************************************)
(* boost::parameter::parameters<Spec...>, perfect-forwarding build: what   *)
(* happens to one call.  A forwarding function is first filtered by        *)
(* match<Args...>, which runs make_arg_list without errors and then asks   *)
(* the pack to satisfy every spec in turn; if it is viable, or if the user *)
(* calls parameters()(args...) directly, operator() runs make_arg_list     *)
(* again with errors, and builds the pack node by node, head first, from   *)
(* the arguments in reverse order.                                         *)
(***************************************************************************)
EXTENDS ParameterSpecs, FiniteSets, Progress

CONSTANT Converts  \* <<T, U>>: a node for a U can be initialised with a T

(* A node made for an argument can be initialised with that argument.      *)
ASSUME ConvertsAssumption == \A T \in Types : <<T, T>> \in Converts

VARIABLES
  specs, args, mp11, emits, i, d, isPositional, used, pack, error, pc,
  filtered,  \* the call goes through match<>
  hides,     \* the compiler lets a node's satisfies hide an inherited one
             \* that differs only in its return type
  phase,     \* match | satisfy | bind | build | bound | not_viable | hard_error
  q,         \* next spec of match_parameters_base_cond
  matched,   \* the pack match<> was decided on
  stored     \* stored[m]: position of the argument that initialised node m

Loop == INSTANCE MakeArgList

loopVars == <<specs, args, mp11, emits, i, d, isPositional, used, pack, error, pc>>

vars == <<loopVars, filtered, hides, phase, q, matched, stored>>

Phases == {"match", "satisfy", "bind", "build", "bound", "not_viable", "hard_error"}

Final == phase \in {"bound", "not_viable", "hard_error"}

-----------------------------------------------------------------------------
(* match<Args...> and operator() instantiate make_arg_list.                *)
RunMakeArgList ==
  /\ phase \in {"match", "bind"}
  /\ Loop!MakeArgListStep
  /\ UNCHANGED <<filtered, hides, phase, q, matched, stored>>

(* match_base: hand the pack to match_parameters_base_cond.                *)
BeginSatisfy ==
  /\ phase = "match"
  /\ pc = "done"
  /\ phase' = "satisfy"
  /\ matched' = pack
  /\ UNCHANGED <<loopVars, filtered, hides, q, stored>>

NodesOf(key) == {m \in DOMAIN pack : pack[m].key = key}

Innermost(key) == CHOOSE m \in NodesOf(key) : \A n \in NodesOf(key) : n <= m

(* Fault: an unbound parameter satisfies, required or not.                 *)
SatisfiesUnlessBound(spec) ==
  NodesOf(tag_type(spec)) # {} =>
    Holds(spec.pred,
          args[pack[Innermost(tag_type(spec))].arg].type,
          Bindings(pack, args))

(* satisfies_requirements_of: overload resolution over the satisfies       *)
(* functions of the nodes.  With EmitsErrors false, a node whose key some  *)
(* node below it also has is disabled; if that node nevertheless hides the *)
(* one below, only the terminator's, which answers has_default, is left.   *)
SatisfiesRequirementsOf(spec) ==
  IF NodesOf(tag_type(spec)) = {} \/ (hides /\ Cardinality(NodesOf(tag_type(spec))) > 1)
  THEN has_default(spec)
  ELSE Holds(spec.pred,
             args[pack[Innermost(tag_type(spec))].arg].type,
             Bindings(pack, args))

CheckSpec ==
  /\ phase = "satisfy"
  /\ q <= Len(specs)
  /\ SatisfiesRequirementsOf(specs[q])
  /\ q' = q + 1
  /\ UNCHANGED <<loopVars, filtered, hides, phase, matched, stored>>

RejectSpec ==
  /\ phase = "satisfy"
  /\ q <= Len(specs)
  /\ ~SatisfiesRequirementsOf(specs[q])
  /\ phase' = "not_viable"
  /\ UNCHANGED <<loopVars, filtered, hides, q, matched, stored>>

(* Fault: the end of SpecSeq is looked for one spec too late.              *)
RejectErrorLate ==
  /\ phase = "satisfy"
  /\ q > Len(specs) + 1
  /\ error # 0
  /\ phase' = "not_viable"
  /\ UNCHANGED <<loopVars, filtered, hides, q, matched, stored>>

(* The end of SpecSeq: the answer is whether Error is void_.               *)
RejectError ==
  /\ phase = "satisfy"
  /\ q > Len(specs)
  /\ error # 0
  /\ phase' = "not_viable"
  /\ UNCHANGED <<loopVars, filtered, hides, q, matched, stored>>

(* Fault: operator() runs the loop with EmitsErrors as match<> did.        *)
CallBindSilently ==
  /\ phase = "satisfy"
  /\ q > Len(specs)
  /\ error = 0
  /\ phase' = "bind"
  /\ Loop!RestartLoop
  /\ UNCHANGED <<specs, args, mp11, emits, filtered, hides, q, matched, stored>>

(* Fault: match<> is decided by the specs alone.                           *)
CallBindIgnoringError ==
  /\ phase = "satisfy"
  /\ q > Len(specs)
  /\ phase' = "bind"
  /\ emits' = TRUE
  /\ Loop!RestartLoop
  /\ UNCHANGED <<specs, args, mp11, filtered, hides, q, matched, stored>>

(* The overload is viable: its body calls operator().                      *)
CallBind ==
  /\ phase = "satisfy"
  /\ q > Len(specs)
  /\ error = 0
  /\ phase' = "bind"
  /\ emits' = TRUE
  /\ Loop!RestartLoop
  /\ UNCHANGED <<specs, args, mp11, filtered, hides, q, matched, stored>>

HasDuplicateKeyword == \E m, n \in DOMAIN pack : m # n /\ pack[m].key = pack[n].key

(* "error();" instantiates unmatched_argument<>, completing result_type    *)
(* instantiates the "duplicate keyword" assertion of each node, and        *)
(* deduce_tag may have failed an assertion of its own.                     *)
FailBind ==
  /\ phase = "bind"
  /\ \/ pc = "static_assert"
     \/ pc = "done" /\ (error # 0 \/ HasDuplicateKeyword)
  /\ phase' = "hard_error"
  /\ UNCHANGED <<loopVars, filtered, hides, q, matched, stored>>

(* Fault: operator() does not instantiate error.                           *)
BeginBuildIgnoringError ==
  /\ phase = "bind"
  /\ pc = "done"
  /\ ~HasDuplicateKeyword
  /\ phase' = "build"
  /\ UNCHANGED <<loopVars, filtered, hides, q, matched, stored>>

BeginBuild ==
  /\ phase = "bind"
  /\ pc = "done"
  /\ error = 0
  /\ ~HasDuplicateKeyword
  /\ phase' = "build"
  /\ UNCHANGED <<loopVars, filtered, hides, q, matched, stored>>

(* Fault: the arguments are handed to the pack in call order.              *)
CallOrderArg(m) == m

(* arg_list_factory::reverse.                                              *)
ReversedArg(m) == Len(args) + 1 - m

(* Can the tagged_argument of node m be initialised with argument j?  From *)
(* a tagged argument only if it is one of the same keyword and type.       *)
Initialisable(m, j) ==
  IF is_named_argument(args[j])
  THEN args[j].key = pack[m].key /\ args[j].type = args[pack[m].arg].type
  ELSE <<args[j].type, args[pack[m].arg].type>> \in Converts

NextNode == Len(stored) + 1

(* arg_list(value_type_is_not_void, a0, args...): this node stores the     *)
(* first of the remaining arguments.                                       *)
StoreNode ==
  /\ phase = "build"
  /\ NextNode <= Len(pack)
  /\ Initialisable(NextNode, ReversedArg(NextNode))
  /\ stored' = Append(stored, ReversedArg(NextNode))
  /\ UNCHANGED <<loopVars, filtered, hides, phase, q, matched>>

FailNode ==
  /\ phase = "build"
  /\ NextNode <= Len(pack)
  /\ ~Initialisable(NextNode, ReversedArg(NextNode))
  /\ phase' = "hard_error"
  /\ UNCHANGED <<loopVars, filtered, hides, q, matched, stored>>

(* empty_arg_list(Args&&...) swallows whatever is left.                    *)
FinishBuild ==
  /\ phase = "build"
  /\ NextNode > Len(pack)
  /\ phase' = "bound"
  /\ UNCHANGED <<loopVars, filtered, hides, q, matched, stored>>

-----------------------------------------------------------------------------
Init ==
  /\ specs \in SpecLists
  /\ args \in ArgLists
  /\ mp11 \in BOOLEAN
  /\ filtered \in BOOLEAN
  /\ hides \in BOOLEAN
  /\ emits = ~filtered
  /\ Loop!StartLoop
  /\ phase = IF filtered THEN "match" ELSE "bind"
  /\ q = 1
  /\ matched = <<>>
  /\ stored = <<>>

Next ==
  \/ RunMakeArgList
  \/ BeginSatisfy
  \/ CheckSpec
  \/ RejectSpec
  \/ RejectError
  \/ CallBind
  \/ FailBind
  \/ BeginBuild
  \/ StoreNode
  \/ FailNode
  \/ FinishBuild

Spec == Init /\ [][Next]_vars

FairSpec == Spec /\ WF_vars(Next)

-----------------------------------------------------------------------------
(***************************************************************************)
(* Properties.                                                             *)
(***************************************************************************)

(* Type correctness of the composition.                                    *)
TypeOK ==
  /\ Loop!TypeOK
  /\ filtered \in BOOLEAN
  /\ hides \in BOOLEAN
  /\ phase \in Phases
  /\ emits <=> phase \in {"bind", "build", "bound", "hard_error"}
  /\ q \in 1..(Len(specs) + 1)
  /\ matched \in Seq(Node)
  /\ stored \in Seq(Nat)
  /\ Len(stored) <= Len(pack)

SpecIsSatisfied(spec, nodes) ==
  /\ spec.required => spec.key \in KeysOf(nodes)
  /\ \A m \in DOMAIN nodes :
       nodes[m].key = spec.key =>
         Holds(spec.pred, args[nodes[m].arg].type, Bindings(nodes, args))

Unambiguous(nodes) == Cardinality(KeysOf(nodes)) = Len(nodes)

(* Argument j of the call has no node among nodes.                         *)
Lost(nodes, j) == ~\E m \in DOMAIN nodes : nodes[m].arg = j

(* A run that returned nodes returned an error with them: each unmatched   *)
(* argument overwrites the error of the one before it, so an odd number of *)
(* them, r, ends the items.                                                *)
ErrorIsPending(nodes) ==
  LET n == ItemCount(specs, args) IN
  \E r \in 1..n :
    /\ r % 2 = 1
    /\ \A j \in (n + 1 - r)..n : Lost(nodes, j)
    /\ r = n \/ ~Lost(nodes, n - r)

Viable == filtered /\ phase \in {"bind", "build", "bound", "hard_error"}

(* The decision of match<>, read off the pack it was made on, though that  *)
(* pack and the error are long gone when the second run ends.  No overload *)
(* is viable whose run left an error.  On a pack without duplicate keys,   *)
(* and whichever way the compiler reads the inherited satisfies, it is     *)
(* viable iff besides, as doc/reference.rst:734-748 states, every required *)
(* parameter is bound and every bound parameter's predicate holds of the   *)
(* complete pack.                                                          *)
MatchMeansSatisfied ==
  /\ Viable => ~ErrorIsPending(matched)
  /\ Unambiguous(matched) =>
       /\ Viable => \A p \in DOMAIN specs : SpecIsSatisfied(specs[p], matched)
       /\ phase = "not_viable" =>
            \/ ErrorIsPending(matched)
            \/ \E p \in DOMAIN specs : ~SpecIsSatisfied(specs[p], matched)

(* match<> and operator() tag the arguments alike: the pack built is the   *)
(* pack the overload was accepted for, although the two loops run with     *)
(* different EmitsErrors.                                                  *)
BindBuildsTheMatchedPack == filtered /\ phase \in {"build", "bound"} => pack = matched

(* When every argument got a node, every node stores its own argument: the *)
(* reversal of the arguments undoes the reversal of the pack.              *)
CompletePackIsAligned ==
  Len(pack) = Len(args) =>
    /\ phase = "bound" => Len(stored) = Len(pack)
    /\ \A m \in DOMAIN stored : stored[m] = pack[m].arg

(* A viable call fails to compile only if a keyword was bound twice or     *)
(* some argument got no node: SFINAE has filtered all the rest.            *)
ViableFailsOnlyOnDuplicateOrLoss ==
  Viable /\ phase = "hard_error" =>
    ~Unambiguous(matched) \/ Len(matched) < Len(args)

(* The last argument of the call is unmatched, the one before it is not.   *)
OnlyLastIsLost(nodes) ==
  /\ Lost(nodes, Len(args))
  /\ Len(args) = 1 \/ ~Lost(nodes, Len(args) - 1)

(* An argument left unmatched at the very end of the call, after a matched *)
(* one, never gets past match<>, and operator() never builds a pack        *)
(* without it.                                                             *)
TrailingUnmatchedIsRefused ==
  Len(args) \in 1..Len(specs) =>
    /\ Viable => ~OnlyLastIsLost(matched)
    /\ phase \in {"build", "bound"} => ~OnlyLastIsLost(pack)

(* How far a call is from its decision: the phases left and the work left  *)
(* in this one.                                                            *)
CallLeft ==
  CASE phase = "match"   -> <<4, Loop!ItemsLeft, Loop!SpecsLeft>>
    [] phase = "satisfy" -> <<3, Len(specs) + 1 - q, 0>>
    [] phase = "bind"    -> <<2, Loop!ItemsLeft, Loop!SpecsLeft>>
    [] phase = "build"   -> <<1, Len(pack) - Len(stored), 0>>
    [] OTHER             -> <<0, 0, 0>>

(* The two runs of make_arg_list, the walk over SpecSeq and the building of*)
(* the pack follow each other and none is returned to: every step brings   *)
(* the decision closer, though the second run starts all over.             *)
CallDescends == [][Descends(3, CallLeft, CallLeft')]_vars

(* Every call is decided.                                                  *)
Decided == <>Final

(* doc/reference.rst:765, the pack holds for each a_i "a tagged reference   *)
(* with keyword K_i and value a_i": the value stored under the keyword that *)
(* argument was tagged with is that argument, not another one.             *)
KeywordHoldsItsArgument ==
  phase = "bound" => \A m \in DOMAIN stored : stored[m] = pack[m].arg

=============================================================================
