---------------------------- MODULE MakeArgList -----------------------------
(***************************************************************************)
(* make_arg_list<List,DeducedArgs,TagFn,EmitsErrors>: the compile-time     *)
(* loop that turns the positional, tagged and deduced arguments of a call  *)
(* into an argument pack.  Each instantiation of make_arg_list0 handles    *)
(* one item (spec, argument) in one or more steps: an argument that is     *)
(* neither tagged nor positional starts deduce_tag, which walks the        *)
(* deduced specs in order, one instantiation of deduce_tag0 per step.      *)
(*                                                                         *)
(* The list of deduced specs is the spec list with the others filtered     *)
(* out (make_deduced_items); the walk below filters as it goes.            *)
(***************************************************************************)
EXTENDS ParameterSpecs, Progress

VARIABLES
  specs,        \* parameter_spec, fixed by the specialisation
  args,         \* Args..., fixed by the call
  mp11,         \* BOOST_PARAMETER_CAN_USE_MP11
  emits,        \* EmitsErrors: FALSE in match<>, TRUE in bind and operator()
  i,            \* position of the head of List
  d,            \* position of the head of DeducedArgs during deduce_tag
  isPositional, \* IsPositional
  used,         \* UsedArgs / DeducedSet
  pack,         \* ArgumentPack: head first, that is latest argument first
  error,        \* Error: 0 is void_, j is unmatched_argument<args[j]>
  pc            \* item | deduce | done | static_assert

callVars == <<specs, args, mp11>>
loopVars == <<i, d, isPositional, used, pack, error, pc>>
makeArgListVars == <<specs, args, mp11, emits, i, d, isPositional, used, pack, error, pc>>

PcValues == {"item", "deduce", "done", "static_assert"}

-----------------------------------------------------------------------------
(* The arguments make_arg_list passes to make_arg_list_aux, as a state and *)
(* as a step of a user that instantiates make_arg_list again.              *)
StartLoop ==
  /\ i = 1
  /\ d = 1
  /\ isPositional = TRUE
  /\ used = {}
  /\ pack = <<>>
  /\ error = 0
  /\ pc = "item"

(* Fault: the second run starts out positional only if the first ended so. *)
RestartLoopWhereItStopped ==
  /\ i' = 1
  /\ d' = 1
  /\ isPositional' = isPositional
  /\ used' = {}
  /\ pack' = <<>>
  /\ error' = 0
  /\ pc' = "item"

RestartLoop ==
  /\ i' = 1
  /\ d' = 1
  /\ isPositional' = TRUE
  /\ used' = {}
  /\ pack' = <<>>
  /\ error' = 0
  /\ pc' = "item"

AtItem == pc = "item" /\ i <= ItemCount(specs, args)

(* _is_positional: matching stays positional for an untagged argument that *)
(* meets a spec that is not deduced.                                       *)
StaysPositional ==
  isPositional /\ ~is_deduced(specs[i]) /\ ~is_named_argument(args[i])

(* Fault: the pack grows at its end.                                       *)
PrependAtTheEnd(key) == pack' = Append(pack, [key |-> key, arg |-> i])

(* _argument_pack when _tagged is not void_: prepend the new node.         *)
Prepend(key) == pack' = <<[key |-> key, arg |-> i]>> \o pack

(* Recurse on the tail of List.  With _tagged # void_ the new Error is     *)
(* void_, whatever it was.                                                 *)
NextItem ==
  /\ i' = i + 1
  /\ d' = 1
  /\ pc' = "item"

(* Fault: an explicit tag does not end positional matching.                *)
UseTaggedKeepingPositional ==
  /\ AtItem
  /\ is_named_argument(args[i])
  /\ Prepend(args[i].key)
  /\ used' = used \union {args[i].key}
  /\ error' = 0
  /\ NextItem
  /\ UNCHANGED <<callVars, emits, isPositional>>

(* _is_tagged: use the argument as it is.                                  *)
UseTagged ==
  /\ AtItem
  /\ is_named_argument(args[i])
  /\ Prepend(args[i].key)
  /\ used' = used \union {args[i].key}
  /\ isPositional' = FALSE
  /\ error' = 0
  /\ NextItem
  /\ UNCHANGED <<callVars, emits>>

(* _is_positional: tag it with the keyword of the spec at its position.    *)
TagPositionally ==
  /\ AtItem
  /\ StaysPositional
  /\ Prepend(tag_type(specs[i]))
  /\ error' = 0
  /\ NextItem
  /\ UNCHANGED <<callVars, emits, isPositional, used>>

(* Neither: instantiate deduce_tag on the whole list of deduced specs.     *)
StartDeduction ==
  /\ AtItem
  /\ ~is_named_argument(args[i])
  /\ ~StaysPositional
  /\ isPositional' = FALSE
  /\ d' = 1
  /\ pc' = "deduce"
  /\ UNCHANGED <<callVars, emits, i, used, pack, error>>

AtDeducedSpec == pc = "deduce" /\ d <= Len(specs)

(* Fault: the predicate is shown an empty pack.                            *)
AcceptedAlone == deduce_tag_condition(specs[d], args[i], {})

Accepted == deduce_tag_condition(specs[d], args[i], Bindings(pack, args))

(* Fault: the walk drops two specs at a time.                              *)
SkipTwoSpecs ==
  /\ AtDeducedSpec
  /\ ~(is_deduced(specs[d]) /\ Accepted)
  /\ d' = d + 2
  /\ UNCHANGED <<callVars, emits, i, isPositional, used, pack, error, pc>>

(* deduce_tag0 on a spec that declines: go on with DeducedArgs::tail.      *)
SkipSpec ==
  /\ AtDeducedSpec
  /\ ~(is_deduced(specs[d]) /\ Accepted)
  /\ d' = d + 1
  /\ UNCHANGED <<callVars, emits, i, isPositional, used, pack, error, pc>>

(* Fault: has_key_ answers true (aux_/set.hpp:36 read the other way).      *)
AlwaysSeveralArguments == ~mp11 /\ emits

(* BOOST_MPL_ASSERT "Deduced parameter matches several arguments": only    *)
(* without MP11, only when errors are emitted.                             *)
SeveralArgumentsAssertion ==
  ~mp11 /\ emits /\ tag_type(specs[d]) \in used

(* Fault: the key found is not inserted in UsedArgs.                       *)
TagDeducedUnrecorded ==
  /\ AtDeducedSpec
  /\ is_deduced(specs[d])
  /\ Accepted
  /\ ~SeveralArgumentsAssertion
  /\ Prepend(tag_type(specs[d]))
  /\ error' = 0
  /\ NextItem
  /\ UNCHANGED <<callVars, emits, isPositional, used>>

(* Fault: Error is handed on by a matched argument.                        *)
TagDeducedKeepingError ==
  /\ AtDeducedSpec
  /\ is_deduced(specs[d])
  /\ Accepted
  /\ ~SeveralArgumentsAssertion
  /\ Prepend(tag_type(specs[d]))
  /\ used' = used \union {tag_type(specs[d])}
  /\ NextItem
  /\ UNCHANGED <<callVars, emits, isPositional, error>>

(* deduce_tag0 on a spec that accepts: tag_deduced.                        *)
TagDeduced ==
  /\ AtDeducedSpec
  /\ is_deduced(specs[d])
  /\ Accepted
  /\ ~SeveralArgumentsAssertion
  /\ Prepend(tag_type(specs[d]))
  /\ used' = used \union {tag_type(specs[d])}
  /\ error' = 0
  /\ NextItem
  /\ UNCHANGED <<callVars, emits, isPositional>>

FailAssertion ==
  /\ AtDeducedSpec
  /\ is_deduced(specs[d])
  /\ Accepted
  /\ SeveralArgumentsAssertion
  /\ pc' = "static_assert"
  /\ UNCHANGED <<callVars, emits, i, d, isPositional, used, pack, error>>

(* Fault: recurse on List instead of its tail.                             *)
LeaveUnmatchedInPlace ==
  /\ pc = "deduce"
  /\ d > Len(specs)
  /\ error' = IF error = 0 THEN i ELSE 0
  /\ d' = 1
  /\ pc' = "item"
  /\ UNCHANGED <<callVars, emits, i, isPositional, used, pack>>

(* DeducedArgs is void_: _tagged is void_, the argument is left out of the *)
(* pack, and _error is unmatched_argument only if Error was void_.         *)
LeaveUnmatched ==
  /\ pc = "deduce"
  /\ d > Len(specs)
  /\ error' = IF error = 0 THEN i ELSE 0
  /\ NextItem
  /\ UNCHANGED <<callVars, emits, isPositional, used, pack>>

(* List is void_: the result is (ArgumentPack, Error).                     *)
ReturnPack ==
  /\ pc = "item"
  /\ i > ItemCount(specs, args)
  /\ pc' = "done"
  /\ UNCHANGED <<callVars, emits, i, d, isPositional, used, pack, error>>

MakeArgListStep ==
  \/ UseTagged
  \/ TagPositionally
  \/ StartDeduction
  \/ SkipSpec
  \/ TagDeduced
  \/ FailAssertion
  \/ LeaveUnmatched
  \/ ReturnPack

-----------------------------------------------------------------------------
Init ==
  /\ specs \in SpecLists
  /\ args \in ArgLists
  /\ mp11 \in BOOLEAN
  /\ emits \in BOOLEAN
  /\ StartLoop

Spec == Init /\ [][MakeArgListStep]_makeArgListVars

(* The compiler carries every instantiation through.                       *)
FairSpec == Spec /\ WF_makeArgListVars(MakeArgListStep)

-----------------------------------------------------------------------------
(***************************************************************************)
(* Properties.                                                             *)
(***************************************************************************)

(* Type correctness of the loop.                                           *)
TypeOK ==
  /\ specs \in SpecLists
  /\ args \in ArgLists
  /\ mp11 \in BOOLEAN
  /\ emits \in BOOLEAN
  /\ i \in 1..(ItemCount(specs, args) + 1)
  /\ d \in 1..(Len(specs) + 1)
  /\ isPositional \in BOOLEAN
  /\ used \in SUBSET Keys
  /\ pack \in Seq(Node)
  /\ error \in 0..ItemCount(specs, args)
  /\ pc \in PcValues
  /\ pc \in {"deduce", "static_assert"} => i <= ItemCount(specs, args)

InPack(j) == \E m \in DOMAIN pack : pack[m].arg = j

(* Nodes are in reverse call order and each argument has at most one: the  *)
(* order on which parameters::operator() relies when it hands the          *)
(* arguments, reversed, to the nodes head first.                           *)
PackReversesCall ==
  /\ \A m \in DOMAIN pack : pack[m].arg \in 1..(i - 1)
  /\ \A m, n \in DOMAIN pack : m < n => pack[n].arg < pack[m].arg

(* IsPositional records exactly that every argument so far was untagged    *)
(* and met a spec that is not deduced; until it is switched off no argument *)
(* is lost and each has the keyword of the spec at its own position.       *)
PositionalPrefix ==
  /\ pc \in {"item", "done"} =>
       (isPositional <=> \A j \in 1..(i - 1) :
          ~is_named_argument(args[j]) /\ ~is_deduced(specs[j]))
  /\ isPositional =>
       /\ Len(pack) = i - 1
       /\ \A m \in DOMAIN pack : pack[m].key = specs[pack[m].arg].key

(* UsedArgs holds the keys of the explicitly tagged and deduced arguments, *)
(* never one that was only bound by position: a deduced or explicit second *)
(* binding of a positional parameter is invisible to the assertion.        *)
UsedAreNotPositional ==
  used = {pack[m].key : m \in
            {n \in DOMAIN pack :
               \E j \in 1..pack[n].arg :
                 is_named_argument(args[j]) \/ is_deduced(specs[j])}}

(* The assertion of the MPL build never fires on a call that would have    *)
(* gone through: the key it complains of is already bound in the pack by   *)
(* an explicit tag or a deduction, so a duplicate node was about to be     *)
(* built.                                                                  *)
AssertionMeansDuplicate ==
  pc = "static_assert" =>
    \E m \in DOMAIN pack :
      /\ pack[m].key = specs[d].key
      /\ \E j \in 1..pack[m].arg :
           is_named_argument(args[j]) \/ is_deduced(specs[j])

(* The last r arguments consumed are unmatched, the one before them is not. *)
UnmatchedRun(r) ==
  /\ r \in 1..(i - 1)
  /\ \A j \in (i - r)..(i - 1) : ~InPack(j)
  /\ r = i - 1 \/ InPack(i - 1 - r)

(* What Error remembers: not whether some argument was unmatched, but      *)
(* whether the run of unmatched arguments at the end of those consumed has *)
(* odd length; and then it names the last of them.                         *)
ErrorIsParityOfLastRun ==
  /\ error # 0 <=> \E r \in 1..(i - 1) : r % 2 = 1 /\ UnmatchedRun(r)
  /\ error # 0 => error = i - 1

(* The key under which argument j was put in the pack.                     *)
AssignedKey(j) ==
  IF InPack(j) THEN pack[CHOOSE m \in DOMAIN pack : pack[m].arg = j].key ELSE NoKey

(* The loop implements the one-decision-per-argument specification: the    *)
(* walk over the deduced specs is a stutter until it finds the first spec  *)
(* that accepts, or none.                                                  *)
TA == INSTANCE TagAssignment WITH assigned <- [j \in 1..(i - 1) |-> AssignedKey(j)]

ImplementsTagAssignment == TA!Spec

(* How far the loop is from its end: the items left, and the instantiations*)
(* of deduce_tag0 that are left for the one at hand.                       *)
ItemsLeft == ItemCount(specs, args) + 1 - i

SpecsLeft ==
  CASE pc = "item"   -> Len(specs) + 2
    [] pc = "deduce" -> Len(specs) + 2 - d
    [] OTHER         -> 0

WorkLeft == <<ItemsLeft, SpecsLeft>>

(* Every instantiation is closer to the end than the one that caused it:   *)
(* each recursion drops an item or a deduced spec, and going back to the   *)
(* whole list of deduced specs always costs an item.                       *)
InstantiationsDescend == [][Descends(2, WorkLeft, WorkLeft')]_makeArgListVars

(* Every instantiation ends, with a result or with the assertion.          *)
Terminates == <>(pc \in {"done", "static_assert"})

(* What test/deduced.cpp:157 expects of a call with an untagged argument   *)
(* that no deduced spec accepts: make_arg_list reports it.                 *)
UnmatchedArgumentReported ==
  pc = "done" /\ (\E j \in 1..(i - 1) : ~InPack(j)) => error # 0

(* doc/reference.rst:723, "D_i+1 is D_i - [d_j]": a deduced spec that took *)
(* an argument takes no other.                                             *)
DeducedSpecTakesOneArgument ==
  \A m, n \in DOMAIN pack :
    /\ m # n
    /\ \A j \in {pack[m].arg, pack[n].arg} :
         /\ ~is_named_argument(args[j])
         /\ \E h \in 1..j : is_named_argument(args[h]) \/ is_deduced(specs[h])
    => pack[m].key # pack[n].key

=============================================================================
