# Boost.Parameter in TLA+

Boost.Parameter lets a C++ function take its arguments by position, by keyword
(`_size = 3`) or by type ("deduced parameters"). Nothing runs concurrently in
it and nothing is persisted; its state machines run inside the compiler, as
recursive template instantiations, and inside one call, as a chain of
constructors and of generated dispatch functions. What is hard about it is
sequencing: which argument is tagged with which keyword when explicit,
positional and deduced arguments are mixed, what is remembered about an
argument that matched nothing, whether the filter that decides overload
resolution and the code that builds the argument pack agree, whether a pack
whose nodes are in reverse order is filled with the right values, and in which
order defaults are evaluated. The tests of the repository exercise a few dozen
calls; the models below take all calls and all parameter lists up to a bound,
and the theorems all of them.

Paths below are relative to `src/include/boost/parameter/` unless they start
with `src/`.

## 1. Inventory

| Component | State it keeps | Operations | Interacts with | Hard behaviour | What makes it correct |
|---|---|---|---|---|---|
| Parameter specs (`required.hpp`, `optional.hpp`, `deduced.hpp`, `aux_/pack/tag_type.hpp`, `predicate.hpp`, ...) | none: types | classify a spec (`is_deduced`, `has_default`, `tag_type`) and an argument (`is_named_argument`) | everything below | nested spellings of a spec | one keyword, one predicate, one requiredness per spec |
| Tagging loop (`aux_/pack/make_arg_list.hpp`, `deduce_tag.hpp`, `tag_deduced.hpp`, `make_deduced_items.hpp`) | the rest of the items, `IsPositional`, `UsedArgs`, the pack, the error slot | one instantiation per item and per deduced spec tried | run by `parameters<>` twice per call | two nested recursions; predicates that look at the pack built so far; an error slot that is overwritten | each argument gets the keyword the documentation promises; bookkeeping exact; terminates |
| `parameters<>` (`parameters.hpp`, `aux_/pack/make_parameter_spec_items.hpp`, `satisfies.hpp`) | the decision of the filter; the pack under construction | `match`, `bind`, `operator()` | loop, `arg_list` | the loop is run twice with different settings; the arguments are reversed to meet a reversed pack | viable calls compile; a keyword holds the argument it was tagged with |
| `arg_list` (`aux_/arg_list.hpp`) | one tagged argument per node, inheritance as the list | constructors, `operator[]` with and without default, comma, `has_key`, `satisfies`, `binding` | filled by `parameters<>`, read by the dispatch layer | overload sets made of using-declarations; terminator that accepts anything | no duplicate keyword; lookup finds the argument or the default |
| Keywords and tagged arguments (`keyword.hpp`, `aux_/tagged_argument.hpp`, `aux_/default.hpp`, `aux_/tag.hpp`) | a reference to the argument | `=`, `\|`, `\|\|`, comma | create the arguments the loop sees | which overload takes an lvalue, rvalue or const under each qualifier | a category the qualifier forbids is refused |
| Predicates (`aux_/augment_predicate.hpp`, `aux_/unwrap_cv_reference.hpp`) | none | combine the user's predicate with the keyword's qualifier | `satisfies` | reference and const handling | the predicate is asked about the type the function receives |
| Result types (`binding.hpp`, `value_type.hpp`) | none | static type of a lookup | dispatch layer | defaults, lazy defaults, rvalues | agrees with what `operator[]` returns |
| Compose (`compose.hpp`, `are_tagged_arguments.hpp`, `is_argument_pack.hpp`) | none | build a pack without `parameters<>` | `arg_list` | the first comma is another operator than the later ones | the same pack whichever way it is built |
| Maybe (`aux_/maybe.hpp`) | an optional value, aligned storage, a flag | `construct`, `get`, destructor | `arg_list` lookup with default | lifetime of the constructed default | built at most once, destroyed once |
| Dispatch layer (`aux_/preprocessor/impl/function_dispatch_layer.hpp`) | the pack, the parameters extracted so far | three generated functions per optional parameter | called by the forwarding functions | defaults that use earlier parameters; exceptions half way; references to temporaries of calls that nest | every default evaluated at most once, in order, only when needed; nothing dangles |
| Forwarding overloads (`impl/forwarding_overloads.hpp`, `function_forward_match.hpp`, `no_spec_overloads.hpp`) | none: declarations | one overload per arity (and const combination) | `match`, dispatch layer | arity bounds | every legal arity once |
| Function cast (`impl/function_cast.hpp`) | none | cast an argument to the predicate's target type | dispatch layer | value category | no dangling, no copy |
| Argument-spec preprocessing (`impl/flatten.hpp`, `split_args.hpp`, `for_each.hpp`, `arity_range.hpp`) | none: preprocessor sequences | flatten nested deduced groups, split required from optional | macros | off-by-one in arity | order kept, counts right |
| Repetition tables (`aux_/preprocessor/for_each_pred.hpp`, `seq_merge.hpp`, `binary_seq_for_each*.hpp`, `inc_binary_seq.hpp`) | none | hand-unrolled loops | C++03 overloads | hand-unrolled loops | equal to the loop they unroll |
| C++03 build (rest of `parameters.hpp` and `arg_list.hpp`, `aux_/pp_impl/`) | as above | fixed-arity overloads | | const combinations | as above |
| Declarations (`name.hpp`, `nested_keyword.hpp`, `template_keyword.hpp`, `config.hpp`) | none | | | | |

`PROJECT.json` lists the same components with the sources of each, and the
hazards with the line where each one bites.

## 2. The models

**`ParameterSpecs`** is the vocabulary. A spec is a record (keyword, required,
deduced, predicate); an argument a record (explicit tag or `NoKey`, type). C++
types are abstracted to the members of `Types`. A predicate is a name, and
`Holds(F, T, B)` its truth table: it sees the argument's type and the set `B`
of keyword-type pairs bound in the pack, which is all that a binary predicate
metafunction can ask of a pack.

**`MakeArgList`** is `make_arg_list<>`, one action per branch:

| Code | Model |
|---|---|
| `List`, `DeducedArgs` (what is left of them) | `i`, `d` |
| `IsPositional`, `UsedArgs`, `ArgumentPack`, `Error`, `EmitsErrors` | `isPositional`, `used`, `pack`, `error`, `emits` |
| `BOOST_PARAMETER_CAN_USE_MP11` | `mp11`, chosen once |
| `make_arg_list0` on a tagged argument | `UseTagged` |
| on a positional one | `TagPositionally` |
| on any other: enter `deduce_tag` | `StartDeduction` |
| `deduce_tag0`, condition false / true | `SkipSpec` / `TagDeduced` |
| its `BOOST_MPL_ASSERT` | `FailAssertion` |
| end of `DeducedArgs`: `_tagged` is `void_` | `LeaveUnmatched` |
| end of `List` | `ReturnPack` |

The pack is a sequence of nodes, head first, as in the code (the latest
argument is its head). `error` is 0 for `void_` and otherwise the position of
the argument in `unmatched_argument<>`.

**`TagAssignment`** is what the loop promises: one decision per argument, in
order. An explicit tag wins; a leading run of untagged arguments over
non-deduced specs is positional; any other argument goes to the first deduced
spec that accepts it given what is bound so far, or to none. `MakeArgList`
implements it under the mapping `assigned[j]` = the keyword of the node of
argument `j`, or `NoKey`; the walk over deduced specs is a stutter.

**`Parameters`** composes the loop with the rest of `parameters<>` into the life
of one call: `match<>` runs the loop silently (`RunMakeArgList`), hands the pack
to `match_parameters_base_cond` (`BeginSatisfy`, `CheckSpec`, `RejectSpec`,
`RejectError`), and if the overload is viable its body calls `operator()`
(`CallBind`), which runs the loop again with errors on, may fail to compile
(`FailBind`), and otherwise builds the pack node by node from the reversed
arguments (`BeginBuild`, `StoreNode`, `FailNode`, `FinishBuild`). A direct call of
`operator()` starts at the second run (`filtered = FALSE`). `hides` is a choice
the C++ standard leaves to overload resolution in a corner: whether a node's
`satisfies`, disabled because of a duplicate keyword, hides the inherited one
that differs only in its return type.

**`DispatchLayer`** follows the pack from there into the function the user
wrote. `stack` is the C++ call stack, outermost call first; a frame has the
function, the number `n` of optional parameters done, the pack and the named
parameters. A reference records the index of the call whose full expression
owns the object (0: the caller), so that a temporary dies when `Return` pops its
call. `evaluated` is a history: each default evaluated and what it could name.

| Code | Model |
|---|---|
| `boost_param_impl...(args)`, casting the required arguments | `FrontEnd` |
| overload 1, `args[keyword \|\| use_default_tag()]` found / not found | `ForwardGiven` / `ForwardMissing` |
| overload 3 (takes `use_default_tag`), `(args, keyword = default)` | `BindDefault`, or `DefaultThrows` |
| overload 2 (`dispatch_1`), `args[keyword]` | `FetchDefault` |
| a conversion to a target type throws | `ConversionThrows` |
| the last overload 1, supplied by the user | `RunBody` |
| a function returns or unwinds | `Return` |

`ForwardMissing` carries no new parameter: the `use_default_tag` it passes only
selects the overload. `PerfectForwarding` tells the two implementations of
`function_cast.hpp` apart: both convert a required argument into a temporary of
the calling function, but without perfect forwarding an optional one is
converted into a temporary of `cast_convert::evaluate` (`OptCast`). A default is
taken to be a temporary, which is the shortest-lived thing it can be, and to be
of the target type or not.

**`DefaultsInOrder`** is what the documentation promises of defaults: the missing
ones are evaluated once each, in order (`Evaluate`), then the body gets the
caller's argument where there is one and the default elsewhere (`Call`); an
exception may end the call before (`Throw`). `DispatchLayer` implements it with
its frames hidden.

**`Keyword`** is the vocabulary of value categories. An expression is a record
(rvalue?, const?, kind of type, `reference_wrapper` or not). The conditions of
the four `operator=` and of the four `operator|` of `keyword<Tag>`
(`keyword.hpp`) are written out one by one, as in the header; C++'s choice among
those that accept is `Preference`, which is external. `tag` is
`aux_/tag.hpp`, `IllFormed` what the classes `tagged_argument` and
`tagged_argument_rref` refuse when they are instantiated, `Positional` the way
of an argument without a keyword (`aux_/pack/tag_keyword_arg.hpp`), which meets
none of the operators. `perfect` selects the build: without perfect forwarding
only the `const&` and `&` operators exist and no class looks at the qualifier.

**`ArgPack`** follows the expressions of one call into a pack and out of it again.

| Code | Model |
|---|---|
| `_k = x`, or `x` by position | `SpellNamed` / `SpellPositional` |
| a single tagged argument used as a pack | `UseAlone` |
| `tagged_argument::operator,`, then `arg_list::operator,` | `JoinTagged`, `JoinNext`, both by `Comma` |
| `compose(...)` | `CallCompose` |
| `parameters<>::operator()`, called directly / behind `match<>` | `CallParameters` / `CallFunction` then `Match` |
| `args[_k]`, `args[_k \| d]`, `args[_k \|\| f]` | `LookupKeyword`, `LookupDefault`, `LookupLazy` |
| `maybe<>::construct`, `construct2`, `get` | `LookupMaybe`, `Construct2` |
| `~maybe` when the full expression ends | `EndExpression` |
| `binding`, `value_type`, `has_key`, `count`, `order` | operators of the same names, which walk the nodes from the head |

A node is the index of its argument, so that a lookup can be compared with what
was written. `pc` ends in `rejected` (overload resolution finds nothing, an
error SFINAE can see) or `hard_error` (an assertion of an instantiated class).
`built` and `destroyed` count the defaults constructed in, and destroyed with,
the storage of each `maybe<>`. `Match` decides as `augment_predicate` does, with
the user's own predicates true; `Parameters` has the rest of that decision.
A lone tagged argument is no node (`ReferenceOf`): its lookup neither opens a
`maybe<>` nor asserts anything about it. Whether the assertion of a node that
holds a `maybe<>` and is looked up without default is met by the compiler in
the declaration or in the body differs between compilers; the model takes it as
a hard error.

**`KeywordMap`** is what a pack promises to the function that reads it: a finite map
from keywords to arguments. Arguments are given (`Give`) or refused; the map opens
only if no keyword was given twice (`Open`); a lookup answers with the argument of
its keyword, or with the default if there is none or if it is an empty `maybe<>`
(`Lookup`); where neither is right there is no answer, and reading changes nothing.
`ArgPack` implements it under a mapping that forgets the route, the nodes and their
order: `given` is the set of arguments by keyword, `answer` the number of the argument
that the last lookup returned, or 0 for the default.

**`BinarySeq`** is the preprocessor arithmetic of the build without perfect
forwarding: the increment (`inc_binary_seq.hpp`), its variants that leave a
prefix alone (`binary_seq_for_each_inc.hpp`), the predicates, and the tables
`BINARY_SEQ_FOR_EACH_n`, whose start sequences are written out in the order of
the file, because that order is what can be wrong. Files that unroll one pattern
(`for_each_pred.hpp`, `seq_merge.hpp`, the increments) are one operator with the
number as parameter. One of the unrolled increments, `INC_141_N`
(`binary_seq_for_each_inc.hpp:999`), keeps 11 elements where it drops 141 (`Kept`);
no table uses it.

**`ArgSpecs`** has the folds over a macro's parameter list: `FLATTEN`, `ARITY_RANGE`,
`FUNCTION_SPLIT_ARGS`. `SpecSequences` is the syntax of such a list.

**`Progress`** has the lexicographic order of tuples of numbers (`Descends`). Four of
the modules measure what a behaviour has still to do by such a tuple, and each
step must make it smaller. All four are proved; a run checks the first:

| Property | What is counted, the heaviest first |
|---|---|
| `MakeArgList!InstantiationsDescend` | items left; deduced specs left to try for the item at hand |
| `Parameters!CallDescends` | phases of the call left; items, specs to check or nodes to store; deduced specs left |
| `DispatchLayer!DispatchDescends` | whether the body is still to come; optional parameters left; which of the three functions of one runs, or, after the body, calls to leave |
| `Overloads!ExpansionDescends` | stages left; arities or nodes; `BOOST_PP_FOR`s of this arity; iterations of this one |

**`Overloads`** runs both of them: it declares first the `operator()` of
`parameters<>`, then the forwarding functions of one macro of the user, and then
makes one call.

| Code | Model |
|---|---|
| an arity that takes one declaration, or none | `DeclareOne`, `DeclareNone` |
| `BINARY_SEQ_FOR_EACH_n`, and each `BOOST_PP_FOR` in it: predicate, macro, operation | `EnterBinarySeq`, `ExpandFor`, `NextFor`, `LeaveBinarySeq` |
| the expansion cannot go on | `FailExpansion` |
| the user's macro flattens, splits, counts; its loop over arities ends | `BeginMacro`, `EndMacro` |
| overload resolution among the forwarding functions / of `operator()` | `Call`, `CallOperator` |
| the constructors `arg_list(a(N-1), ..., a0, void_...)` | `ConstructNode`, `ConstructTerminator` |

`OperatorForm`, `ForwardForm`, `FunForm` and `NoSpecForm` say which declaration each
arity gets in `parameters.hpp`, `impl/forwarding_overloads.hpp`, `macros.hpp` and
`impl/no_spec_overloads.hpp`. Overload resolution (`Best`) is C++'s and external, as
is the limit of 256 iterations of `BOOST_PP_FOR`. All overloads are generated
and counted; those of more than `MaxCallArity` parameters are not kept.

Modules whose names end in `_proofs` hold theorems; `MC...` modules give the
constants of a run. Operators commented "Fault:" are deliberately wrong
variants of the definition beside them, one plausible slip each; replacing the
definition by its fault must break the property named in `PROJECT.json`
("mutants"), which shows that the property is about the code.

## 3. Runs

| Run | Specification | Question | Result |
|---|---|---|---|
| `make_arg_list.cfg` | `MakeArgList`, fair | Is the bookkeeping of the loop exact, does every instantiation bring it closer to its end, does it end, does it implement `TagAssignment`? | holds |
| `parameters.cfg` | `Parameters`, fair | Does `match<>` decide as documented, with every parameter satisfied and no error left, is an argument unmatched in the last place refused by `match<>` and by `operator()`, does `operator()` build the pack that was matched, are complete packs aligned, what can still fail after a match, does every step bring the call closer to its end? | holds |
| `unmatched_argument.cfg` | `MakeArgList` | Is an argument that matches nothing always reported? | violated |
| `deduced_twice.cfg` | `MakeArgList` | Does a deduced parameter take one argument only? | violated |
| `misbound_argument.cfg` | `Parameters` | Does every keyword hold the argument that was tagged with it? | violated |
| `dispatch_layer.cfg` | `DispatchLayer`, fair | Does the chain implement `DefaultsInOrder`, keep pack and parameters in step, pass on only live references, and end? | holds |
| `default_not_cast.cfg` | `DispatchLayer` | Is every parameter of the body of its target type? | violated |
| `converted_argument_dead.cfg` | `DispatchLayer`, no perfect forwarding | Does a converted argument reach the body as an object? | violated |
| `arg_pack.cfg` | `ArgPack` | Do all routes to a pack give the same lookups, is the category of an argument kept and the qualifier enforced, is nothing refused without reason, is a default in a `maybe<>` destroyed once, do `binding` and `has_key` agree with lookups? Is a pack, to its reader, the map `KeywordMap`? | holds |
| `in_parameters_are_const.cfg` | `ArgPack` | Is an `in` parameter read-only? | violated |
| `overloads.cfg` | `Overloads` | Is every combination of `&` and `const&` declared once, every arity of the interface covered, every call forwarded with its constness and into the right node, do the dispatch functions split the parameters as the overloads count them, and where do the macros fail? | holds |
| `max_arity_call.cfg` | `Overloads` | Does `parameters<>` accept calls of every arity up to the maximum? | violated |

The seven violations are findings: the documentation, a comment or a test says otherwise.

* **Unmatched arguments can go unreported.** `_error` (`aux_/pack/make_arg_list.hpp:234`)
  is `unmatched_argument<>` only if the slot was `void_` before; with one error
  already there it becomes `void_` again, and any matched argument clears it.
  What the slot really records is proved: it is set iff the run of unmatched
  arguments at the end has odd length (`ErrorIsParityOfLastRun`). An unmatched
  argument in the last place after a matched one is therefore always refused
  (`TrailingUnmatchedIsRefused`): no overload is viable for it, and an `operator()`
  called directly builds no pack. It is the only case `src/test/deduced.cpp` has.
* **A deduced parameter can be bound twice.** `deduce_tag` restarts on all
  deduced specs for each argument (`aux_/pack/deduce_tag.hpp:138`), where
  `src/doc/reference.rst:722` removes a spec that took one. The call then fails
  on "duplicate keyword" in `operator()`, where the documented algorithm would
  have gone on to the next spec.
* **A keyword can hold another argument.** When an argument has no node, more
  arguments than nodes reach the constructor of the pack: the surplus is
  swallowed by `empty_arg_list` and every node takes a later argument than its
  own (`parameters.hpp:270`), provided the types convert. When every argument
  has a node this cannot happen (`CompletePackIsAligned`, proved).
* **A default is not cast.** A restriction `(type)` is applied to arguments of the
  caller only; `dispatch_1` passes `args[keyword]` as it is
  (`function_dispatch_layer.hpp:340`), where `src/doc/reference.rst:1422-1426`
  says the parameter "will be cast to that type". The tests give their defaults
  the target type by hand (`2L` for `long`).
* **A converted argument can be dead.** Without perfect forwarding
  `cast_convert::evaluate` (`function_cast.hpp:639`) returns a reference to the
  temporary that holds the converted value, and the parameter refers to it after
  `evaluate` has returned. Required arguments take another way and are safe.

* **No `operator()` at the maximum arity.** Without perfect forwarding the
  exponential overloads end below `BOOST_PARAMETER_EXPONENTIAL_OVERLOAD_THRESHOLD_ARITY`
  and the others are included only if the threshold is less than
  `BOOST_PARAMETER_MAX_ARITY` (`parameters.hpp:495`). With both equal, as
  `src/test/Jamfile.v2:97-98` sets them, a call with that many arguments finds
  none; `src/doc/reference.rst:7110-7113` promises a non-exponential one. Only that
  setting and that arity are affected (`EveryArityDeclared`, `CallsAreForwarded`).
* **`in` parameters given by position are not const.** Only `_k = x` goes through
  the operator that adds the const; a positional argument is tagged with its own
  type, so `args[_k]` is an `X&`. `src/doc/index.rst:642-645` says such parameters are
  passed by const lvalue reference. `NameAndPositionAgree` lists all the differences
  between the two spellings.

Other things the models record, where no text says the opposite clearly enough
for a finding:

* `BOOST_PARAMETER_FUN` with lower bound 0 and threshold 0 writes an empty
  template header and a parameter list that begins with a comma
  (`macros.hpp`, `FunForm`); `BINARY_SEQ_FOR_EACH_n` ends at 14 parameters. These are
  the only two ways an expansion fails (`FailsOnlyAtItsLimits`).
* `consume` parameters take scalar lvalues and const rvalues besides mutable
  rvalues, and `operator|` accepts for them a class lvalue as the default, and for
  `out` a const or temporary scalar (`DefaultActsLikeAnArgument`): an argument like
  that would be refused.
* Two lookups with a default that has to be converted construct twice in the
  storage of an empty `maybe<>`; the first value is never destroyed. The one
  destruction that does happen is exact (`MaybeDefaultsAreDestroyed`).
* Without perfect forwarding only `match<>` enforces qualifiers: `compose`, the comma
  operator and a direct call of `parameters<>` do not (`Enforced`).

### Bounds

`MCMakeArgList` takes all parameter lists of up to 3 specs and all calls of up to
3 arguments. The keyword of spec `p` is fixed to the `p`-th of the keywords, which
loses nothing: specs have distinct keywords and no definition looks at their
names. One more keyword is known to no spec, so that an argument can be tagged
with a foreign keyword. Two types and a few predicates (always true, true of
one type, and one that looks at the pack) tell the branches apart. Three
arguments are needed for an error that is set, erased by a second unmatched
argument, and followed by a match; for a deduced parameter bound, then asked
for again; and for positional, tagged and deduced arguments in one call. The
bounds on the lists are the only ones: nothing in the loop counts further.

`MCParameters` takes up to 2 specs and 3 arguments, so that calls with more
arguments than specs occur; `Converts` lets one type initialise the other but
not conversely, so that a misaligned pack both compiles and fails to.

`MCDispatchLayer` takes functions with at most one required and three optional
parameters, and packs with any selection of their keywords and one foreign
keyword, each argument of the target type or not. Three optional parameters
give every pattern of given and missing neighbours; required parameters are all
treated alike and at once. One order of each pack is taken, since a pack
without duplicates is looked up alike in any order. The depth of the stack is
bounded by the number of parameters (`NestingIsBounded`, proved), not by the instance.

`MCArgPack` has three keywords. `subject` is tried with every qualifier and with
an argument of every category (lvalue and rvalue, const or not; scalar, class,
`maybe<>`; wrapped or not), next to plain arguments of two other keywords, so that
it can be first, between and last on every route. One interesting argument is enough
for the properties of categories, as no operator looks at two arguments but for
their keywords; a repeated keyword is spelled with a plain argument again
(`ExpressionsAgain`), at any distance from the first. Two lookups are needed to
construct over a default; no property counts to three.

`MCOverloads` takes maximum arities 2 to 4 with every threshold from 0 to one above
the maximum, so that it lies on each side of it and on it; parameter lists of
every nesting (required before and after optional, deduced groups alone, first
and last; `ParameterNames` are the names in them); every lower bound of
`BOOST_PARAMETER_FUN`; and the no-spec macros (`COMPOSE_MAX_ARITY` is 15, that of
the longest list; 5 in `max_arity_call.cfg`, which has no long lists; with perfect
forwarding the no-spec macros are variadic and it only bounds the arities looked at). Calls of up to `MaxCallArity` = 4 arguments of every
category are made. For the tables three long lists are added: 9 arguments, where
the first split tables are used and chained, 14, where all of them are, in the
order of the arities, and 15, which no table has. `PPForLimit` is the 256 of
Boost.Preprocessor.

`CHECK_DEADLOCK FALSE` is set everywhere because a call ends: with a pack, with
an overload that is not viable, with a compilation error, or, at run time, with
an empty stack or at the end of the full expression.

### Fairness

`FairSpec` adds weak fairness of the next-state relation. The compiler
instantiates every template the call names, and the constructors run to their
end: nothing but the code's own conditions can stop a call half way. For
`DispatchLayer` this takes default expressions, conversions and the body to
return or throw, which is the user's part. No fairness between alternatives is assumed; there is no choice in a started call.
`ArgPack` and `Overloads` state none: the user decides how much of a pack to spell
and look up, and the loops of `Overloads` are bounded counters, so that only safety is in question.

## 4. Proofs

The theorems hold for every value of the constants that satisfies the named
assumptions, which TLC evaluates on every run of the module:

| Assumption | What it says, and why the code justifies it |
|---|---|
| `NoKeyAssumption`, `SpecListsAssumption`, `ArgListsAssumption` (`ParameterSpecs`) | `NoKey` is not a keyword; specs are well-formed, with pairwise distinct keywords in a list; arguments are well-formed |
| `ConvertsAssumption` (`Parameters`) | a type can be initialised from itself |
| `SignaturesAssumption`, `CallerPacksAssumption`, `BuildAssumption` (`DispatchLayer`) | the parameters of a signature have distinct keywords; the caller's pack binds none twice, which `arg_list` asserts |
| `ExpressionsAssumption`, `DefaultsAssumption`, `BoundsAssumption` (`ArgPack`) | arguments are expressions; no default is a `maybe<>`, which the library makes for arguments only; the bounds are natural numbers |
| `InterfacesAssumption` (`Overloads`) | the limits that `src/doc/reference.rst:7079-7112` sets: a maximum arity of at least 2 that `COMPOSE_MAX_ARITY` does not fall short of, any threshold, no macro with more parameters than the maximum arity, and a parameter list that is one |
| `BoundsAssumption` (`Overloads`) | `MaxCallArity` is no more than `COMPOSE_MAX_ARITY` |
| `PPForLimitAssumption` (`Overloads`) | `BOOST_PP_FOR` makes 256 iterations or more |

Nothing is assumed of `Holds`, of `Converts` beyond that, of the qualifiers, or of
the length of lists, and sets need not be finite. The bounds of `ArgPack` and
`Overloads` (`MaxArgs`, `MaxLookups`, `MaxCallArity`) are constants too: what is proved
holds for calls of any length and any number of lookups.

| Theorem (`Spec => ...`) | Statement |
|---|---|
| `MakeArgList_proofs!TypeCorrect` | `[]TypeOK` |
| `PackOrder` | `[]PackReversesCall`: nodes in reverse call order, no argument twice |
| `PositionalMatching` | `[]PositionalPrefix` |
| `UsedArgsAreExact` | `[]UsedAreNotPositional`: `UsedArgs` is the set of keywords bound explicitly or by deduction |
| `AssertionIsJustified` | `[]AssertionMeansDuplicate` |
| `ErrorIsParity` | `[]ErrorIsParityOfLastRun` |
| `DescentEnds` | tuples of natural numbers under `Descends` are well-founded: nothing descends for ever |
| `InstantiationsEnd` | `InstantiationsDescend` |
| `TagAssignment_proofs!Refinement` | `ImplementsTagAssignment` |
| `Parameters_proofs!ParametersTypeCorrect` | `[]TypeOK` |
| `Alignment` | `[]CompletePackIsAligned` |
| `CallsEnd` | `CallDescends` |
| `Match_proofs!SecondRunRebuildsThePack` | `[]BindBuildsTheMatchedPack`: the run of the loop in `operator()` leaves the pack that `match<>` decided on |
| `ViabilityIsSatisfaction` | `[]MatchMeansSatisfied`: no error left by the run that matched, and every parameter satisfied |
| `TrailingRefusal` | `[]TrailingUnmatchedIsRefused`, in both runs |
| `ViableCallsCompile` | `[]ViableFailsOnlyOnDuplicateOrLoss` |
| `ArgPack_proofs!ArgPackTypes` | `[]TypeOK` |
| `LookupsFindTheirArguments` | `[]LookupFindsItsArgument`, on every route to a pack |
| `RefusalsHaveReasons` | `[]RefusedForAReason` |
| `CategoriesAreKept` | `[]CategoryKept` |
| `NamesAndPositionsAgree` | `[]NameAndPositionAgree` |
| `DefaultsActLikeArguments` | `[]DefaultActsLikeAnArgument` |
| `StaticViewsAgree` | `[]StaticViewAgrees` |
| `DefaultsAreDestroyed` | `[]MaybeDefaultsAreDestroyed` |
| `PacksAreMaps` | `ImplementsKeywordMap`, on every route to a pack |
| `Overloads_proofs!OverloadsTypes` | `[]TypeOK`, with at most one best overload |
| `CombinationsAreCounted` | `[]EveryCombinationOnce` |
| `ExpansionsFailAtTheirLimits` | `[]FailsOnlyAtItsLimits` |
| `AritiesAreDeclared` | `[]EveryArityDeclared` |
| `ForwardingSucceeds` | `[]CallsAreForwarded` |
| `MutabilityIsKept` | `[]MutabilityReachesThePack` |
| `NodesGetTheirArguments` | `[]ArgumentsReachTheirNodes` |
| `SplitsAgree` | `[]SplitAgreesWithRange`, for lists of any length and nesting |
| `ExpansionsEnd` | `ExpansionDescends` |
| `DispatchLayer_proofs!DispatchTypeCorrect` | `[]TypeOK` |
| `UniqueKeywords` | `[]NoDuplicateKeyword` |
| `BothWays` | `[]AccessibleBothWays` |
| `NothingDangles` (if `PerfectForwarding`) | `[]NoDanglingReference` |
| `DefaultsSeeTheParameters` | `[]DefaultSawWhatTheBodyGets` |
| `DefaultsAreInOrder` | `ImplementsDefaultsInOrder` |
| `NestingBound` | `[]NestingIsBounded` |
| `DispatchEnds` | `DispatchDescends` |

*The loop.* `LoopInv` is the conjunction of the type invariant, the shape of the
pack, the positional prefix, the exactness of `used` and the parity of the
error. Type correctness alone is not inductive: that `pack[m].arg` indexes the
arguments needs the pack to be ordered. The positional prefix needs "no
argument is lost while positional", which is why its second half speaks of the
length of the pack. The parity needs uniqueness of the run of unmatched
arguments (`RunUnique`) and how it grows by one (`RunGrows`). Each part has a
step lemma that splits on the kind of step: one that adds a node, one that
leaves the argument unmatched, one that stays on the item (`StepKinds`).

*The refinement.* Appending a node leaves the keywords of the earlier arguments
alone, so `assigned` grows by exactly the decision of this argument; that the
decision is `Assignment(i)` needs two facts that `LoopInv` carries or that are
added to it: `isPositional` equals `ByPosition`, and the specs walked over so
far are not candidates.

*The composition.* `Parameters` runs the loop in two of its phases and otherwise
leaves it alone or restarts it, so `LoopInv` lifts by citing the step lemma
through the instance. `StoredInv` adds that the pack under construction was
built without error and that node `m` holds argument `Len(args) + 1 - m`;
alignment follows because a strictly decreasing sequence of `n` positions out
of `1..n` is `n, n - 1, ..., 1`.

*The two runs.* Rather than simulate one run by the other, the proof says what any
finished run leaves: `PackOfTheCall` is a statement about a pack alone, that it is
ordered and holds for every argument the decision `TagAssignment` makes on what
the pack itself binds before it. As far as
the second run has come, its pack is the end of such a pack (`Agrees`), so its next
decision, which depends on the bindings before the argument only, is the same
(`SameDecision`); so it can only rebuild the pack of the first, whichever the setting
of `EmitsErrors` and of MP11, and `MatchInv` carries `matched` through to it. The error of the first run is reset when
the second begins, so no state of a viable call shows it; but it is a matter of the
matched pack alone (`FinishedRunError`): set iff the unmatched arguments at the end of the
call are odd in number. `MatchInv` says so of `matched` for as long as the walk over the
specs can still look at the error, and that none was pending once it has passed. A last
argument lost alone is a run of one (`LostLastIsPending`), which gives
`TrailingRefusal`. On a pack
without duplicates as many keys as nodes make the keys injective
(`UnambiguousIsInjective`), and then `satisfies` answers the same whether or not a
disabled node hides the ones below. A second run that stops on its assertion has
a duplicate (`AssertedRunHasDuplicate`), one that ends in an error has lost an
argument (`ErrorMeansLoss`), and without loss every node is initialised from its
own argument (`OwnArgumentFits`, which needs `ConvertsAssumption`).

*The operators of a keyword.* `Keyword_proofs` computes the overload resolution once:
for each of the four categories of expression, the operator that is best under
each qualifier and build (`BestForMutableLvalue` and its relatives), and from them
what `Named`, `Positional` and a default make of any expression. The theorems on
categories are these closed forms compared with each other.

*The pack.* `PackOfArgsInv` has four parts: every argument is tagged as it was written
and only well-formed tags go on (`ArgsInv`); the pack is a permutation of the
arguments, or of the first of them while it grows by commas, and its keys are
unique where it is read (`PackInv`); `constructed` is exact, and a default is counted
where it is (`StorageInv`); the last lookup is what the code returns for the pack as
it stands (`LastInv`). Uniqueness is what makes `Owner` a single node, hence lookups
independent of the route; the static view walks the nodes from the head and
meets that node (`WalkFinds`). `StorageInv` bounds the number built by the lookups
made and not by 1, since a second lookup can construct again.

*The overloads.* The combinations are counted in binary. `Place` reads the sequence of
an overload as a number; the digits a table fixes count the `BOOST_PP_FOR`s
(`TablesAreComplete`: the rows are all numbers of their length, in order, row by row
as the file lists them), the operation of a `BOOST_PP_FOR` adds one
(`IncrementAddsOne`), and `Place` is injective. `InBlock` states for each iteration that
the digits spell how many overloads were emitted; it follows that a table emits
`2^n` and no `BOOST_PP_FOR` needs more than 128 iterations, which is within
`PPForLimit` (`ForHasNoLimit`). `ListsInv` then says that an arity that is passed has all
its overloads and that there are no others. Resolution needs that two different
overloads that are both best cannot exist (`BestIsUnique`) and that among all
combinations the best takes exactly the mutable lvalues by `&` (`BestOfCombinations`).
`PackInv` is the state of the constructor chain: after `m` nodes the arguments left
stand reversed before the padding.

*The dispatch chain.* The properties are not inductive as they stand: that a
default can be bound without a duplicate rests on what the function that chose
the overload saw. `Inv` therefore adds, for every frame, what its next step will
need (`Ready`): the keyword is unbound in `dispatch_0_default` and bound in
`dispatch_1`. A frame never changes once pushed, so a step has to establish the
condition for the new frame only (`CallKeeps`). `ScopeInv` (scopes are prefixes
of the parameters) and `OrderInv` (the pack binds exactly what the caller gave
and the defaults evaluated, which are those of the missing parameters passed)
are added for the last two theorems. `DispatchLayer` assumes of its constants
that the parameters of a signature have distinct keywords
(`SignaturesAssumption`) and that the caller's pack binds none twice
(`CallerPacksAssumption`), which `arg_list` asserts.

*The parameter lists.* `FlattenSeq` and `FUNCTION_SPLIT_ARGS` are defined by recursion,
and what they return for every list is an induction over data. The induction
theorems of the library take the formula as an operator, which the provers cannot
instantiate, so `EveryNatural` states induction for a set of numbers, from the
well-foundedness of `<`; the formula is the set. `FoldExists` then shows that a function
defined by such a recursion exists at all, which is what the `CHOOSE` behind the
definition needs (`PartsOfFlattenSeq`). Flattening keeps the names because they can be taken from the
parts (`NamesOfFlattenSeq`); `IsSplit` is the state of the fold after `n` parameters: a required
parameter lies where the number of required ones up to it says, and the others
likewise.

*The map.* `PacksAreMaps` rests on `PackOfArgsInv`. A step that spells or joins an argument
is `Give`, the last one of a route is `Open`, which needs that the code accepts a pack
for reading only if its keys are unique; the lookups that convert into the storage
of a `maybe<>` still answer with the default. A lookup that fails is `Refuse`, as is every
expression the operators reject.

*Progress.* `InstantiationsEnd`, `CallsEnd`, `DispatchEnds` and `ExpansionsEnd` say that each step makes a tuple
of natural numbers smaller, and `DescentEnds` that this cannot go on for ever,
whatever the length of the lists. Together they exclude an infinite instantiation, call
or expansion. That the components are natural numbers is most of the work: it needs the
type invariants, and for `Overloads` that a table never exceeds its blocks nor a `BOOST_PP_FOR`
its iterations (`LeftIsNatural`). `NestingBound` counts the frames on the stack by what their functions have
already evaluated.

Four of the theorems state something no run checks: `CallsEnd` and `DispatchEnds`, since the
runs check that a call is decided (`Decided`) and a chain ends (`Terminates`), which is what
the measures are for; `ExpansionsEnd`; and `NestingBound`.

Only model-checked: `Terminates` and `Decided`, which add to progress that the system does
not stop half way, that is, fairness and what is enabled, and neither can be reasoned
about with the provers at hand. The seven properties
that the runs find violated have no theorem, of course; what holds in their
place has one (`ErrorIsParity`, `TrailingRefusal`, `Alignment`, `NothingDangles`,
`AritiesAreDeclared`, `NamesAndPositionsAgree`).

## 5. Not modelled

* C++ types beyond their identity in the loop and the dispatch layer, beyond value
  category, constness and kind in `Keyword`; the computation of target types in
  `function_cast.hpp`; how a predicate is unwrapped and applied (`augment_predicate.hpp`
  below its qualifier checks) and how a nested spelling such as
  `deduced<required<tag> >` is taken apart. These are type functions without state.
* Diagnostics other than their presence.
* `match<>` of the build without perfect forwarding, which is generated per arity
  from the same loop; the run of the loop is the one in `Parameters`, and what its
  construction of the pack does differently is in `Overloads`.
* `lazy_binding` and the placeholder forms of `binding` and `value_type`; the MPL
  iterators of `arg_list` (`order` has what they count); the `key_owner` workaround for
  one old compiler; `are_tagged_arguments` and `is_argument_pack`.
* Macros that only paste tokens (the bodies of `preprocessor.hpp`, the recognition of
  qualifiers and of `*` in the spelling of a parameter), keyword declarations
  (`name.hpp`, `nested_keyword.hpp`, `template_keyword.hpp`), configuration.

## 6. Plan

Every invariant, every action property and all three refinements of the runs that hold
are proved. What is left:

1. A model of `match<>` in the build without perfect forwarding, generated per arity,
   as a second refinement of `TagAssignment`.
2. That the pack `ArgPack` composes is the same, node by node, on every route: today
   this is said through lookups (`LookupFindsItsArgument`, `ImplementsKeywordMap`).
