----------------------------- MODULE Overloads -----------------------------
(***************************************************************************)
(* The overloads behind one Boost.Parameter interface, and one call of it. *)
(* The class template parameters<> declares its operator(); a macro of the *)
(* user then declares the forwarding functions: BOOST_PARAMETER_FUNCTION   *)
(* and its relatives ("function", constructors alike), the older           *)
(* BOOST_PARAMETER_FUN ("fun"), or BOOST_PARAMETER_NO_SPEC_FUNCTION        *)
(* ("no_spec").  A call is resolved among the forwarding functions, and    *)
(* the chosen one calls operator() with its parameters.                    *)
(*                                                                         *)
(* With perfect forwarding an overload per arity is enough.  Without, an   *)
(* overload is generated for each way to take every argument by & or by    *)
(* const&, a number exponential in the arity.                              *)
(***************************************************************************)
EXTENDS BinarySeq, ArgSpecs, FiniteSets, Progress

CONSTANTS
  Interfaces,      \* the macro uses and configurations to start from
  COMPOSE_MAX_ARITY,
  MaxCallArity,    \* bound: overloads with more parameters are generated
                   \* and counted but not kept, and no call of them is made
  PPForLimit       \* external: the iterations BOOST_PP_FOR can make

(* What config.hpp leaves to the user, within the documented limits, and   *)
(* what a macro may be given: no more parameters than parameters<> takes.  *)
ASSUME InterfacesAssumption ==
  /\ COMPOSE_MAX_ARITY \in Nat
  /\ \A i \in Interfaces :
       /\ i.kind \in {"function", "fun", "no_spec"}
       /\ i.perfect \in BOOLEAN
       /\ i.maxArity \in 2 .. COMPOSE_MAX_ARITY
       /\ i.threshold \in Nat
       /\ i.kind = "function" => /\ i.specs \in SpecSequences
                                 /\ Len(FLATTEN(i.specs)) \in 0 .. i.maxArity
       /\ i.kind = "fun" => /\ i.lo \in Nat
                            /\ i.hi \in i.lo .. i.maxArity

ASSUME BoundsAssumption == MaxCallArity \in 0 .. COMPOSE_MAX_ARITY

(* Boost.Preprocessor offers 256 iterations or more.                       *)
ASSUME PPForLimitAssumption == PPForLimit \in Nat /\ PPForLimit >= 256

VARIABLES
  interface,   \* [kind, specs, lo, hi, perfect, maxArity, threshold]
  flat,        \* the flattened parameter list
  split,       \* the dispatch functions' view of it
  what,        \* the overload set being declared: operator | macro
  range,       \* its arities, [begin, end)
  pc,          \* repeat | for | declared | call | compose | build | bound |
               \* not_callable | hard_error
  arity,       \* the arity BOOST_PP_REPEAT_FROM_TO is at
  block,       \* the BOOST_PP_FOR that runs
  seq,         \* its state
  iterations,  \* how often it has expanded its macro
  emitted,     \* overloads of this arity so far
  covered,     \* covered[w]: the arities some overload of w takes
  overloads,   \* overloads[w]: parameter lists, up to MaxCallArity
  args,        \* the call: each argument's category
  chosen,      \* chosen[w]: the best overloads, one if the call is well-formed
  inits,       \* constructor arguments of the node under construction
  nodes        \* the argument each node of the pack was given, head first

declVars == <<interface, flat, split, what, range, arity, block, seq,
              iterations, emitted, covered, overloads>>
callVars == <<args, chosen, inits, nodes>>
vars == <<declVars, pc, callVars>>

perfect == interface.perfect
maxArity == interface.maxArity
threshold == interface.threshold

-----------------------------------------------------------------------------
(* Which declarations an arity gets.                                       *)

(* Fault: the iteration over overloads.hpp starts one arity late.          *)
OperatorFormOffByOne(k) ==
  CASE k = 0 -> "nullary"
    [] k > 0 /\ perfect -> "forwarding"
    [] k > 0 /\ ~perfect /\ k < threshold -> "binary"
    [] k > threshold /\ ~perfect -> "mutable"
    [] OTHER -> "none"

(* parameters<>::operator().  Without perfect forwarding: binary sequences *)
(* below the threshold; from there on overloads.hpp, all parameters by &,  *)
(* which is included only if the threshold is less than the maximum arity. *)
OperatorForm(k) ==
  CASE k = 0 -> "nullary"
    [] k > 0 /\ perfect -> "forwarding"
    [] k > 0 /\ ~perfect /\ k < threshold -> "binary"
    [] k > 0 /\ ~perfect /\ k >= threshold /\ threshold < maxArity -> "mutable"
    [] OTHER -> "none"

(* Fault: from the threshold on, const& only, as BOOST_PARAMETER_FUN does. *)
ForwardConstAboveThreshold(k) ==
  CASE k = 0 -> "nullary"
    [] k > 0 /\ perfect -> "forwarding"
    [] k > 0 /\ ~perfect /\ k < threshold -> "binary"
    [] OTHER -> "const"

(* BOOST_PARAMETER_FUNCTION_FORWARD_OVERLOADS, _CONSTRUCTOR_OVERLOADS.     *)
ForwardForm(k) ==
  CASE k = 0 -> "nullary"
    [] k > 0 /\ perfect -> "forwarding"
    [] OTHER -> "binary"

(* BOOST_PARAMETER_FUN_DECL.  FUN_DEFN_0 writes `template <>` and a        *)
(* parameter list that starts with a comma if there are no arguments.      *)
FunForm(k) ==
  CASE perfect -> IF k = 0 THEN "nullary" ELSE "forwarding"
    [] ~perfect /\ k < threshold -> IF k = 0 THEN "nullary" ELSE "binary"
    [] OTHER -> IF k = 0 THEN "ill_formed" ELSE "const"

(* BOOST_PARAMETER_NO_SPEC_FUNCTION_OVERLOAD and the constructors take     *)
(* their tagged arguments by const& in both builds.  With perfect          *)
(* forwarding one variadic declaration takes any number of them, here one  *)
(* declaration for each arity.                                             *)
NoSpecForm(k) == "const"

FormOf(k) ==
  CASE what = "operator" -> OperatorForm(k)
    [] what = "macro" /\ interface.kind = "function" -> ForwardForm(k)
    [] what = "macro" /\ interface.kind = "fun" -> FunForm(k)
    [] OTHER -> NoSpecForm(k)

ParameterOf(form) ==
  CASE form = "forwarding" -> "&&"
    [] form = "const" -> "const&"
    [] OTHER -> "&"

(* The arities a macro goes through.  BOOST_PARAMETER_FUN is told its      *)
(* bounds, the no-spec macros go from 1 to the maximum of compose; with    *)
(* perfect forwarding that maximum is no limit of theirs, only a bound of  *)
(* the arities looked at.                                                  *)
RangeOfMacro(args0) ==
  CASE interface.kind = "function" -> ARITY_RANGE(args0)
    [] interface.kind = "fun" -> <<interface.lo, interface.hi + 1>>
    [] OTHER -> <<1, COMPOSE_MAX_ARITY + 1>>

Declare(params) ==
  /\ covered' = [covered EXCEPT ![what] = @ \union {arity}]
  /\ overloads' = IF arity <= MaxCallArity
                  THEN [overloads EXCEPT ![what] = @ \union {params}]
                  ELSE overloads

-----------------------------------------------------------------------------
Init ==
  /\ interface \in Interfaces
  /\ flat = << >>
  /\ split = FUNCTION_SPLIT_ARGS(<< >>)
  /\ what = "operator"
  /\ range = <<0, interface.maxArity + 1>>
  /\ pc = "repeat"
  /\ arity = 0
  /\ block = 0
  /\ seq = << >>
  /\ iterations = 0
  /\ emitted = 0
  /\ covered = [operator |-> {}, macro |-> {}]
  /\ overloads = [operator |-> {}, macro |-> {}]
  /\ args = << >>
  /\ chosen = [operator |-> {}, macro |-> {}]
  /\ inits = << >>
  /\ nodes = << >>

(* An arity that needs one declaration, or none.                           *)
DeclareOne ==
  /\ pc = "repeat"
  /\ arity < range[2]
  /\ FormOf(arity) \in {"nullary", "forwarding", "const", "mutable"}
  /\ Declare([j \in 1 .. arity |-> ParameterOf(FormOf(arity))])
  /\ arity' = arity + 1
  /\ UNCHANGED <<interface, flat, split, what, range, pc, block, seq,
                 iterations, emitted, callVars>>

DeclareNone ==
  /\ pc = "repeat"
  /\ arity < range[2]
  /\ FormOf(arity) = "none"
  /\ arity' = arity + 1
  /\ UNCHANGED <<interface, flat, split, what, range, pc, block, seq,
                 iterations, emitted, covered, overloads, callVars>>

(* BINARY_SEQ_FOR_EACH_Z.                                                  *)
EnterBinarySeq ==
  /\ pc = "repeat"
  /\ arity < range[2]
  /\ FormOf(arity) = "binary"
  /\ arity <= MaxBinaryArity
  /\ pc' = "for"
  /\ block' = 1
  /\ seq' = ForStart(arity, 1)
  /\ iterations' = 0
  /\ emitted' = 0
  /\ UNCHANGED <<interface, flat, split, what, range, arity, covered,
                 overloads, callVars>>

(* The expansion cannot go on: FUN_DEFN_0 without arguments, a macro       *)
(* BINARY_SEQ_FOR_EACH_n nobody defined, BOOST_PP_FOR at its limit.        *)
Stuck ==
  IF pc = "repeat"
  THEN /\ arity < range[2]
       /\ FormOf(arity) = "ill_formed"
          \/ (FormOf(arity) = "binary" /\ arity > MaxBinaryArity)
  ELSE /\ pc = "for"
       /\ block <= Len(StartDigits(arity))
       /\ FOR_EACH_PRED(arity + 1, seq)
       /\ iterations = PPForLimit

FailExpansion ==
  /\ Stuck
  /\ pc' = "hard_error"
  /\ UNCHANGED <<declVars, callVars>>

(* BOOST_PP_FOR: predicate, macro, operation.                              *)
ExpandFor ==
  /\ pc = "for"
  /\ block <= Len(StartDigits(arity))
  /\ FOR_EACH_PRED(arity + 1, seq)
  /\ iterations < PPForLimit
  /\ Declare(BINARY_SEQ_TO_ARGS(Tail(seq)))
  /\ seq' = ForNext(arity, seq)
  /\ iterations' = iterations + 1
  /\ emitted' = emitted + 1
  /\ UNCHANGED <<interface, flat, split, what, range, pc, arity, block,
                 callVars>>

NextFor ==
  /\ pc = "for"
  /\ block <= Len(StartDigits(arity))
  /\ ~FOR_EACH_PRED(arity + 1, seq)
  /\ block' = block + 1
  /\ seq' = IF block < Len(StartDigits(arity))
            THEN ForStart(arity, block + 1) ELSE << >>
  /\ iterations' = 0
  /\ UNCHANGED <<interface, flat, split, what, range, pc, arity, emitted,
                 covered, overloads, callVars>>

LeaveBinarySeq ==
  /\ pc = "for"
  /\ block > Len(StartDigits(arity))
  /\ pc' = "repeat"
  /\ arity' = arity + 1
  /\ UNCHANGED <<interface, flat, split, what, range, block, seq, iterations,
                 emitted, covered, overloads, callVars>>

(* Fault: the arities go on where those of operator() ended.              *)
BeginMacroKeepingArity ==
  /\ pc = "repeat"
  /\ what = "operator"
  /\ arity >= range[2]
  /\ what' = "macro"
  /\ flat' = FLATTEN(interface.specs)
  /\ split' = FUNCTION_SPLIT_ARGS(FLATTEN(interface.specs))
  /\ range' = RangeOfMacro(FLATTEN(interface.specs))
  /\ UNCHANGED <<interface, pc, arity, block, seq, iterations, emitted,
                 covered, overloads, callVars>>

(* The user's macro: flatten and split its parameters, start over.         *)
BeginMacro ==
  /\ pc = "repeat"
  /\ what = "operator"
  /\ arity >= range[2]
  /\ what' = "macro"
  /\ flat' = FLATTEN(interface.specs)
  /\ split' = FUNCTION_SPLIT_ARGS(FLATTEN(interface.specs))
  /\ range' = RangeOfMacro(FLATTEN(interface.specs))
  /\ arity' = RangeOfMacro(FLATTEN(interface.specs))[1]
  /\ UNCHANGED <<interface, pc, block, seq, iterations, emitted, covered,
                 overloads, callVars>>

EndMacro ==
  /\ pc = "repeat"
  /\ what = "macro"
  /\ arity >= range[2]
  /\ pc' = "declared"
  /\ UNCHANGED <<declVars, callVars>>

-----------------------------------------------------------------------------
(* One call.  An argument is a mutable or const lvalue, or an rvalue.      *)
Categories == {"mutable", "const", "rvalue"}

(* Overload resolution of C++, for parameters that are deduced: an rvalue  *)
(* binds to no &; a mutable lvalue would gain a const in a const&; of two  *)
(* overloads that convert all arguments alike, the more specialised wins.  *)
Binds(param, cat) == param = "&" => cat # "rvalue"

AddsConst(param, cat) == param = "const&" /\ cat = "mutable"

Viable(set, cats) ==
  {p \in set : Len(p) = Len(cats) /\ \A j \in DOMAIN cats : Binds(p[j], cats[j])}

Better(p, q, cats) ==
  LET Loses(a, b, j) == AddsConst(a[j], cats[j]) /\ ~AddsConst(b[j], cats[j])
      MoreSpecialised ==
        \A j \in DOMAIN p : p[j] = q[j] \/ (p[j] = "const&" /\ q[j] = "&")
  IN  /\ ~\E j \in DOMAIN p : Loses(p, q, j)
      /\ (\E j \in DOMAIN p : Loses(q, p, j)) \/ MoreSpecialised

Best(set, cats) ==
  LET candidates == Viable(set, cats)
  IN  {p \in candidates : \A q \in candidates \ {p} : Better(p, q, cats)}

(* What a forwarding function passes on: std::forward restores the         *)
(* category, otherwise the parameter itself is named, an lvalue.           *)
Forwarded(param, cat) ==
  CASE param = "&&" -> cat
    [] param = "const&" -> "const"
    [] OTHER -> cat

ForwardedArgs ==
  LET callee == CHOOSE p \in chosen.macro : TRUE
  IN  [j \in DOMAIN args |-> Forwarded(callee[j], args[j])]

Call ==
  /\ pc = "declared"
  /\ \E len \in {k \in 0 .. MaxCallArity : range[1] <= k /\ k < range[2]} :
       \E cats \in [1 .. len -> Categories] :
         /\ args' = cats
         /\ chosen' = [chosen EXCEPT !.macro = Best(overloads.macro, cats)]
  /\ pc' = IF chosen'.macro = {} THEN "not_callable"
           ELSE IF interface.kind = "no_spec" THEN "compose" ELSE "call"
  /\ UNCHANGED <<declVars, inits, nodes>>

(* Fault: the arguments are passed to the pack in their own order.         *)
InOwnOrder(len) == [j \in 1 .. COMPOSE_MAX_ARITY |-> IF j <= len THEN j ELSE 0]

(* arg_pack_init: a(N-1), ..., a0, then void_reference() up to the number  *)
(* of parameters the constructors of arg_list have.                        *)
ArgPackInit(len) ==
  [j \in 1 .. COMPOSE_MAX_ARITY |-> IF j <= len THEN len + 1 - j ELSE 0]

(* The body of the chosen forwarding function calls operator().            *)
CallOperator ==
  /\ pc = "call"
  /\ chosen' = [chosen EXCEPT !.operator = Best(overloads.operator, ForwardedArgs)]
  /\ pc' = IF chosen'.operator = {} THEN "not_callable"
           ELSE IF (perfect \/ args = << >>) THEN "bound" ELSE "build"
  /\ inits' = IF pc' = "build" THEN ArgPackInit(Len(args)) ELSE inits
  /\ UNCHANGED <<declVars, args, nodes>>

(* The constructor of arg_list: the first argument is the node's own, the  *)
(* others and one more void_reference() go to Next.                        *)
ConstructNode ==
  /\ pc = "build"
  /\ Len(nodes) < Len(args)
  /\ nodes' = Append(nodes, Head(inits))
  /\ inits' = Append(Tail(inits), 0)
  /\ UNCHANGED <<declVars, pc, args, chosen>>

(* empty_arg_list takes void_ references only.                             *)
ConstructTerminator ==
  /\ pc = "build"
  /\ Len(nodes) = Len(args)
  /\ pc' = IF \A j \in DOMAIN inits : inits[j] = 0 THEN "bound" ELSE "hard_error"
  /\ UNCHANGED <<declVars, callVars>>

Expansion ==
  \/ DeclareOne
  \/ DeclareNone
  \/ EnterBinarySeq
  \/ FailExpansion
  \/ ExpandFor
  \/ NextFor
  \/ LeaveBinarySeq
  \/ BeginMacro
  \/ EndMacro

Next ==
  \/ Expansion
  \/ Call
  \/ CallOperator
  \/ ConstructNode
  \/ ConstructTerminator

Spec == Init /\ [][Next]_vars
-----------------------------------------------------------------------------
ParameterLists ==
  UNION {[1 .. n -> {"&", "const&", "&&"}] : n \in 0 .. MaxCallArity}

(* Every variable has its type: the arity stays within the range of the    *)
(* set that is declared, a binary sequence is the user's data and bits, and*)
(* overload resolution never finds two best overloads.                     *)
TypeOK ==
  /\ interface \in Interfaces
  /\ what \in {"operator", "macro"}
  /\ pc \in {"repeat", "for", "declared", "call", "compose", "build", "bound",
             "not_callable", "hard_error"}
  /\ arity \in 0 .. range[2]
  /\ block \in 0 .. 129
  /\ seq # << >> => Head(seq) = Data /\ \A j \in 2 .. Len(seq) : seq[j] \in 0 .. 1
  /\ iterations \in 0 .. PPForLimit
  /\ \A w \in {"operator", "macro"} :
       /\ overloads[w] \subseteq ParameterLists
       /\ chosen[w] \subseteq overloads[w]
       /\ Cardinality(chosen[w]) <= 1
  /\ Len(nodes) <= Len(args)

(* The number that up to seven binary digits spell, low digit first.       *)
BitsValue(bits) ==
  LET Digit(j) == IF j \in DOMAIN bits THEN bits[j] ELSE 0
  IN  Digit(1) + 2 * Digit(2) + 4 * Digit(3) + 8 * Digit(4) + 16 * Digit(5)
        + 32 * Digit(6) + 64 * Digit(7)

PowerOfTwo(n) ==
  <<1, 2, 4, 8, 16, 32, 64, 128, 256, 512, 1024, 2048, 4096, 8192, 16384>>[n + 1]

(* The BOOST_PP_FORs of one arity go through the combinations of & and     *)
(* const& in the order of the numbers they spell, block after block, and   *)
(* through all of them: when the last is done, 2^arity overloads have been *)
(* declared, and no combination twice (binary_seq_for_each.hpp).           *)
EveryCombinationOnce ==
  pc = "for" =>
    IF block > Len(StartDigits(arity))
    THEN emitted = PowerOfTwo(arity)
    ELSE FOR_EACH_PRED(arity + 1, seq) =>
           LET k == FixedDigits(arity)
           IN  emitted = BitsValue(SubSeq(seq, 2, k + 1)) * PowerOfTwo(arity - k)
                         + BitsValue(SubSeq(seq, k + 2, Len(seq)))

(* The expansion of a declaration, or the construction of a pack, fails in *)
(* two cases only: BOOST_PARAMETER_FUN with lower bound 0 and threshold 0, *)
(* and an interface of more than 14 parameters that asks for exponentially *)
(* many overloads.  In particular BOOST_PP_FOR never exceeds its limit and *)
(* no argument is left over for empty_arg_list.                            *)
FailsOnlyAtItsLimits ==
  pc = "hard_error" =>
    /\ ~perfect
    /\ \/ interface.kind = "fun" /\ arity = 0 /\ threshold = 0
       \/ arity > MaxBinaryArity

(* Every arity between the bounds of the interface gets a declaration, and *)
(* no other.  parameters<> lacks the largest if the threshold is equal to  *)
(* BOOST_PARAMETER_MAX_ARITY.                                              *)
EveryArityDeclared ==
  pc = "declared" =>
    /\ covered.macro = range[1] .. (range[2] - 1)
    /\ covered.operator =
         IF ~perfect /\ threshold = maxArity THEN 0 .. (maxArity - 1)
                                             ELSE 0 .. maxArity

(* What the documentation of the threshold says, without the exception:    *)
(* below it parameters<> generates exponentially many overloads, from it   *)
(* on it does not, but some.                                               *)
EveryArityHasAnOperator ==
  pc = "declared" => covered.operator = 0 .. maxArity

(* Whatever the arguments, overload resolution finds one best forwarding   *)
(* function, and operator() accepts what that function passes on: the      *)
(* overloads of overloads.hpp take no rvalue, but a forwarding function    *)
(* never hands them one.                                                   *)
CallsAreForwarded ==
  pc = "not_callable" =>
    ~perfect /\ threshold = maxArity /\ Len(args) = maxArity

(* Without perfect forwarding the overloads of BOOST_PARAMETER_FUNCTION    *)
(* are told apart by const alone.  A mutable argument reaches the pack     *)
(* through mutable references, any other through const ones or a &         *)
(* deduced as const.                                                       *)
MutabilityReachesThePack ==
  interface.kind = "function" /\ pc \in {"call", "build", "bound"} =>
    \A w \in {"operator", "macro"} : \A p \in chosen[w] : \A j \in DOMAIN args :
      /\ args[j] = "mutable" => p[j] # "const&"
      /\ args[j] # "mutable" /\ w = "macro" /\ ~perfect => p[j] = "const&"

(* operator() passes its arguments in reverse and pads them with           *)
(* void_reference(), and each node keeps the first and shifts the others:  *)
(* the node at the head, which was made last, gets the last argument.      *)
ArgumentsReachTheirNodes ==
  pc = "bound" /\ ~perfect =>
    /\ Len(nodes) = Len(args)
    /\ \A m \in DOMAIN nodes : nodes[m] = Len(args) + 1 - m

(* How far the expansion and the call are from their end: the stages left, *)
(* the arities or nodes left in this one, the BOOST_PP_FORs left for this  *)
(* arity, and the iterations left for this BOOST_PP_FOR.                   *)
ExpansionLeft ==
  CASE pc = "repeat" /\ what = "operator" -> <<5, range[2] - arity, 130, 0>>
    [] pc = "repeat" /\ what = "macro" -> <<4, range[2] - arity, 130, 0>>
    [] pc = "for" -> <<IF what = "operator" THEN 5 ELSE 4, range[2] - arity,
                       Len(StartDigits(arity)) + 1 - block, PPForLimit - iterations>>
    [] pc = "declared" -> <<3, 0, 0, 0>>
    [] pc = "call" -> <<2, 0, 0, 0>>
    [] pc = "build" -> <<1, Len(args) - Len(nodes), 0, 0>>
    [] OTHER -> <<0, 0, 0, 0>>

(* The expansion of the tables comes to an end, whatever the interface:    *)
(* every iteration, block, arity and overload set is left for good, within *)
(* the limit of BOOST_PP_FOR; and so do the call and the building of its   *)
(* pack.                                                                   *)
ExpansionDescends == [][Descends(4, ExpansionLeft, ExpansionLeft')]_vars

RequiredQualifiers == {"required", "deduced_required"}

(* The generated dispatch functions and the generated overloads agree on   *)
(* the parameters: what arity_range.hpp counts as required is what         *)
(* split_args.hpp puts among the required, and neither loses, repeats or   *)
(* reorders a parameter of the user's list: each one is found behind those *)
(* of its kind that come before it.                                        *)
SplitAgreesWithRange ==
  what = "macro" /\ interface.kind = "function" =>
    LET RequiredUpTo(n) ==
          Cardinality({j \in 1 .. n : flat[j].qual \in RequiredQualifiers})
        OptionalUpTo(n) == n - RequiredUpTo(n)
        total == Len(flat)
        WrittenIn(group) == IF group.qual = "deduced"
                            THEN FlattenSeq([g \in DOMAIN group.groups |->
                                               group.groups[g].names])
                            ELSE group.names
        written == FlattenSeq([g \in DOMAIN interface.specs |->
                                 WrittenIn(interface.specs[g])])
    IN  /\ [j \in DOMAIN flat |-> flat[j].name] = written
        /\ <<Len(split.req), Len(split.opt)>> = <<RequiredUpTo(total), OptionalUpTo(total)>>
        /\ \A j \in 1 .. total :
             IF flat[j].qual \in RequiredQualifiers
             THEN split.req[RequiredUpTo(j)] = flat[j]
             ELSE split.opt[OptionalUpTo(j)] = flat[j]
        /\ <<split.reqCount, split.optCount>> = <<Len(split.req), Len(split.opt)>>
        /\ range = <<split.reqCount, split.reqCount + split.optCount + 1>>
=============================================================================
