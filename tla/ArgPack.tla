------------------------------ MODULE ArgPack ------------------------------
(***************************************************************************)
(* One argument pack, from the expressions a user writes to what a lookup  *)
(* args[...] returns.  The arguments are tagged (module Keyword), composed *)
(* into a pack along one of five routes,                                   *)
(*   alone       a single _k = x is itself a pack                          *)
(*   comma       (_a = x, _b = y, ...)                                     *)
(*   compose     compose(_a = x, _b = y, ...)                              *)
(*   parameters  parameters<...>()(x, _b = y, ...)                         *)
(*   function    the same behind match<>, as generated functions call it   *)
(* and read through keyword, default or lazy default until the full        *)
(* expression ends.  A maybe<> argument is an optional value that a lookup *)
(* fills in with its default.                                              *)
(***************************************************************************)
EXTENDS Keyword, Sequences, FiniteSets

CONSTANTS
  Keys,            \* keywords
  Routes,          \* routes taken
  QualifiersOf,    \* QualifiersOf[k]: the qualifiers to try for k
  ExpressionsFor,  \* ExpressionsFor[k]: the arguments to try for k
  ExpressionsAgain,\* bound: arguments to try for a keyword already used
  Defaults,        \* expressions to look up with
  MaxArgs,         \* bound: arguments of one call
  MaxLookups       \* bound: lookups in one full expression

ASSUME ExpressionsAssumption ==
  /\ ExpressionsAgain \subseteq Expression
  /\ \A k \in Keys : ExpressionsFor[k] \subseteq Expression

(* The library itself never makes a maybe<> a default.                     *)
ASSUME DefaultsAssumption == Defaults \subseteq {e \in Expression : e.type # "maybe"}

ASSUME BoundsAssumption == MaxArgs \in Nat /\ MaxLookups \in Nat

VARIABLES
  perfect,    \* built with perfect forwarding?
  route,
  qualifier,  \* of each keyword
  pc,         \* spell | join | match | lookup | end | rejected | hard_error
  args,       \* the arguments in call order: [key, expr, full, named, tag],
              \* full being whether a maybe<> holds a value
  pack,       \* the nodes, head first: indexes into args
  constructed,\* the flag of each argument that is a maybe<>
  built,      \* defaults constructed in the storage of each argument
  destroyed,  \* and destroyed there
  lookups,    \* lookups made
  last        \* the last one

callVars == <<perfect, route, qualifier>>
storageVars == <<constructed, built, destroyed>>
vars == <<callVars, pc, args, pack, storageVars, lookups, last>>

(* given is the default, if it is needed, and in what a maybe<> refers to. *)
Found(k, how, from, reference) ==
  [how |-> how, key |-> k, from |-> from, ref |-> reference,
   given |-> None, in |-> "none"]

NoLookup == Found("none", "none", 0, None)

Init ==
  /\ perfect \in BOOLEAN
  /\ route \in Routes
  /\ qualifier \in {q \in [Keys -> Qualifiers] : \A k \in Keys : q[k] \in QualifiersOf[k]}
  /\ pc = "spell"
  /\ args = << >>
  /\ pack = << >>
  /\ constructed = {}
  /\ built = [j \in 1 .. MaxArgs |-> 0]
  /\ destroyed = [j \in 1 .. MaxArgs |-> 0]
  /\ lookups = 0
  /\ last = NoLookup

-----------------------------------------------------------------------------
(* Arguments.                                                              *)

Argument(k, e, full, named, t) ==
  [key |-> k, expr |-> e, full |-> full, named |-> named, tag |-> t]

Expressions(k) ==
  IF k \in {args[j].key : j \in DOMAIN args} THEN ExpressionsAgain ELSE ExpressionsFor[k]

Spell(k, e, named, t) ==
  /\ pc = "spell"
  /\ Len(args) < MaxArgs
  /\ route = "alone" => args = << >>
  /\ \E full \in (IF e.type = "maybe" THEN BOOLEAN ELSE {FALSE}) :
       args' = Append(args, Argument(k, e, full, named, t))
  /\ pc' = IF t = None THEN "rejected"
           ELSE IF IllFormed(perfect, qualifier[k], t) THEN "hard_error"
           ELSE pc
  /\ UNCHANGED <<callVars, pack, storageVars, lookups, last>>

SpellNamed ==
  \E k \in Keys : \E e \in Expressions(k) :
    Spell(k, e, TRUE, Named(perfect, qualifier[k], e))

(* Positional arguments come first, and each has a parameter of its own.   *)
SpellPositional ==
  /\ route \in {"parameters", "function"}
  /\ \A j \in DOMAIN args : ~args[j].named
  /\ \E k \in Keys \ {args[j].key : j \in DOMAIN args} :
       \E e \in ExpressionsFor[k] :
         Spell(k, e, FALSE, Positional(perfect, e))

-----------------------------------------------------------------------------
(* Composition.  A node that repeats the key of one below it is an error.  *)

(* Fault: only the node right below is looked at.                          *)
NextHasAnotherKey(nodes) ==
  \A m \in DOMAIN nodes :
    m + 1 \in DOMAIN nodes => args[nodes[m]].key # args[nodes[m + 1]].key

HasUniqueKeys(nodes) ==
  \A m, n \in DOMAIN nodes : m # n => args[nodes[m]].key # args[nodes[n]].key

Compose(nodes, next) ==
  /\ pack' = nodes
  /\ pc' = IF HasUniqueKeys(nodes) THEN next ELSE "hard_error"
  /\ UNCHANGED <<callVars, args, storageVars, lookups, last>>

UseAlone ==
  /\ pc = "spell"
  /\ route = "alone"
  /\ Len(args) = 1
  /\ Compose(<<1>>, "lookup")

(* A comma puts a node ahead of a list; after the last one the list is read.*)
Comma(head, tail) ==
  Compose(<<head>> \o tail, IF Len(tail) + 1 < Len(args) THEN "join" ELSE "lookup")

(* tagged_argument::operator,: two tagged arguments, the left one ahead.   *)
JoinTagged ==
  /\ pc = "spell"
  /\ route = "comma"
  /\ Len(args) >= 2
  /\ Comma(1, <<2>>)

(* operator, of the list: the new argument goes ahead of all.              *)
JoinNext == pc = "join" /\ Comma(Len(pack) + 1, pack)

(* compose(): the types in call order, and so the nodes.                   *)
CallCompose ==
  /\ pc = "spell"
  /\ route = "compose"
  /\ Compose([j \in DOMAIN args |-> j], "lookup")

(* parameters<>::operator(): make_arg_list prepends argument by argument.  *)
CallParameters ==
  /\ pc = "spell"
  /\ route = "parameters"
  /\ Compose([j \in DOMAIN args |-> Len(args) + 1 - j], "lookup")

(* A generated function first has match<> build it, without assertions.    *)
CallFunction ==
  /\ pc = "spell"
  /\ route = "function"
  /\ pack' = [j \in DOMAIN args |-> Len(args) + 1 - j]
  /\ pc' = "match"
  /\ UNCHANGED <<callVars, args, storageVars, lookups, last>>

-----------------------------------------------------------------------------
HoldsMaybe(t) == t.type = "maybe"

(* The node's reference: a maybe<> stands for the value in it.             *)
Reference(t) ==
  IF HoldsMaybe(t) THEN [rvalue |-> FALSE, const |-> TRUE, type |-> "scalar"]
                   ELSE get_value(t)

(* A lone tagged argument is no node: its reference is what it holds.      *)
ReferenceOf(t) == IF route = "alone" THEN get_value(t) ELSE Reference(t)

(* augment_predicate asks for the qualifier what the node's value_type and *)
(* reference are.  For a maybe<> both are a reference, to which neither    *)
(* is_scalar nor is_const applies.                                         *)
check_consume_ref(q, t) ==
  (t.type = "scalar" /\ ~HoldsMaybe(t)) \/ q # "consume" \/ Reference(t).rvalue

(* Fault: const objects may be written to.                                 *)
check_out_ref_ignoring_const(q, t) == q = "out" => ~Reference(t).rvalue

check_out_ref(q, t) ==
  q = "out" => ~Reference(t).rvalue /\ (HoldsMaybe(t) \/ ~Reference(t).const)

augment_predicate(k, t) ==
  check_consume_ref(qualifier[k], t) /\ check_out_ref(qualifier[k], t)

(* match<>, the user's predicates being true.  Which of the two becomes of *)
(* a repeated key is the subject of module Parameters.                     *)
Match ==
  /\ pc = "match"
  /\ pc' \in IF ~HasUniqueKeys(pack) THEN {"rejected", "hard_error"}
             ELSE IF \A m \in DOMAIN pack :
                        augment_predicate(args[pack[m]].key, args[pack[m]].tag)
             THEN {"lookup"} ELSE {"rejected"}
  /\ UNCHANGED <<callVars, args, pack, storageVars, lookups, last>>

-----------------------------------------------------------------------------
(* Lookups.  The operator[]s of the nodes are one overload set, and of     *)
(* those that accept the keyword the one made for it wins.                 *)
Owners(k) == {m \in DOMAIN pack : args[pack[m]].key = k}

Owner(k) == pack[CHOOSE m \in Owners(k) : TRUE]

Lookup(result) ==
  /\ lookups' = lookups + 1
  /\ last' = result
  /\ UNCHANGED <<callVars, pc, args, pack>>

(* What no operator accepts, or an assertion refuses.                      *)
Fail(outcome, attempt) ==
  /\ pc' = outcome
  /\ last' = attempt
  /\ UNCHANGED <<callVars, args, pack, storageVars, lookups>>

CanLookUp == pc = "lookup" /\ lookups < MaxLookups

(* A node asserts that it holds no maybe<>, unless it is given a default.  *)
IsMaybeNode(k) == HoldsMaybe(args[Owner(k)].tag) /\ route # "alone"

(* args[_k]: nobody accepts a key that is missing.                         *)
LookupKeyword(k) ==
  /\ CanLookUp
  /\ IF Owners(k) = {} THEN Fail("rejected", Found(k, "keyword", 0, None))
     ELSE IF IsMaybeNode(k) THEN Fail("hard_error", Found(k, "keyword", 0, None))
     ELSE /\ Lookup(Found(k, "keyword", Owner(k), ReferenceOf(args[Owner(k)].tag)))
          /\ UNCHANGED storageVars

(* Fault: construct2 builds a value but does not record that it did.       *)
ConstructUnrecorded(j) ==
  /\ built' = [built EXCEPT ![j] = @ + 1]
  /\ UNCHANGED <<constructed, destroyed>>

(* maybe<>::construct2: a new value over whatever is in the storage.       *)
Construct2(j) ==
  /\ built' = [built EXCEPT ![j] = @ + 1]
  /\ constructed' = constructed \cup {j}
  /\ UNCHANGED destroyed

(* args[_k | d] where the node holds a maybe<>: its value if it has one.   *)
(* Else the default, itself if it has the type, or a converted copy.       *)
LookupMaybe(k, e, d) ==
  LET j == Owner(k)
      found == Found(k, "default", j, Reference(args[j].tag))
  IN  IF args[j].full
      THEN Lookup([found EXCEPT !.in = "value"]) /\ UNCHANGED storageVars
      ELSE IF d.type = "scalar"
      THEN Lookup([found EXCEPT !.in = "default", !.given = e]) /\ UNCHANGED storageVars
      ELSE Lookup([found EXCEPT !.in = "storage", !.given = e]) /\ Construct2(j)

(* args[_k | d].                                                           *)
LookupDefault(k, e) ==
  LET d == OrDefault(perfect, qualifier[k], e)
      unspelled == [Found(k, "default", 0, d) EXCEPT !.given = e]
  IN  /\ CanLookUp
      /\ IF d = None THEN Fail("rejected", unspelled)
         ELSE IF Owners(k) = {} THEN Lookup(unspelled) /\ UNCHANGED storageVars
         ELSE IF IsMaybeNode(k) THEN LookupMaybe(k, e, d)
         ELSE /\ Lookup(Found(k, "default", Owner(k), ReferenceOf(args[Owner(k)].tag)))
              /\ UNCHANGED storageVars

(* Fault: the operator[] of empty_arg_list answers, the using declaration  *)
(* that brings in those of the nodes being left out.                       *)
LookupLazyAtTheEnd(k) ==
  /\ CanLookUp
  /\ Lookup(Found(k, "lazy", 0, [rvalue |-> TRUE, const |-> FALSE, type |-> "class"]))
  /\ UNCHANGED storageVars

(* args[_k || f]: f is called only if the key is missing.                  *)
LookupLazy(k) ==
  /\ CanLookUp
  /\ IF Owners(k) = {}
     THEN /\ Lookup(Found(k, "lazy", 0, [rvalue |-> TRUE, const |-> FALSE, type |-> "class"]))
          /\ UNCHANGED storageVars
     ELSE IF IsMaybeNode(k) THEN Fail("hard_error", Found(k, "lazy", 0, None))
     ELSE /\ Lookup(Found(k, "lazy", Owner(k), ReferenceOf(args[Owner(k)].tag)))
          /\ UNCHANGED storageVars

-----------------------------------------------------------------------------
(* The pack as a type.  binding and value_type walk the nodes from the     *)
(* head; 0 stands for the end, where they return their default.            *)

(* Fault: the walk leaves a node out.                                      *)
NodeOfSkipping(k) ==
  LET walk[m \in 1 .. Len(pack) + 2] ==
        IF m > Len(pack) THEN 0
        ELSE IF args[pack[m]].key = k THEN m ELSE walk[m + 2]
  IN  walk[1]

NodeOf(k) ==
  LET walk[m \in 1 .. Len(pack) + 1] ==
        IF m > Len(pack) THEN 0
        ELSE IF args[pack[m]].key = k THEN m ELSE walk[m + 1]
  IN  walk[1]

binding(k, default) ==
  IF NodeOf(k) = 0 THEN default ELSE ReferenceOf(args[pack[NodeOf(k)]].tag)

(* The type referred to; of a maybe<> that is a node, the value's.         *)
value_type(k, default) ==
  IF NodeOf(k) = 0 THEN default
  ELSE [type |-> ReferenceOf(args[pack[NodeOf(k)]].tag).type]

(* The intrinsics of the MPL: all ask value_type, with void as the default.*)
has_key(k) == value_type(k, None) # None

count(k) == IF has_key(k) THEN 1 ELSE 0

(* The distance from the node the iterators find to the end.               *)
order(k) == Len(pack) + 1 - NodeOf(k)

-----------------------------------------------------------------------------
(* Fault: ~maybe destroys as often as something was constructed.           *)
EndExpressionTwice ==
  /\ pc = "lookup"
  /\ pc' = "end"
  /\ destroyed' = built
  /\ UNCHANGED <<callVars, args, pack, constructed, built, lookups, last>>

(* The full expression ends: ~maybe destroys what was constructed, once.   *)
EndExpression ==
  /\ pc = "lookup"
  /\ pc' = "end"
  /\ destroyed' = [j \in 1 .. MaxArgs |-> IF j \in constructed THEN 1 ELSE 0]
  /\ UNCHANGED <<callVars, args, pack, constructed, built, lookups, last>>

Next ==
  \/ SpellNamed
  \/ SpellPositional
  \/ UseAlone
  \/ JoinTagged
  \/ JoinNext
  \/ CallCompose
  \/ CallParameters
  \/ CallFunction
  \/ Match
  \/ \E k \in Keys : LookupKeyword(k)
  \/ \E k \in Keys, e \in Defaults : LookupDefault(k, e)
  \/ \E k \in Keys : LookupLazy(k)
  \/ EndExpression

Spec == Init /\ [][Next]_vars

-----------------------------------------------------------------------------
(* Every variable has its type: a node is an argument, a keyword one of    *)
(* those declared, and what a failed call leaves is still a call.          *)
TypeOK ==
  /\ perfect \in BOOLEAN
  /\ route \in Routes
  /\ qualifier \in [Keys -> Qualifiers]
  /\ pc \in {"spell", "join", "match", "lookup", "end", "rejected", "hard_error"}
  /\ Len(args) <= MaxArgs
  /\ \A j \in DOMAIN args :
       /\ args[j].key \in Keys
       /\ args[j].named \in BOOLEAN
       /\ args[j].tag = None => pc = "rejected" /\ j = Len(args)
       /\ args[j].tag # None => args[j].tag.type = args[j].expr.type
  /\ \A m \in DOMAIN pack : pack[m] \in DOMAIN args
  /\ constructed \subseteq DOMAIN args
  /\ built \in [1 .. MaxArgs -> 0 .. MaxLookups]
  /\ destroyed \in [1 .. MaxArgs -> 0 .. 1]
  /\ lookups \in 0 .. MaxLookups

LookedUp == pc \in {"lookup", "end"} /\ lookups > 0

Spelled(k) == {j \in DOMAIN args : args[j].key = k}

(* Whichever way the arguments were composed, a lookup returns the one     *)
(* argument given for the keyword, as it was tagged, and never the         *)
(* default; the default if and only if there is no argument.  Only a       *)
(* maybe<> that is a node stands for something else: the value in it, or,  *)
(* if it is empty, the default or a copy.                                  *)
LookupFindsItsArgument ==
  LookedUp =>
    /\ IF last.from = 0 THEN Spelled(last.key) = {} /\ last.how # "keyword"
       ELSE Spelled(last.key) = {last.from}
    /\ last.from # 0 =>
         LET a == args[last.from]
         IN  IF a.expr.type = "maybe" /\ route # "alone"
             THEN last.how = "default" /\ (last.in = "value" <=> a.full)
             ELSE last.in = "none" /\ last.ref = get_value(a.tag)

(* The pack as a map of keywords: the nodes, the tags and the route are    *)
(* left out, and of a maybe<> all but whether it stands for its default.   *)
Phase ==
  CASE pc \in {"spell", "join", "match"} -> "giving"
    [] pc = "lookup" -> "reading"
    [] pc = "end" -> "over"
    [] OTHER -> "refused"

StandsForDefault(j) == args[j].expr.type = "maybe" /\ ~args[j].full /\ route # "alone"

Answer ==
  IF LookedUp
  THEN [key |-> last.key, way |-> last.how,
        arg |-> IF last.in \in {"default", "storage"} THEN 0 ELSE last.from]
  ELSE [key |-> "none", way |-> "none", arg |-> 0]

KM == INSTANCE KeywordMap WITH
        phase  <- Phase,
        total  <- Len(args),
        given  <- [k \in Keys |-> {[arg |-> j, empty |-> StandsForDefault(j)] : j \in Spelled(k)}],
        answer <- Answer

(* Along all five routes a pack is read as a map from keywords to the      *)
(* arguments of the call: read only if no keyword was given twice, with    *)
(* the argument as the answer where there is one, and unchanged by lookups.*)
ImplementsKeywordMap == KM!Spec

-----------------------------------------------------------------------------
(* The category of an argument, seen by the user: what it refers to.       *)
Writable(e) == IF e.wrapper = "no" THEN ~e.const ELSE e.wrapper = "ref"

Movable(e) == e.rvalue /\ e.wrapper = "no"

(* Where the qualifiers are enforced: by the tagged argument's class, which*)
(* the build without perfect forwarding leaves unchecked, or by match<>.   *)
Enforced == perfect \/ route = "function"

(* Between the call and the lookup an argument never becomes more than it  *)
(* was: const objects stay const, lvalues are never handed out to be moved *)
(* from.  Where qualifiers are enforced an out parameter is something to   *)
(* write to and a consume parameter something to move from or a scalar;    *)
(* but for a maybe<>, which is read through a reference to const.          *)
CategoryKept ==
  LookedUp /\ last.from # 0 =>
    LET e == args[last.from].expr
        q == qualifier[last.key]
    IN  /\ ~last.ref.const => Writable(e)
        /\ last.ref.rvalue => Movable(e)
        /\ Enforced /\ e.type # "maybe" =>
             /\ q = "out" => ~last.ref.const /\ ~last.ref.rvalue
             /\ q = "consume" => last.ref.rvalue \/ e.type = "scalar"
        /\ q = "forward" /\ perfect /\ e.type # "maybe" =>
             /\ last.ref.rvalue <=> Movable(e) /\ e.type # "scalar"
             /\ last.ref.const <=> ~Writable(e) \/ (Movable(e) /\ e.type = "scalar")

(* Naming an argument or placing it makes no difference to a parameter but *)
(* these: a named in parameter becomes const, a placed one does not; only  *)
(* a placed out parameter may be any reference_wrapper of a mutable object;*)
(* and without perfect forwarding a placed consume scalar may be mutable   *)
(* or wrapped, and a placed maybe<> is accepted where a named one is not.  *)
NameAndPositionAgree ==
  pc \in {"lookup", "end"} /\ Enforced =>
    \A j \in DOMAIN args :
      LET a == args[j]
          e == a.expr
          q == qualifier[a.key]
          named == Named(perfect, q, e)
      IN  \/ named = a.tag
          \/ q = "in" /\ e.wrapper = "no" /\ named = [a.tag EXCEPT !.const = TRUE]
          \/ q = "out" /\ e.wrapper = "ref" /\ named = None
          \/ /\ ~perfect
             /\ \/ /\ q = "consume" /\ e.type = "scalar"
                   /\ named \in {None, [a.tag EXCEPT !.const = TRUE]}
                \/ q = "out" /\ e.type = "maybe" /\ named = None

(* A default that is needed is to the lookup what the same expression would*)
(* have been as a named argument: no const object becomes writable, no     *)
(* lvalue movable.  A reference_wrapper is handed out as it is, and where  *)
(* the argument would not have been accepted, a default is one of two      *)
(* exceptions: a class lvalue to be consumed, a scalar to write to.        *)
DefaultActsLikeAnArgument ==
  LookedUp /\ last.given # None =>
    LET e == last.given
        q == qualifier[last.key]
        named == Named(perfect, q, e)
        accepted == named # None /\ ~IllFormed(perfect, q, named)
    IN  /\ ~last.ref.const => ~e.const
        /\ last.ref.rvalue => e.rvalue
        /\ last.from = 0 /\ e.wrapper = "no" =>
             IF accepted THEN last.ref = get_value(named)
             ELSE /\ perfect
                  /\ \/ q = "consume" /\ e.type = "class" /\ ~e.rvalue
                     \/ q = "out" /\ e.type = "scalar" /\ (e.const \/ e.rvalue)

(* What a qualifier may refuse: for out all but a mutable lvalue, for      *)
(* consume all but scalars and, with perfect forwarding, rvalues.          *)
Refusable(q, e) ==
  \/ q = "out" /\ (e.const \/ e.rvalue \/ e.wrapper = "cref")
  \/ /\ q = "consume" /\ ~IsScalar(e)
     /\ ~perfect \/ ~Movable(e) \/ (e.type = "maybe" /\ route = "function")

(* An expression is refused for a reason only: an argument or a default    *)
(* its qualifier may refuse, a keyword used twice, a missing argument, or  *)
(* a maybe<> looked up without a default.  So an in or a forward parameter *)
(* accepts everything, on every route.                                     *)
RefusedForAReason ==
  pc \in {"rejected", "hard_error"} =>
    \/ \E j \in DOMAIN args : Refusable(qualifier[args[j].key], args[j].expr)
    \/ \E j, l \in DOMAIN args : j # l /\ args[j].key = args[l].key
    \/ pc = "rejected" /\ last.how = "keyword" /\ Spelled(last.key) = {}
    \/ pc = "rejected" /\ last.how = "default" /\ Refusable(qualifier[last.key], last.given)
    \/ /\ pc = "hard_error" /\ last.how \in {"keyword", "lazy"} /\ route # "alone"
       /\ \E j \in Spelled(last.key) : args[j].expr.type = "maybe"

(* The pack as a type tells what the pack does: has_key and count say what *)
(* was given, order tells the keywords given apart, and binding is the     *)
(* reference that the lookup returned.                                     *)
StaticViewAgrees ==
  pc \in {"lookup", "end"} =>
    /\ \A k \in Keys : has_key(k) = (Spelled(k) # {}) /\ count(k) = Cardinality(Spelled(k))
    /\ {order(args[j].key) : j \in DOMAIN args} = DOMAIN args
    /\ lookups > 0 => binding(last.key, IF last.from = 0 THEN last.ref ELSE None) = last.ref

(* When the full expression ends, every maybe<> in whose storage a default *)
(* was constructed has destroyed it, once, and no other has; one that held *)
(* a value never constructed any.  (If two lookups constructed a default,  *)
(* the second did so over the first, which is then never destroyed.)       *)
MaybeDefaultsAreDestroyed ==
  pc = "end" =>
    \A j \in 1 .. MaxArgs :
      /\ destroyed[j] = (IF built[j] > 0 THEN 1 ELSE 0)
      /\ built[j] > 0 => args[j].expr.type = "maybe" /\ ~args[j].full

(* In parameters are passed by reference to const.                         *)
InParametersAreConst ==
  /\ LookedUp /\ last.from # 0
  /\ qualifier[last.key] = "in" /\ args[last.from].expr.wrapper = "no"
  => last.ref.const
=============================================================================
