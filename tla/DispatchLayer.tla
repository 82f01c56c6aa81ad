--------------------------- MODULE DispatchLayer ----------------------------
(***************************************************************************)
(* BOOST_PARAMETER_FUNCTION_DISPATCH_LAYER: how a generated function gets  *)
(* from an argument pack to its body.  The front end extracts the required *)
(* arguments; then for every optional parameter, n of them being done, one *)
(* of two chains of calls adds the next:                                   *)
(*                                                                         *)
(*   dispatch_0(args, ...)                  found:  dispatch_0 of n + 1    *)
(*                                          else:   dispatch_0_default     *)
(*   dispatch_0(args, ..., use_default_tag) binds the default into a copy  *)
(*                                          of args:  dispatch_1           *)
(*   dispatch_1(args, ...)                  extracts it:  dispatch_0 of    *)
(*                                          n + 1                          *)
(*                                                                         *)
(* The last dispatch_0 is the body.  The calls nest; parameters and packs  *)
(* hold references, to objects of the caller, to defaults and to converted *)
(* arguments, which die with the call whose full expression made them.     *)
(***************************************************************************)
EXTENDS Integers, Sequences, Progress

CONSTANTS
  Keys,        \* keyword tags
  Signatures,  \* [req, opt]: the tags of the parameters, as split_args has them
  CallerPacks, \* the packs parameters<>::operator() hands over, head first
  PerfectForwarding  \* BOOST_PARAMETER_HAS_PERFECT_FORWARDING is defined

(* An argument of the caller; ofTarget: it has the type its parameter's    *)
(* restriction asks for, which it always has if that names no target type. *)
CallerArgument == [key: Keys, ofTarget: BOOLEAN]

ASSUME SignaturesAssumption ==
  /\ Signatures \subseteq [req: Seq(Keys), opt: Seq(Keys)]
  /\ \A s \in Signatures :
       /\ \A p, q \in DOMAIN s.req : s.req[p] = s.req[q] => p = q
       /\ \A p, q \in DOMAIN s.opt : s.opt[p] = s.opt[q] => p = q
       /\ \A p \in DOMAIN s.req, q \in DOMAIN s.opt : s.req[p] # s.opt[q]

(* The "duplicate keyword" assertion of arg_list has seen to the second.   *)
ASSUME CallerPacksAssumption ==
  /\ CallerPacks \subseteq Seq(CallerArgument)
  /\ \A c \in CallerPacks :
       \A m, n \in DOMAIN c : c[m].key = c[n].key => m = n

ASSUME BuildAssumption == PerfectForwarding \in BOOLEAN

(* A reference to an argument: the object belongs to call number owner of  *)
(* the stack, or to the caller (0).                                        *)
Argument ==
  [key: Keys, origin: {"caller", "default"}, ofTarget: BOOLEAN, owner: Nat]

FunctionNames == {"impl", "dispatch_0", "dispatch_0_default", "dispatch_1"}

(* A call in progress: its pack, and its named parameters, the required    *)
(* ones and the first n optional ones.                                     *)
Frame == [fn: FunctionNames, n: Nat, args: Seq(Argument), params: Seq(Argument)]

VARIABLES
  sig,
  callerPack,
  stack,      \* the calls in progress, outermost first
  evaluated,  \* the defaults evaluated so far, and what was in scope by name
  received,   \* the parameters of the body
  outcome     \* running | called | threw: no longer running, it unwinds

vars == <<sig, callerPack, stack, evaluated, received, outcome>>

Top == stack[Len(stack)]

Call(frame) == stack' = Append(stack, frame)

Bound(args, key) == \E m \in DOMAIN args : args[m].key = key

(* args[keyword]                                                           *)
Lookup(args, key) == args[CHOOSE m \in DOMAIN args : args[m].key = key]

Parameter(p) == (sig.req \o sig.opt)[p]

-----------------------------------------------------------------------------
(* An argument of another type than the target type is converted: into a   *)
(* temporary of call number owner.                                         *)
Converted(argument, owner) ==
  IF argument.ofTarget
  THEN argument
  ELSE [argument EXCEPT !.ofTarget = TRUE, !.owner = owner]

(* aux::forward returns the temporary by value; without perfect forwarding *)
(* a plain type cast does, for a required parameter.  Either way it lives  *)
(* as long as the call that passes it on.                                  *)
Cast(argument) == Converted(argument, Len(stack))

(* Without perfect forwarding an optional argument goes through            *)
(* cast_convert::evaluate, which returns a reference to a temporary of its *)
(* own: one call further in than the call that passes it on, and over.     *)
OptCast(argument) ==
  Converted(argument, IF PerfectForwarding THEN Len(stack) ELSE Len(stack) + 1)

(* The front end extracts and casts the required arguments.                *)
FrontEnd ==
  /\ outcome = "running"
  /\ Top.fn = "impl"
  /\ Call([fn     |-> "dispatch_0",
           n      |-> 0,
           args   |-> Top.args,
           params |-> [p \in DOMAIN sig.req |-> Cast(Lookup(Top.args, sig.req[p]))]])
  /\ UNCHANGED <<sig, callerPack, evaluated, received, outcome>>

InDispatch(fn) ==
  /\ outcome = "running"
  /\ Top.fn = fn
  /\ Top.n < Len(sig.opt)

NextKey == sig.opt[Top.n + 1]

(* args[keyword || use_default_tag()] finds an argument.                   *)
IsGiven == Bound(Top.args, NextKey)

(* Fault: the next dispatch_0 is called as if two parameters were done.    *)
ForwardGivenSkipping ==
  /\ InDispatch("dispatch_0")
  /\ IsGiven
  /\ Call([fn     |-> "dispatch_0",
           n      |-> Top.n + 2,
           args   |-> Top.args,
           params |-> Append(Top.params, OptCast(Lookup(Top.args, NextKey)))])
  /\ UNCHANGED <<sig, callerPack, evaluated, received, outcome>>

(* It did: extract and cast it.                                            *)
ForwardGiven ==
  /\ InDispatch("dispatch_0")
  /\ IsGiven
  /\ Call([fn     |-> "dispatch_0",
           n      |-> Top.n + 1,
           args   |-> Top.args,
           params |-> Append(Top.params, OptCast(Lookup(Top.args, NextKey)))])
  /\ UNCHANGED <<sig, callerPack, evaluated, received, outcome>>

(* Fault: the default is bound whether or not there is an argument.        *)
ForwardAsIfMissing ==
  /\ InDispatch("dispatch_0")
  /\ Call([Top EXCEPT !.fn = "dispatch_0_default"])
  /\ UNCHANGED <<sig, callerPack, evaluated, received, outcome>>

(* It returned use_default_tag.                                            *)
ForwardMissing ==
  /\ InDispatch("dispatch_0")
  /\ ~IsGiven
  /\ Call([Top EXCEPT !.fn = "dispatch_0_default"])
  /\ UNCHANGED <<sig, callerPack, evaluated, received, outcome>>

(* The default, of whatever type, is a temporary of this call.             *)
DefaultArgument(ofTarget) ==
  [key |-> NextKey, origin |-> "default", ofTarget |-> ofTarget, owner |-> Len(stack)]

Evaluation == Append(evaluated, [key |-> NextKey, scope |-> Top.params])

(* Fault: the default is bound in a call of its own, which is over before  *)
(* dispatch_1 is called.                                                   *)
BindDefaultAndReturn ==
  /\ InDispatch("dispatch_0_default")
  /\ \E ofTarget \in BOOLEAN :
       stack' = [stack EXCEPT ![Len(stack)] =
                   [Top EXCEPT !.fn = "dispatch_1",
                               !.args = <<DefaultArgument(ofTarget)>> \o @]]
  /\ evaluated' = Evaluation
  /\ UNCHANGED <<sig, callerPack, received, outcome>>

(* Fault: the default of the previous optional parameter.                  *)
BindPreviousDefault ==
  /\ InDispatch("dispatch_0_default")
  /\ \E ofTarget \in BOOLEAN :
       Call([Top EXCEPT !.fn = "dispatch_1",
                        !.args = <<DefaultArgument(ofTarget)>> \o @])
  /\ evaluated' = Append(evaluated,
                         [key   |-> sig.opt[IF Top.n = 0 THEN 1 ELSE Top.n],
                          scope |-> Top.params])
  /\ UNCHANGED <<sig, callerPack, received, outcome>>

(* (args, keyword = default)                                               *)
BindDefault ==
  /\ InDispatch("dispatch_0_default")
  /\ \E ofTarget \in BOOLEAN :
       Call([Top EXCEPT !.fn = "dispatch_1",
                        !.args = <<DefaultArgument(ofTarget)>> \o @])
  /\ evaluated' = Evaluation
  /\ UNCHANGED <<sig, callerPack, received, outcome>>

(* The default expression throws.                                          *)
DefaultThrows ==
  /\ InDispatch("dispatch_0_default")
  /\ evaluated' = Evaluation
  /\ outcome' = "threw"
  /\ UNCHANGED <<sig, callerPack, stack, received>>

(* A conversion to a target type throws.                                   *)
ConversionThrows ==
  /\ outcome = "running"
  /\ \/ /\ Top.fn = "impl"
        /\ \E p \in DOMAIN sig.req : ~Lookup(Top.args, sig.req[p]).ofTarget
     \/ /\ InDispatch("dispatch_0")
        /\ IsGiven
        /\ ~Lookup(Top.args, NextKey).ofTarget
  /\ outcome' = "threw"
  /\ UNCHANGED <<sig, callerPack, stack, evaluated, received>>

(* Fault: dispatch_1 extracts every parameter afresh.                      *)
FetchAllAgain ==
  /\ InDispatch("dispatch_1")
  /\ Call([fn     |-> "dispatch_0",
           n      |-> Top.n + 1,
           args   |-> Top.args,
           params |-> [p \in 1..(Len(Top.params) + 1) |->
                         Lookup(Top.args, Parameter(p))]])
  /\ UNCHANGED <<sig, callerPack, evaluated, received, outcome>>

(* Fault: dispatch_1 hands on the pack without the default.                *)
FetchDefaultDroppingIt ==
  /\ InDispatch("dispatch_1")
  /\ Call([fn     |-> "dispatch_0",
           n      |-> Top.n + 1,
           args   |-> Tail(Top.args),
           params |-> Append(Top.params, Lookup(Top.args, NextKey))])
  /\ UNCHANGED <<sig, callerPack, evaluated, received, outcome>>

(* Fault: only a default of the target type is accepted.                   *)
FetchDefaultOfTargetType ==
  /\ InDispatch("dispatch_1")
  /\ Lookup(Top.args, NextKey).ofTarget
  /\ Call([fn     |-> "dispatch_0",
           n      |-> Top.n + 1,
           args   |-> Top.args,
           params |-> Append(Top.params, Lookup(Top.args, NextKey))])
  /\ UNCHANGED <<sig, callerPack, evaluated, received, outcome>>

(* args[keyword], as it is: no cast here.                                  *)
FetchDefault ==
  /\ InDispatch("dispatch_1")
  /\ Call([fn     |-> "dispatch_0",
           n      |-> Top.n + 1,
           args   |-> Top.args,
           params |-> Append(Top.params, Lookup(Top.args, NextKey))])
  /\ UNCHANGED <<sig, callerPack, evaluated, received, outcome>>

(* The last dispatch_0 is the body the user supplies; it returns or throws *)
(* in its own time.                                                        *)
RunBody ==
  /\ outcome = "running"
  /\ Top.fn = "dispatch_0"
  /\ Top.n = Len(sig.opt)
  /\ received' = Top.params
  /\ outcome' = "called"
  /\ UNCHANGED <<sig, callerPack, stack, evaluated>>

(* The innermost call ends, and its temporaries with it.                   *)
Return ==
  /\ outcome # "running"
  /\ stack # <<>>
  /\ stack' = SubSeq(stack, 1, Len(stack) - 1)
  /\ UNCHANGED <<sig, callerPack, evaluated, received, outcome>>

-----------------------------------------------------------------------------
FromCaller(argument) ==
  [key |-> argument.key, origin |-> "caller", ofTarget |-> argument.ofTarget, owner |-> 0]

(* match<> has made sure that every required parameter is bound.           *)
Init ==
  /\ sig \in Signatures
  /\ callerPack \in CallerPacks
  /\ \A p \in DOMAIN sig.req : Bound(callerPack, sig.req[p])
  /\ stack = <<[fn     |-> "impl",
                n      |-> 0,
                args   |-> [m \in DOMAIN callerPack |-> FromCaller(callerPack[m])],
                params |-> <<>>]>>
  /\ evaluated = <<>>
  /\ received = <<>>
  /\ outcome = "running"

Next ==
  \/ FrontEnd
  \/ ForwardGiven
  \/ ForwardMissing
  \/ BindDefault
  \/ DefaultThrows
  \/ ConversionThrows
  \/ FetchDefault
  \/ RunBody
  \/ Return

Spec == Init /\ [][Next]_vars

FairSpec == Spec /\ WF_vars(Next)

-----------------------------------------------------------------------------
(***************************************************************************)
(* Properties.                                                             *)
(***************************************************************************)

(* Type correctness; a dispatch function has exactly the parameters its    *)
(* place in the chain says.                                                *)
TypeOK ==
  /\ sig \in Signatures
  /\ callerPack \in CallerPacks
  /\ stack \in Seq(Frame)
  /\ \A j \in DOMAIN stack :
       stack[j].fn # "impl" =>
         /\ stack[j].n \in 0..Len(sig.opt)
         /\ Len(stack[j].params) = Len(sig.req) + stack[j].n
  /\ evaluated \in Seq([key: Keys, scope: Seq(Argument)])
  /\ received \in Seq(Argument)
  /\ outcome \in {"running", "called", "threw"}
  /\ outcome = "running" => stack # <<>>

(* No pack of the chain binds a keyword twice: adding a default never      *)
(* fires the "duplicate keyword" assertion of arg_list.                    *)
NoDuplicateKeyword ==
  \A j \in DOMAIN stack : \A m, n \in DOMAIN stack[j].args :
    stack[j].args[m].key = stack[j].args[n].key => m = n

(* preprocessor.hpp:145, "All arguments are accessible via args and        *)
(* keywords, as well as by name": in every function of the chain each      *)
(* named parameter is also in the pack, from the same origin, converted or *)
(* not.                                                                    *)
AccessibleBothWays ==
  \A j \in DOMAIN stack : \A p \in DOMAIN stack[j].params :
    LET param == stack[j].params[p] IN
    /\ param.key = Parameter(p)
    /\ \E m \in DOMAIN stack[j].args :
         stack[j].args[m].key = param.key /\ stack[j].args[m].origin = param.origin

(* With perfect forwarding, nothing a function can reach, by name or       *)
(* through its pack, belongs to a call that is over, or to one further in: *)
(* no reference dangles.                                                   *)
NoDanglingReference ==
  \A j \in DOMAIN stack :
    /\ \A p \in DOMAIN stack[j].params : stack[j].params[p].owner < j
    /\ \A m \in DOMAIN stack[j].args : stack[j].args[m].owner < j

(* The calls nest, for the defaults must live until the body is done: one  *)
(* for the front end, one for the first dispatch_0, one more for each      *)
(* optional parameter and yet two for each default evaluated; so no more   *)
(* than three for each optional parameter.                                 *)
NestingIsBounded ==
  /\ Len(stack) <= 3 * Len(sig.opt) + 2
  /\ outcome = "running" /\ Top.fn = "dispatch_0" =>
       Len(stack) = 2 + Top.n + 2 * Len(evaluated)

(* A default sees each parameter before it as the body will: same object,  *)
(* same conversion.                                                        *)
DefaultSawWhatTheBodyGets ==
  outcome = "called" =>
    \A e \in DOMAIN evaluated : \A p \in DOMAIN evaluated[e].scope :
      p <= Len(received) /\ evaluated[e].scope[p] = received[p]

(* The chain of functions implements the specification of defaults.        *)
DIO == INSTANCE DefaultsInOrder WITH
         evaluated <- [e \in DOMAIN evaluated |-> evaluated[e].key],
         received  <- [p \in DOMAIN received |->
                         [key |-> received[p].key, origin |-> received[p].origin]]

ImplementsDefaultsInOrder == DIO!Spec

(* How far a call is from its end: while it goes inwards, the parameters   *)
(* left and the functions left for the next one; then the calls to unwind. *)
CallsLeft ==
  IF outcome # "running" THEN <<0, 0, Len(stack)>>
  ELSE <<1,
         IF Top.fn = "impl" THEN Len(sig.opt) + 1 ELSE Len(sig.opt) - Top.n,
         CASE Top.fn = "dispatch_0_default" -> 1
           [] Top.fn = "dispatch_1"         -> 0
           [] OTHER                         -> 2>>

(* The dispatch functions call each other, and none ever calls back: each  *)
(* either adds a parameter or is the next of the three that add a missing  *)
(* one, until the body is reached; from then on calls only end.            *)
DispatchDescends == [][Descends(3, CallsLeft, CallsLeft')]_vars

(* Every call runs its body or throws, and unwinds.                        *)
Terminates == <>(stack = <<>>)

(* doc/reference.rst:1422-1426, if the restriction is a target type, "the  *)
(* generated reference argument-name (but not its corresponding entry in   *)
(* args) will be cast to that type".                                       *)
BodyParametersHaveTargetType ==
  outcome = "called" => \A p \in DOMAIN received : received[p].ofTarget

(* aux_/preprocessor/impl/function_cast.hpp:487, "cast<void(X)>::execute() *)
(* casts to X": what a call got by name is an object, not the reference to *)
(* one that died with a call further in.                                   *)
ParametersAreObjects ==
  outcome = "running" =>
    \A p \in DOMAIN Top.params : Top.params[p].owner < Len(stack)

=============================================================================
