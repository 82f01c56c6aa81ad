----------------------- MODULE DispatchLayer_proofs ------------------------
(***************************************************************************)
(* Proofs about the dispatch functions, for every signature, every pack    *)
(* the caller may hand over and both builds.                               *)
(***************************************************************************)
EXTENDS DispatchLayer, SequenceTheorems, TLAPS

-----------------------------------------------------------------------------
(***************************************************************************)
(* The inductive invariant.  A function called keeps its pack and its      *)
(* parameters, so what holds of a call when it is made holds of it until   *)
(* it ends: one condition per call, and one that numbers the owners.       *)
(***************************************************************************)

TypeInv ==
  /\ sig \in Signatures
  /\ callerPack \in CallerPacks
  /\ stack \in Seq(Frame)
  /\ evaluated \in Seq([key: Keys, scope: Seq(Argument)])
  /\ received \in Seq(Argument)
  /\ outcome \in {"running", "called", "threw"}
  /\ outcome = "running" => stack # <<>>

UniqueKeys(args) ==
  \A m, n \in DOMAIN args : args[m].key = args[n].key => m = n

InPack(args, param) ==
  \E m \in DOMAIN args : args[m].key = param.key /\ args[m].origin = param.origin

(* The named parameters of a dispatch function, s being its signature.     *)
Names(s, f) ==
  /\ f.n \in 0..Len(s.opt)
  /\ Len(f.params) = Len(s.req) + f.n
  /\ \A p \in DOMAIN f.params :
       f.params[p].key = (s.req \o s.opt)[p] /\ InPack(f.args, f.params[p])

(* What the next step needs to know: the front end finds every required    *)
(* argument, the default it binds is not bound, the one it fetches is.     *)
Ready(s, f) ==
  /\ f.fn = "impl" =>
       /\ f.n = 0 /\ f.params = <<>>
       /\ \A p \in DOMAIN s.req : Bound(f.args, s.req[p])
  /\ f.fn = "dispatch_0_default" => ~Bound(f.args, s.opt[f.n + 1])
  /\ f.fn = "dispatch_1" => Bound(f.args, s.opt[f.n + 1])

Shape(s, f) ==
  /\ UniqueKeys(f.args)
  /\ f.fn # "impl" => Names(s, f)
  /\ Ready(s, f)

(* Everything f can reach is older than call number j.                     *)
Owned(f, j) ==
  /\ \A p \in DOMAIN f.params : f.params[p].owner < j
  /\ \A m \in DOMAIN f.args : f.args[m].owner < j

StackInv ==
  \A j \in DOMAIN stack :
    Shape(sig, stack[j]) /\ (PerfectForwarding => Owned(stack[j], j))

Inv == TypeInv /\ StackInv

-----------------------------------------------------------------------------
(* Facts about signatures, packs and the stack.                            *)

(* The parameters of a signature are keywords, the required ones first.    *)
LEMMA SignatureFacts ==
  ASSUME sig \in Signatures
  PROVE  /\ sig.req \in Seq(Keys) /\ Len(sig.req) \in Nat
         /\ sig.opt \in Seq(Keys) /\ Len(sig.opt) \in Nat
         /\ \A p \in 1..Len(sig.req) : sig.req[p] \in Keys /\ Parameter(p) = sig.req[p]
         /\ \A q \in 1..Len(sig.opt) :
              sig.opt[q] \in Keys /\ Parameter(Len(sig.req) + q) = sig.opt[q]
<1>1. sig.req \in Seq(Keys) /\ sig.opt \in Seq(Keys)
  BY SignaturesAssumption
<1> DEFINE a == sig.req
           b == sig.opt
<1>2. a \in Seq(Keys) /\ b \in Seq(Keys)
  BY <1>1
<1> HIDE DEF a, b
<1>3. /\ \A p \in 1..Len(a) : a[p] \in Keys /\ (a \o b)[p] = a[p]
      /\ \A q \in 1..Len(b) : b[q] \in Keys /\ (a \o b)[Len(a) + q] = b[q]
      /\ Len(a) \in Nat /\ Len(b) \in Nat
  BY <1>2
<1> QED
  BY <1>1, <1>3 DEF Parameter, a, b

(* args[keyword] is the argument bound to the keyword.                     *)
LEMMA LookupFinds ==
  ASSUME NEW args \in Seq(Argument), NEW key, Bound(args, key)
  PROVE  /\ Lookup(args, key) \in Argument
         /\ Lookup(args, key).key = key
         /\ \E m \in DOMAIN args : Lookup(args, key) = args[m]
<1> DEFINE m == CHOOSE m \in DOMAIN args : args[m].key = key
<1>1. m \in DOMAIN args /\ args[m].key = key
  BY DEF Bound
<1>2. Lookup(args, key) = args[m]
  BY DEF Lookup
<1> HIDE DEF m
<1>3. args[m] \in Argument
  BY <1>1
<1> QED
  BY <1>1, <1>2, <1>3

(* An element of a sequence over S is in S.                                *)
LEMMA ElementsOf ==
  ASSUME NEW S, NEW s \in Seq(S), NEW p \in DOMAIN s
  PROVE  s[p] \in S
  OBVIOUS

(* Append leaves the elements alone and adds one.                          *)
LEMMA AppendedElements ==
  ASSUME NEW S, NEW s \in Seq(S), NEW x \in S
  PROVE  /\ DOMAIN Append(s, x) = 1..(Len(s) + 1)
         /\ \A p \in 1..Len(s) : Append(s, x)[p] = s[p]
         /\ Append(s, x)[Len(s) + 1] = x
         /\ Append(s, x) = [p \in 1..(Len(s) + 1) |-> Append(s, x)[p]]
<1> DEFINE t == Append(s, x)
<1>1. /\ t \in Seq(S) /\ Len(s) \in Nat /\ Len(t) = Len(s) + 1
      /\ \A p \in 1..Len(s) : t[p] = s[p]
      /\ t[Len(s) + 1] = x
  OBVIOUS
<1> HIDE DEF t
<1>2. DOMAIN t = 1..(Len(s) + 1) /\ t = [p \in 1..(Len(s) + 1) |-> t[p]]
  BY <1>1
<1> QED
  BY <1>1, <1>2 DEF t

(* The owner of an argument is the index of a call.                        *)
LEMMA OwnersAreNumbers ==
  ASSUME NEW args \in Seq(Argument), NEW m \in DOMAIN args
  PROVE  args[m].owner \in Nat
<1>1. args[m] \in Argument
  OBVIOUS
<1> QED
  BY <1>1 DEF Argument

(* A cast changes neither keyword nor origin.                              *)
LEMMA CastKeeps ==
  ASSUME NEW argument \in Argument, Len(stack) \in Nat
  PROVE  /\ Cast(argument) \in Argument
         /\ Cast(argument).key = argument.key
         /\ Cast(argument).origin = argument.origin
         /\ OptCast(argument) \in Argument
         /\ OptCast(argument).key = argument.key
         /\ OptCast(argument).origin = argument.origin
         /\ argument.owner <= Len(stack) => Cast(argument).owner <= Len(stack)
         /\ PerfectForwarding /\ argument.owner <= Len(stack)
              => OptCast(argument).owner <= Len(stack)
<1>1. ASSUME NEW owner \in Nat
      PROVE  /\ Converted(argument, owner) \in Argument
             /\ Converted(argument, owner).key = argument.key
             /\ Converted(argument, owner).origin = argument.origin
             /\ Converted(argument, owner).owner \in {argument.owner, owner}
  <2>1. CASE argument.ofTarget
    BY <2>1 DEF Converted
  <2>2. CASE ~argument.ofTarget
    BY <2>2 DEF Converted, Argument
  <2> QED
    BY <2>1, <2>2
<1>2. Len(stack) + 1 \in Nat /\ Len(stack) <= Len(stack)
  OBVIOUS
<1>3. CASE PerfectForwarding
  BY <1>1, <1>2, <1>3 DEF Cast, OptCast
<1>4. CASE ~PerfectForwarding
  BY <1>1, <1>2, <1>4 DEF Cast, OptCast
<1> QED
  BY <1>3, <1>4

(* What the invariant says of the innermost call.                          *)
LEMMA TopFacts ==
  ASSUME Inv, outcome = "running"
  PROVE  /\ Len(stack) \in Nat \ {0}
         /\ Top \in Frame
         /\ Top.args \in Seq(Argument)
         /\ Top.params \in Seq(Argument)
         /\ Top.n \in Nat
         /\ Shape(sig, Top)
         /\ PerfectForwarding => Owned(Top, Len(stack))
<1>1. Len(stack) \in Nat \ {0} /\ Top \in Frame /\ Len(stack) \in DOMAIN stack
  BY DEF Inv, TypeInv, Top
<1> QED
  BY <1>1 DEF Inv, StackInv, Top, Frame

(* A call adds one frame; the others are as they were.                     *)
LEMMA CallKeeps ==
  ASSUME Inv, NEW f \in Frame, Call(f), UNCHANGED sig,
         Shape(sig, f), PerfectForwarding => Owned(f, Len(stack) + 1)
  PROVE  /\ stack' \in Seq(Frame) /\ stack' # <<>>
         /\ StackInv'
<1>1. stack \in Seq(Frame)
  BY DEF Inv, TypeInv
<1>2. /\ stack' \in Seq(Frame) /\ stack' # <<>>
      /\ DOMAIN stack' = 1..(Len(stack) + 1)
      /\ stack'[Len(stack) + 1] = f
      /\ \A j \in DOMAIN stack : stack'[j] = stack[j]
  BY <1>1 DEF Call
<1>3. ASSUME NEW j \in DOMAIN stack'
      PROVE  Shape(sig, stack'[j]) /\ (PerfectForwarding => Owned(stack'[j], j))
  <2>1. CASE j = Len(stack) + 1
    BY <1>2, <2>1
  <2>2. CASE j \in DOMAIN stack
    BY <1>2, <2>2 DEF Inv, StackInv
  <2> QED
    BY <1>1, <1>2, <2>1, <2>2
<1> QED
  BY <1>2, <1>3 DEF StackInv


-----------------------------------------------------------------------------
(* Every step keeps the invariant.                                         *)

(* The frame of the next dispatch_0: one more parameter, the same pack.    *)
Extended(f, argument) ==
  [fn     |-> "dispatch_0",
   n      |-> f.n + 1,
   args   |-> f.args,
   params |-> Append(f.params, argument)]

(* A frame that takes over one more parameter keeps its shape, and what it *)
(* refers to belongs to a call below it.                                   *)
LEMMA ExtendedShape ==
  ASSUME sig \in Signatures,
         NEW f \in Frame, Shape(sig, f), f.fn # "impl", f.n < Len(sig.opt),
         NEW c \in Argument, c.key = sig.opt[f.n + 1], InPack(f.args, c)
  PROVE  /\ Extended(f, c) \in Frame
         /\ Shape(sig, Extended(f, c))
         /\ \A j \in Nat :
              Owned(f, j) /\ c.owner <= j => Owned(Extended(f, c), j + 1)
<1> DEFINE g == Extended(f, c)
           N == Len(f.params)
<1>1. /\ f.n \in Nat /\ f.params \in Seq(Argument) /\ f.args \in Seq(Argument)
      /\ N = Len(sig.req) + f.n /\ Len(sig.req) \in Nat /\ Len(sig.opt) \in Nat
  BY SignatureFacts DEF Frame, Shape, Names
<1>2. /\ g.fn = "dispatch_0" /\ g.n = f.n + 1 /\ g.args = f.args
      /\ g.params \in Seq(Argument)
      /\ Len(g.params) = N + 1 /\ DOMAIN g.params = 1..(N + 1)
      /\ g.params[N + 1] = c
      /\ \A p \in 1..N : p \in DOMAIN f.params /\ g.params[p] = f.params[p]
  BY <1>1 DEF Extended
<1>3. g \in Frame
  BY <1>1, <1>2 DEF Frame, FunctionNames, Extended
<1> DEFINE Conclusion == \A j \in Nat :
             Owned(f, j) /\ c.owner <= j => Owned(g, j + 1)
<1>0. SUFFICES Shape(sig, g) /\ Conclusion
  BY <1>3
<1>9. DOMAIN f.params = 1..N /\ N \in Nat
  BY <1>1
<1> HIDE DEF g, N
<1>4. (sig.req \o sig.opt)[N + 1] = c.key
  <2>1. f.n + 1 \in 1..Len(sig.opt) /\ N + 1 = Len(sig.req) + (f.n + 1)
    BY <1>1
  <2> QED
    BY <2>1, SignatureFacts DEF Parameter
<1>5. ASSUME NEW p \in DOMAIN g.params
      PROVE  g.params[p].key = (sig.req \o sig.opt)[p] /\ InPack(g.args, g.params[p])
  <2>1. CASE p = N + 1
    BY <1>2, <1>4, <2>1
  <2>2. CASE p \in 1..N
    BY <1>2, <2>2 DEF Shape, Names
  <2>3. p = N + 1 \/ p \in 1..N
    BY <1>2, <1>9
  <2> QED
    BY <2>1, <2>2, <2>3
<1>6. Names(sig, g)
  <2>1. g.n \in 0..Len(sig.opt) /\ Len(g.params) = Len(sig.req) + g.n
    BY <1>1, <1>2, SMTT(30)
  <2> QED
    BY <1>5, <2>1 DEF Names
<1>7. Shape(sig, g)
  BY <1>2, <1>6 DEF Shape, Ready
<1>8. ASSUME NEW j \in Nat, Owned(f, j), c.owner <= j
      PROVE  Owned(g, j + 1)
  <2>1. /\ \A p \in 1..N : f.params[p].owner < j /\ f.params[p].owner \in Nat
        /\ \A m \in DOMAIN f.args : f.args[m].owner < j /\ f.args[m].owner \in Nat
        /\ c.owner \in Nat
    <3>1. c.owner \in Nat
      BY DEF Argument
    <3> QED
      BY <1>1, <1>8, <1>9, <3>1, OwnersAreNumbers DEF Owned
  <2>2. ASSUME NEW p \in 1..(N + 1)
        PROVE  g.params[p].owner < j + 1
    <3>1. CASE p = N + 1
      BY <1>2, <1>8, <2>1, <3>1
    <3>2. CASE p \in 1..N
      BY <1>2, <2>1, <3>2
    <3> QED
      BY <1>9, <3>1, <3>2
  <2>3. \A m \in DOMAIN g.args : g.args[m].owner < j + 1
    BY <1>2, <2>1
  <2> QED
    BY <1>2, <2>2, <2>3 DEF Owned
<1> QED
  BY <1>7, <1>8

(* What extracting an argument from the pack of the innermost call gives.  *)
LEMMA LookupInTop ==
  ASSUME Inv, outcome = "running", NEW key, Bound(Top.args, key)
  PROVE  LET argument == Lookup(Top.args, key) IN
         /\ argument \in Argument
         /\ argument.key = key
         /\ InPack(Top.args, argument)
         /\ PerfectForwarding => argument.owner <= Len(stack)
<1> DEFINE argument == Lookup(Top.args, key)
<1>1. PICK m \in DOMAIN Top.args : argument = Top.args[m]
  BY TopFacts, LookupFinds
<1>2. argument \in Argument /\ argument.key = key
  BY TopFacts, LookupFinds
<1>3. PerfectForwarding => argument.owner < Len(stack)
  BY <1>1, TopFacts DEF Owned
<1>4. argument.owner \in Nat /\ Len(stack) \in Nat
  BY <1>2, TopFacts DEF Argument
<1> QED
  BY <1>1, <1>2, <1>3, <1>4 DEF InPack

(* The front end calls the first dispatch function with the required       *)
(* parameters.                                                             *)
LEMMA FrontEndKeeps == Inv /\ FrontEnd => Inv'
<1> SUFFICES ASSUME Inv, FrontEnd PROVE Inv'
  OBVIOUS
<1> DEFINE params == [p \in DOMAIN sig.req |-> Cast(Lookup(Top.args, sig.req[p]))]
           f == [fn |-> "dispatch_0", n |-> 0, args |-> Top.args, params |-> params]
<1>1. /\ outcome = "running" /\ Top.fn = "impl" /\ Call(f)
      /\ UNCHANGED <<sig, callerPack, evaluated, received, outcome>>
  BY DEF FrontEnd
<1>2. /\ Top.args \in Seq(Argument) /\ Shape(sig, Top) /\ Len(stack) \in Nat \ {0}
      /\ PerfectForwarding => Owned(Top, Len(stack))
  BY <1>1, TopFacts
<1>3. /\ sig \in Signatures
      /\ DOMAIN sig.req = 1..Len(sig.req) /\ Len(sig.req) \in Nat /\ Len(sig.opt) \in Nat
  BY SignatureFacts DEF Inv, TypeInv
<1>4. ASSUME NEW p \in DOMAIN sig.req
      PROVE  /\ params[p] \in Argument
             /\ params[p].key = (sig.req \o sig.opt)[p]
             /\ InPack(Top.args, params[p])
             /\ PerfectForwarding => params[p].owner < Len(stack) + 1
  <2> DEFINE argument == Lookup(Top.args, sig.req[p])
  <2>1. Bound(Top.args, sig.req[p])
    BY <1>1, <1>2 DEF Shape, Ready
  <2>2. /\ argument \in Argument /\ argument.key = sig.req[p]
        /\ InPack(Top.args, argument)
        /\ PerfectForwarding => argument.owner <= Len(stack)
    BY <1>1, <2>1, LookupInTop
  <2>3. /\ Cast(argument) \in Argument
        /\ Cast(argument).key = argument.key
        /\ Cast(argument).origin = argument.origin
        /\ PerfectForwarding => Cast(argument).owner <= Len(stack)
    BY <1>2, <2>2, CastKeeps
  <2>4. params[p] = Cast(argument)
    OBVIOUS
  <2>5. (sig.req \o sig.opt)[p] = sig.req[p]
    BY <1>3, SignatureFacts DEF Parameter
  <2>6. InPack(Top.args, Cast(argument))
    BY <2>2, <2>3 DEF InPack
  <2>7. PerfectForwarding => Cast(argument).owner < Len(stack) + 1
    BY <1>2, <2>3 DEF Argument
  <2> QED
    BY <2>2, <2>3, <2>4, <2>5, <2>6, <2>7
<1>5. params \in Seq(Argument) /\ Len(params) = Len(sig.req)
  <2> DEFINE n == Len(sig.req)
  <2>1. \A p \in 1..n : params[p] \in Argument
    BY <1>3, <1>4
  <2>2. DOMAIN params = 1..n /\ n \in Nat
    BY <1>3
  <2>3. params = [p \in 1..n |-> params[p]]
    BY <1>3
  <2> HIDE DEF params, n
  <2>4. params \in Seq(Argument) /\ Len(params) = n
    BY <2>1, <2>2, <2>3
  <2> QED
    BY <2>4 DEF n
<1>6. f \in Frame
  BY <1>2, <1>5 DEF Frame, FunctionNames
<1>10. /\ f.fn = "dispatch_0" /\ f.n = 0 /\ f.args = Top.args /\ f.params = params
       /\ DOMAIN params = DOMAIN sig.req
  OBVIOUS
<1> HIDE DEF f, params
<1>7. Shape(sig, f)
  <2>1. Names(sig, f)
    <3>1. f.n \in 0..Len(sig.opt) /\ Len(f.params) = Len(sig.req) + f.n
      BY <1>3, <1>5, <1>10
    <3>2. \A p \in DOMAIN f.params :
            f.params[p].key = (sig.req \o sig.opt)[p] /\ InPack(f.args, f.params[p])
      BY <1>4, <1>10
    <3> QED
      BY <3>1, <3>2 DEF Names
  <2> QED
    BY <1>2, <1>10, <2>1 DEF Shape, Ready
<1>8. PerfectForwarding => Owned(f, Len(stack) + 1)
  <2>1. \A m \in DOMAIN Top.args : Top.args[m].owner \in Nat
    BY <1>2, OwnersAreNumbers
  <2>2. PerfectForwarding =>
          \A m \in DOMAIN f.args : f.args[m].owner < Len(stack) + 1
    BY <1>2, <1>10, <2>1 DEF Owned
  <2>3. PerfectForwarding =>
          \A p \in DOMAIN f.params : f.params[p].owner < Len(stack) + 1
    BY <1>4, <1>10
  <2> QED
    BY <2>2, <2>3 DEF Owned
<1>9. stack' \in Seq(Frame) /\ stack' # <<>> /\ StackInv'
  BY <1>1, <1>6, <1>7, <1>8, CallKeeps
<1> QED
  BY <1>1, <1>9 DEF Inv, TypeInv

(* A call that passes on one more parameter keeps the invariant.           *)
LEMMA ExtendKeeps ==
  ASSUME Inv, outcome = "running", Top.fn # "impl", Top.n < Len(sig.opt),
         NEW c \in Argument, c.key = NextKey, InPack(Top.args, c),
         PerfectForwarding => c.owner <= Len(stack),
         Call(Extended(Top, c)),
         UNCHANGED <<sig, callerPack, evaluated, received, outcome>>
  PROVE  Inv'
<1>1. /\ Top \in Frame /\ Shape(sig, Top) /\ Len(stack) \in Nat
      /\ PerfectForwarding => Owned(Top, Len(stack))
      /\ sig \in Signatures
  BY TopFacts DEF Inv, TypeInv
<1>2. /\ Extended(Top, c) \in Frame
      /\ Shape(sig, Extended(Top, c))
      /\ PerfectForwarding => Owned(Extended(Top, c), Len(stack) + 1)
  BY <1>1, ExtendedShape DEF NextKey
<1>3. stack' \in Seq(Frame) /\ stack' # <<>> /\ StackInv'
  BY <1>2, CallKeeps
<1> QED
  BY <1>3 DEF Inv, TypeInv

(* An argument of the caller is passed on.                                 *)
LEMMA ForwardGivenKeeps == Inv /\ ForwardGiven => Inv'
<1> SUFFICES ASSUME Inv, ForwardGiven PROVE Inv'
  OBVIOUS
<1> DEFINE argument == Lookup(Top.args, NextKey)
           c == OptCast(argument)
<1>1. /\ outcome = "running" /\ Top.fn = "dispatch_0" /\ Top.n < Len(sig.opt)
      /\ Bound(Top.args, NextKey)
      /\ Call(Extended(Top, c))
      /\ UNCHANGED <<sig, callerPack, evaluated, received, outcome>>
  BY DEF ForwardGiven, InDispatch, IsGiven, Extended
<1>2. /\ argument \in Argument /\ argument.key = NextKey
      /\ InPack(Top.args, argument)
      /\ PerfectForwarding => argument.owner <= Len(stack)
  BY <1>1, LookupInTop
<1>3. /\ c \in Argument /\ c.key = NextKey /\ InPack(Top.args, c)
      /\ PerfectForwarding => c.owner <= Len(stack)
  BY <1>1, <1>2, TopFacts, CastKeeps DEF InPack
<1> HIDE DEF c
<1> QED
  BY <1>1, <1>3, ExtendKeeps

(* A default that is bound is fetched from the pack.                       *)
LEMMA FetchDefaultKeeps == Inv /\ FetchDefault => Inv'
<1> SUFFICES ASSUME Inv, FetchDefault PROVE Inv'
  OBVIOUS
<1> DEFINE c == Lookup(Top.args, NextKey)
<1>1. /\ outcome = "running" /\ Top.fn = "dispatch_1" /\ Top.n < Len(sig.opt)
      /\ Call(Extended(Top, c))
      /\ UNCHANGED <<sig, callerPack, evaluated, received, outcome>>
  BY DEF FetchDefault, InDispatch, Extended
<1>2. Bound(Top.args, NextKey)
  BY <1>1, TopFacts DEF Shape, Ready, NextKey
<1>3. /\ c \in Argument /\ c.key = NextKey /\ InPack(Top.args, c)
      /\ PerfectForwarding => c.owner <= Len(stack)
  BY <1>1, <1>2, LookupInTop
<1> HIDE DEF c
<1> QED
  BY <1>1, <1>3, ExtendKeeps

(* A missing argument sends the call to the overload of the default.       *)
LEMMA ForwardMissingKeeps == Inv /\ ForwardMissing => Inv'
<1> SUFFICES ASSUME Inv, ForwardMissing PROVE Inv'
  OBVIOUS
<1> DEFINE f == [Top EXCEPT !.fn = "dispatch_0_default"]
<1>1. /\ outcome = "running" /\ Top.fn = "dispatch_0"
      /\ ~Bound(Top.args, sig.opt[Top.n + 1])
      /\ Call(f)
      /\ UNCHANGED <<sig, callerPack, evaluated, received, outcome>>
  BY DEF ForwardMissing, InDispatch, IsGiven, NextKey
<1>2. /\ Top \in Frame /\ Shape(sig, Top) /\ Len(stack) \in Nat
      /\ PerfectForwarding => Owned(Top, Len(stack))
      /\ Top.args \in Seq(Argument) /\ Top.params \in Seq(Argument)
  BY <1>1, TopFacts
<1>3. /\ f \in Frame /\ f.fn = "dispatch_0_default" /\ f.n = Top.n
      /\ f.args = Top.args /\ f.params = Top.params
  BY <1>2 DEF Frame, FunctionNames
<1> HIDE DEF f
<1>4. Shape(sig, f)
  BY <1>1, <1>2, <1>3 DEF Shape, Names, Ready
<1>5. PerfectForwarding => Owned(f, Len(stack) + 1)
  BY <1>2, <1>3, OwnersAreNumbers DEF Owned
<1>6. stack' \in Seq(Frame) /\ stack' # <<>> /\ StackInv'
  BY <1>1, <1>3, <1>4, <1>5, CallKeeps
<1> QED
  BY <1>1, <1>6 DEF Inv, TypeInv

(* Prepending an argument to a pack.                                       *)
LEMMA PrependFacts ==
  ASSUME NEW d \in Argument, NEW args \in Seq(Argument)
  PROVE  LET pack == <<d>> \o args IN
         /\ pack \in Seq(Argument)
         /\ DOMAIN pack = 1..(Len(args) + 1)
         /\ pack[1] = d
         /\ \A m \in DOMAIN pack :
              m # 1 => m - 1 \in DOMAIN args /\ pack[m] = args[m - 1]
         /\ \A m \in DOMAIN args :
              m + 1 \in DOMAIN pack /\ pack[m + 1] = args[m]
  OBVIOUS

(* A default is bound to a keyword the pack did not have.                  *)
LEMMA BindDefaultKeeps == Inv /\ BindDefault => Inv'
<1> SUFFICES ASSUME Inv, BindDefault PROVE Inv'
  OBVIOUS
<1>1. PICK ofTarget \in BOOLEAN :
        Call([Top EXCEPT !.fn = "dispatch_1",
                         !.args = <<DefaultArgument(ofTarget)>> \o @])
  BY DEF BindDefault
<1> DEFINE d == DefaultArgument(ofTarget)
           pack == <<d>> \o Top.args
           f == [Top EXCEPT !.fn = "dispatch_1", !.args = pack]
<1>2. /\ outcome = "running" /\ Top.fn = "dispatch_0_default" /\ Top.n < Len(sig.opt)
      /\ Call(f)
      /\ evaluated' = Evaluation
      /\ UNCHANGED <<sig, callerPack, received, outcome>>
  BY <1>1 DEF BindDefault, InDispatch
<1>3. /\ Top \in Frame /\ Shape(sig, Top) /\ Len(stack) \in Nat
      /\ PerfectForwarding => Owned(Top, Len(stack))
      /\ Top.args \in Seq(Argument) /\ Top.params \in Seq(Argument)
      /\ Top.n \in Nat /\ sig \in Signatures
  BY <1>2, TopFacts DEF Inv, TypeInv
<1>4. NextKey \in Keys
  BY <1>2, <1>3, SignatureFacts DEF NextKey
<1>5. d \in Argument /\ d.key = NextKey /\ d.owner = Len(stack)
  BY <1>3, <1>4 DEF DefaultArgument, Argument
<1> HIDE DEF d
<1>6. /\ pack \in Seq(Argument)
      /\ DOMAIN pack = 1..(Len(Top.args) + 1)
      /\ pack[1] = d
      /\ \A m \in DOMAIN pack :
           m # 1 => m - 1 \in DOMAIN Top.args /\ pack[m] = Top.args[m - 1]
      /\ \A m \in DOMAIN Top.args :
           m + 1 \in DOMAIN pack /\ pack[m + 1] = Top.args[m]
  BY <1>3, <1>5, PrependFacts
<1>7. 1 \in DOMAIN pack /\ DOMAIN pack \subseteq Nat
  BY <1>3, <1>6
<1> HIDE DEF pack
<1>8. /\ f \in Frame /\ f.fn = "dispatch_1" /\ f.n = Top.n
      /\ f.args = pack /\ f.params = Top.params
  BY <1>3, <1>6 DEF Frame, FunctionNames
<1> HIDE DEF f
<1>9. UniqueKeys(pack)
  <2> SUFFICES ASSUME NEW m \in DOMAIN pack, NEW n \in DOMAIN pack,
                      pack[m].key = pack[n].key
               PROVE  m = n
    BY DEF UniqueKeys
  <2>1. \A k \in DOMAIN Top.args : Top.args[k].key # NextKey
    BY <1>2, <1>3 DEF Shape, Ready, Bound, NextKey
  <2>2. CASE m = 1 \/ n = 1
    BY <1>5, <1>6, <2>1, <2>2
  <2>3. CASE m # 1 /\ n # 1
    <3>1. m - 1 = n - 1
      BY <1>3, <1>6, <2>3 DEF Shape, UniqueKeys
    <3> QED
      BY <1>7, <3>1
  <2> QED
    BY <2>2, <2>3
<1>10. Names(sig, f)
  <2>1. ASSUME NEW param, InPack(Top.args, param)
        PROVE  InPack(pack, param)
    BY <1>6, <2>1 DEF InPack
  <2> QED
    BY <1>2, <1>3, <1>8, <2>1 DEF Shape, Names
<1>11. Shape(sig, f)
  <2>1. Bound(pack, sig.opt[f.n + 1])
    BY <1>5, <1>6, <1>7, <1>8 DEF Bound, NextKey
  <2> QED
    BY <1>8, <1>9, <1>10, <2>1 DEF Shape, Ready
<1>12. PerfectForwarding => Owned(f, Len(stack) + 1)
  <2>1. \A m \in DOMAIN Top.args : Top.args[m].owner \in Nat
    BY <1>3, OwnersAreNumbers
  <2>2. \A p \in DOMAIN Top.params : Top.params[p].owner \in Nat
    BY <1>3, OwnersAreNumbers
  <2>3. ASSUME PerfectForwarding, NEW m \in DOMAIN pack
        PROVE  pack[m].owner < Len(stack) + 1
    <3>1. CASE m = 1
      BY <1>3, <1>5, <1>6, <3>1
    <3>2. CASE m # 1
      BY <1>3, <1>6, <2>1, <2>3, <3>2 DEF Owned
    <3> QED
      BY <3>1, <3>2
  <2> QED
    BY <1>3, <1>8, <2>2, <2>3 DEF Owned
<1>13. stack' \in Seq(Frame) /\ stack' # <<>> /\ StackInv'
  BY <1>2, <1>8, <1>11, <1>12, CallKeeps
<1>14. evaluated' \in Seq([key: Keys, scope: Seq(Argument)])
  BY <1>2, <1>3, <1>4 DEF Inv, TypeInv, Evaluation
<1> QED
  BY <1>2, <1>13, <1>14 DEF Inv, TypeInv

(* A default that throws ends the call, its evaluation recorded.           *)
LEMMA DefaultThrowsKeeps == Inv /\ DefaultThrows => Inv'
<1> SUFFICES ASSUME Inv, DefaultThrows PROVE Inv'
  OBVIOUS
<1>1. /\ outcome = "running" /\ Top.n < Len(sig.opt)
      /\ evaluated' = Evaluation /\ outcome' = "threw"
      /\ UNCHANGED <<sig, callerPack, stack, received>>
  BY DEF DefaultThrows, InDispatch
<1>2. Top.params \in Seq(Argument) /\ Top.n \in Nat /\ sig \in Signatures
  BY <1>1, TopFacts DEF Inv, TypeInv
<1>3. NextKey \in Keys
  BY <1>1, <1>2, SignatureFacts DEF NextKey
<1>4. evaluated' \in Seq([key: Keys, scope: Seq(Argument)])
  BY <1>1, <1>2, <1>3 DEF Inv, TypeInv, Evaluation
<1> QED
  BY <1>1, <1>4 DEF Inv, TypeInv, StackInv

(* A call that returns takes its frame with it.                            *)
LEMMA ReturnKeeps == Inv /\ Return => Inv'
<1> SUFFICES ASSUME Inv, Return PROVE Inv'
  OBVIOUS
<1>1. /\ outcome # "running" /\ stack # <<>> /\ stack \in Seq(Frame)
      /\ stack' = SubSeq(stack, 1, Len(stack) - 1)
      /\ UNCHANGED <<sig, callerPack, evaluated, received, outcome>>
  BY DEF Return, Inv, TypeInv
<1>2. /\ stack' \in Seq(Frame)
      /\ \A j \in DOMAIN stack' : j \in DOMAIN stack /\ stack'[j] = stack[j]
  BY <1>1
<1>3. StackInv'
  BY <1>1, <1>2 DEF Inv, StackInv
<1> QED
  BY <1>1, <1>2, <1>3 DEF Inv, TypeInv

(* A call starts with an empty chain.                                      *)
LEMMA InitEstablishes == Init => Inv
<1> SUFFICES ASSUME Init PROVE Inv
  OBVIOUS
<1> DEFINE args == [m \in DOMAIN callerPack |-> FromCaller(callerPack[m])]
           f == [fn |-> "impl", n |-> 0, args |-> args, params |-> <<>>]
<1>1. /\ sig \in Signatures /\ callerPack \in CallerPacks
      /\ \A p \in DOMAIN sig.req : Bound(callerPack, sig.req[p])
      /\ stack = <<f>>
      /\ evaluated = <<>> /\ received = <<>> /\ outcome = "running"
  BY DEF Init
<1>2. /\ callerPack \in Seq(CallerArgument)
      /\ UniqueKeys(callerPack)
  BY <1>1, CallerPacksAssumption DEF UniqueKeys
<1>3. /\ DOMAIN args = DOMAIN callerPack
      /\ \A m \in DOMAIN callerPack :
           /\ args[m] \in Argument
           /\ args[m].key = callerPack[m].key
           /\ args[m].owner = 0
  <2>1. \A c \in CallerArgument :
          /\ FromCaller(c) \in Argument
          /\ FromCaller(c).key = c.key
          /\ FromCaller(c).owner = 0
    BY DEF FromCaller, CallerArgument, Argument
  <2>2. \A m \in DOMAIN callerPack : callerPack[m] \in CallerArgument
    BY <1>2
  <2> QED
    BY <2>1, <2>2
<1>4. args \in Seq(Argument)
  <2> DEFINE n == Len(callerPack)
  <2>1. n \in Nat /\ DOMAIN callerPack = 1..n /\ args = [m \in 1..n |-> args[m]]
    BY <1>2
  <2> HIDE DEF args, n
  <2> QED
    BY <1>3, <2>1
<1> HIDE DEF args
<1>5. /\ f \in Frame /\ f.fn = "impl" /\ f.n = 0 /\ f.args = args /\ f.params = <<>>
  BY <1>4 DEF Frame, FunctionNames
<1> HIDE DEF f
<1>6. Shape(sig, f)
  BY <1>1, <1>2, <1>3, <1>5 DEF Shape, Ready, UniqueKeys, Bound
<1>7. Owned(f, 1)
  BY <1>3, <1>5 DEF Owned
<1>8. /\ stack \in Seq(Frame) /\ stack # <<>>
      /\ DOMAIN stack = {1} /\ stack[1] = f
  BY <1>1, <1>5
<1>9. StackInv
  BY <1>6, <1>7, <1>8 DEF StackInv
<1> QED
  BY <1>1, <1>8, <1>9 DEF Inv, TypeInv

(* Every step keeps the invariant.                                         *)
LEMMA StepKeeps == Inv /\ [Next]_vars => Inv'
<1> SUFFICES ASSUME Inv, [Next]_vars PROVE Inv'
  OBVIOUS
<1>1. CASE FrontEnd
  BY <1>1, FrontEndKeeps
<1>2. CASE ForwardGiven
  BY <1>2, ForwardGivenKeeps
<1>3. CASE ForwardMissing
  BY <1>3, ForwardMissingKeeps
<1>4. CASE BindDefault
  BY <1>4, BindDefaultKeeps
<1>5. CASE DefaultThrows
  BY <1>5, DefaultThrowsKeeps
<1>6. CASE ConversionThrows
  BY <1>6 DEF ConversionThrows, Inv, TypeInv, StackInv
<1>7. CASE FetchDefault
  BY <1>7, FetchDefaultKeeps
<1>8. CASE RunBody
  BY <1>8, TopFacts DEF RunBody, Inv, TypeInv, StackInv
<1>9. CASE Return
  BY <1>9, ReturnKeeps
<1>10. CASE UNCHANGED vars
  BY <1>10 DEF vars, Inv, TypeInv, StackInv
<1> QED
  BY <1>1, <1>2, <1>3, <1>4, <1>5, <1>6, <1>7, <1>8, <1>9, <1>10 DEF Next

(* The invariant holds throughout.                                         *)
LEMMA Invariance == Spec => []Inv
  BY InitEstablishes, StepKeeps, PTL DEF Spec

-----------------------------------------------------------------------------
(* Type correctness of the chain, the number of parameters of each         *)
(* function included.                                                      *)
THEOREM DispatchTypeCorrect == Spec => []TypeOK
<1>1. Inv => TypeOK
  BY DEF Inv, TypeInv, StackInv, Shape, Names, TypeOK
<1> QED
  BY <1>1, Invariance, PTL

(* Adding a default never binds a keyword twice.                           *)
THEOREM UniqueKeywords == Spec => []NoDuplicateKeyword
<1>1. Inv => NoDuplicateKeyword
  BY DEF Inv, StackInv, Shape, UniqueKeys, NoDuplicateKeyword
<1> QED
  BY <1>1, Invariance, PTL

(* Each named parameter is in the pack as well, from the same origin.      *)
THEOREM BothWays == Spec => []AccessibleBothWays
<1>1. Inv => AccessibleBothWays
  <2> SUFFICES ASSUME Inv, NEW j \in DOMAIN stack, NEW p \in DOMAIN stack[j].params
               PROVE  /\ stack[j].params[p].key = Parameter(p)
                      /\ InPack(stack[j].args, stack[j].params[p])
    BY DEF AccessibleBothWays, InPack
  <2>1. Shape(sig, stack[j])
    BY DEF Inv, StackInv
  <2>2. CASE stack[j].fn # "impl"
    BY <2>1, <2>2 DEF Shape, Names, Parameter
  <2>3. CASE stack[j].fn = "impl"
    <3>1. stack[j].params = <<>>
      BY <2>1, <2>3 DEF Shape, Ready
    <3> QED
      BY <3>1
  <2> QED
    BY <2>2, <2>3
<1> QED
  BY <1>1, Invariance, PTL

(* With perfect forwarding no reference outlives its object.               *)
THEOREM NothingDangles ==
  ASSUME PerfectForwarding
  PROVE  Spec => []NoDanglingReference
<1>1. Inv => NoDanglingReference
  BY DEF Inv, StackInv, Owned, NoDanglingReference
<1> QED
  BY <1>1, Invariance, PTL

-----------------------------------------------------------------------------
(***************************************************************************)
(* What a default saw is what the body gets: the parameters in scope when  *)
(* a default was evaluated stay the first parameters of every function     *)
(* called from there on.                                                   *)
(***************************************************************************)

IsPrefix(s, t) == \A p \in DOMAIN s : p <= Len(t) /\ s[p] = t[p]

ScopeInv ==
  /\ outcome = "running" =>
       \A e \in DOMAIN evaluated : IsPrefix(evaluated[e].scope, Top.params)
  /\ outcome = "called" =>
       \A e \in DOMAIN evaluated : IsPrefix(evaluated[e].scope, received)

(* A prefix stays a prefix of what is appended to.                         *)
LEMMA AppendPrefix ==
  ASSUME NEW t \in Seq(Argument), NEW c \in Argument,
         NEW s \in Seq(Argument), IsPrefix(s, t)
  PROVE  IsPrefix(s, Append(t, c))
  BY DEF IsPrefix

(* The function called is the innermost one.                               *)
LEMMA CallTop ==
  ASSUME stack \in Seq(Frame), NEW f \in Frame, Call(f)
  PROVE  Top' = f
  BY DEF Call, Top

(* An evaluation adds a scope that is the parameters named so far.         *)
LEMMA EvaluationScopes ==
  ASSUME TypeInv, evaluated' = Evaluation, Top.params \in Seq(Argument),
         NEW t, \A e \in DOMAIN evaluated : IsPrefix(evaluated[e].scope, t),
         IsPrefix(Top.params, t)
  PROVE  \A e \in DOMAIN evaluated' : IsPrefix(evaluated'[e].scope, t)
<1> DEFINE x == [key |-> NextKey, scope |-> Top.params]
<1>1. evaluated \in Seq([key: Keys, scope: Seq(Argument)]) /\ x.scope = Top.params
  BY DEF TypeInv
<1>2. evaluated' = Append(evaluated, x)
  BY DEF Evaluation
<1> HIDE DEF x
<1>3. /\ DOMAIN evaluated' = 1..(Len(evaluated) + 1)
      /\ Len(evaluated) \in Nat /\ DOMAIN evaluated = 1..Len(evaluated)
      /\ evaluated'[Len(evaluated) + 1] = x
      /\ \A e \in DOMAIN evaluated : evaluated'[e] = evaluated[e]
  BY <1>1, <1>2
<1> SUFFICES ASSUME NEW e \in DOMAIN evaluated'
             PROVE  IsPrefix(evaluated'[e].scope, t)
  OBVIOUS
<1>4. CASE e = Len(evaluated) + 1
  BY <1>1, <1>3, <1>4
<1>5. CASE e \in DOMAIN evaluated
  BY <1>3, <1>5
<1> QED
  BY <1>3, <1>4, <1>5

(* The scopes recorded stay prefixes of the parameters.                    *)
LEMMA ScopeStep == Inv /\ ScopeInv /\ [Next]_vars => ScopeInv'
<1> SUFFICES ASSUME Inv, ScopeInv, [Next]_vars PROVE ScopeInv'
  OBVIOUS
<1>1. /\ stack \in Seq(Frame)
      /\ evaluated \in Seq([key: Keys, scope: Seq(Argument)])
      /\ \A e \in DOMAIN evaluated : evaluated[e].scope \in Seq(Argument)
  <2>1. /\ stack \in Seq(Frame)
        /\ evaluated \in Seq([key: Keys, scope: Seq(Argument)])
    BY DEF Inv, TypeInv
  <2>2. \A e \in DOMAIN evaluated : evaluated[e] \in [key: Keys, scope: Seq(Argument)]
    BY <2>1, ElementsOf
  <2> QED
    BY <2>1, <2>2
<1>2. ASSUME NEW f \in Frame, outcome = "running", Call(f),
             f.params = Top.params
               \/ \E c \in Argument : f.params = Append(Top.params, c),
             UNCHANGED <<evaluated, received, outcome>>
      PROVE  ScopeInv'
  <2>1. Top' = f
    BY <1>1, <1>2, CallTop
  <2>2. Top.params \in Seq(Argument)
    BY <1>2, TopFacts
  <2>3. \A e \in DOMAIN evaluated : IsPrefix(evaluated[e].scope, f.params)
    BY <1>1, <1>2, <2>2, AppendPrefix DEF ScopeInv
  <2> QED
    BY <1>2, <2>1, <2>3 DEF ScopeInv
<1>3. CASE FrontEnd
  <2>1. \A e \in DOMAIN evaluated : evaluated[e].scope = <<>>
    <3>1. Top.params = <<>>
      BY <1>3, TopFacts DEF FrontEnd, Shape, Ready
    <3> SUFFICES ASSUME NEW e \in DOMAIN evaluated
                 PROVE  evaluated[e].scope = <<>>
      OBVIOUS
    <3>2. IsPrefix(evaluated[e].scope, <<>>)
      BY <1>3, <3>1 DEF FrontEnd, ScopeInv
    <3> DEFINE s == evaluated[e].scope
    <3>3. s \in Seq(Argument) /\ \A p \in DOMAIN s : p <= 0
      BY <1>1, <3>2 DEF IsPrefix
    <3> HIDE DEF s
    <3>4. s = <<>>
      BY <3>3
    <3> QED
      BY <3>4 DEF s
  <2>2. /\ outcome = "running" /\ UNCHANGED <<evaluated, outcome>>
    BY <1>3 DEF FrontEnd
  <2>3. \A t : IsPrefix(<<>>, t)
    BY DEF IsPrefix
  <2> QED
    BY <2>1, <2>2, <2>3 DEF ScopeInv
<1>4. CASE ForwardGiven
  <2> DEFINE argument == Lookup(Top.args, NextKey)
             c == OptCast(argument)
             f == Extended(Top, c)
  <2>1. /\ outcome = "running" /\ Bound(Top.args, NextKey) /\ Call(f)
        /\ UNCHANGED <<evaluated, received, outcome>>
    BY <1>4 DEF ForwardGiven, InDispatch, IsGiven, Extended
  <2>2. c \in Argument
    BY <2>1, LookupInTop, TopFacts, CastKeeps
  <2> HIDE DEF c
  <2>3. f.params = Append(Top.params, c) /\ f \in Frame
    BY <2>1, <2>2, TopFacts DEF Extended, Frame, FunctionNames
  <2> QED
    BY <1>2, <2>1, <2>2, <2>3
<1>5. CASE FetchDefault
  <2> DEFINE c == Lookup(Top.args, NextKey)
             f == Extended(Top, c)
  <2>1. /\ outcome = "running" /\ Top.fn = "dispatch_1" /\ Call(f)
        /\ UNCHANGED <<evaluated, received, outcome>>
    BY <1>5 DEF FetchDefault, InDispatch, Extended
  <2>2. Bound(Top.args, NextKey)
    BY <2>1, TopFacts DEF Shape, Ready, NextKey
  <2>3. c \in Argument
    BY <2>1, <2>2, LookupInTop
  <2> HIDE DEF c
  <2>4. f.params = Append(Top.params, c) /\ f \in Frame
    BY <2>1, <2>3, TopFacts DEF Extended, Frame, FunctionNames
  <2> QED
    BY <1>2, <2>1, <2>3, <2>4
<1>6. CASE ForwardMissing
  <2> DEFINE f == [Top EXCEPT !.fn = "dispatch_0_default"]
  <2>1. /\ outcome = "running" /\ Call(f)
        /\ UNCHANGED <<evaluated, received, outcome>>
    BY <1>6 DEF ForwardMissing, InDispatch
  <2>2. f \in Frame /\ f.params = Top.params
    BY <2>1, TopFacts DEF Frame, FunctionNames
  <2> QED
    BY <1>2, <2>1, <2>2
<1>7. ASSUME outcome = "running"
      PROVE  /\ Top.params \in Seq(Argument)
             /\ IsPrefix(Top.params, Top.params)
             /\ \A e \in DOMAIN evaluated : IsPrefix(evaluated[e].scope, Top.params)
  <2>1. Top.params \in Seq(Argument)
    BY <1>7, TopFacts
  <2> QED
    BY <1>7, <2>1 DEF ScopeInv, IsPrefix
<1>8. CASE BindDefault
  <2>1. PICK ofTarget \in BOOLEAN :
          Call([Top EXCEPT !.fn = "dispatch_1",
                           !.args = <<DefaultArgument(ofTarget)>> \o @])
    BY <1>8 DEF BindDefault
  <2> DEFINE f == [Top EXCEPT !.fn = "dispatch_1",
                              !.args = <<DefaultArgument(ofTarget)>> \o @]
  <2>2. /\ outcome = "running" /\ evaluated' = Evaluation
        /\ UNCHANGED <<received, outcome>>
    BY <1>8 DEF BindDefault, InDispatch
  <2>3. Top' = f /\ f.params = Top.params
    <3>1. Len(stack) \in Nat /\ Top \in Frame
      BY <2>2, TopFacts
    <3> QED
      BY <1>1, <2>1, <3>1 DEF Call, Top, Frame
  <2>4. \A e \in DOMAIN evaluated' : IsPrefix(evaluated'[e].scope, Top.params)
    BY <1>7, <2>2, EvaluationScopes DEF Inv
  <2> QED
    BY <2>2, <2>3, <2>4 DEF ScopeInv
<1>9. CASE DefaultThrows
  BY <1>9 DEF DefaultThrows, ScopeInv
<1>10. CASE ConversionThrows
  BY <1>10 DEF ConversionThrows, ScopeInv
<1>11. CASE RunBody
  BY <1>11 DEF RunBody, ScopeInv
<1>12. CASE Return
  BY <1>12 DEF Return, ScopeInv
<1>13. CASE UNCHANGED vars
  BY <1>13 DEF vars, ScopeInv, Top
<1> QED
  BY <1>3, <1>4, <1>5, <1>6, <1>8, <1>9, <1>10, <1>11, <1>12, <1>13 DEF Next

(* A default is evaluated in the context of the parameters before it, and  *)
(* they reach the body as they were then.                                  *)
THEOREM DefaultsSeeTheParameters == Spec => []DefaultSawWhatTheBodyGets
<1>1. Init => ScopeInv
  BY DEF Init, ScopeInv
<1>2. ScopeInv => DefaultSawWhatTheBodyGets
  BY DEF ScopeInv, IsPrefix, DefaultSawWhatTheBodyGets
<1> QED
  BY <1>1, <1>2, ScopeStep, Invariance, PTL DEF Spec

-----------------------------------------------------------------------------
(***************************************************************************)
(* Refinement of DefaultsInOrder.  The bookkeeping that makes it go        *)
(* through: what the innermost pack binds is exactly what the caller gave  *)
(* and the defaults evaluated so far, which are those of the missing       *)
(* parameters the chain has passed.                                        *)
(***************************************************************************)

CallerGave(key) == Bound(callerPack, key)

Evaluated(key) == \E e \in DOMAIN evaluated : evaluated[e].key = key

OriginOf(key) == IF CallerGave(key) THEN "caller" ELSE "default"

(* How many optional parameters are settled.                               *)
Reached == IF Top.fn = "dispatch_1" THEN Top.n + 1 ELSE Top.n

OrderInv ==
  outcome = "running" =>
    /\ \A q \in DOMAIN sig.opt :
         Evaluated(sig.opt[q]) <=> q <= Reached /\ ~CallerGave(sig.opt[q])
    /\ \A key : Bound(Top.args, key) <=> CallerGave(key) \/ Evaluated(key)
    /\ \A m \in DOMAIN Top.args : Top.args[m].origin = OriginOf(Top.args[m].key)

(* An evaluation adds the next keyword to those evaluated.                 *)
LEMMA EvaluationKeys ==
  ASSUME TypeInv, evaluated' = Evaluation
  PROVE  /\ \A key : Evaluated(key)' <=> Evaluated(key) \/ key = NextKey
         /\ [e \in DOMAIN evaluated' |-> evaluated'[e].key] =
              Append([e \in DOMAIN evaluated |-> evaluated[e].key], NextKey)
<1> DEFINE x == [key |-> NextKey, scope |-> Top.params]
<1>1. /\ evaluated \in Seq([key: Keys, scope: Seq(Argument)]) /\ x.key = NextKey
      /\ evaluated' = Append(evaluated, x)
  BY DEF TypeInv, Evaluation
<1> HIDE DEF x
<1>2. /\ DOMAIN evaluated' = 1..(Len(evaluated) + 1)
      /\ Len(evaluated) \in Nat /\ DOMAIN evaluated = 1..Len(evaluated)
      /\ evaluated'[Len(evaluated) + 1] = x
      /\ \A e \in DOMAIN evaluated : evaluated'[e] = evaluated[e]
  BY <1>1
<1>3. ASSUME NEW key
      PROVE  Evaluated(key)' <=> Evaluated(key) \/ key = NextKey
  <2>1. Evaluated(key)' <=> \E e \in DOMAIN evaluated' : evaluated'[e].key = key
    BY DEF Evaluated
  <2>2. Evaluated(key) => Evaluated(key)'
    BY <1>2, <2>1 DEF Evaluated
  <2>3. key = NextKey => Evaluated(key)'
    BY <1>1, <1>2, <2>1
  <2>4. ASSUME NEW e \in DOMAIN evaluated', evaluated'[e].key = key
        PROVE  Evaluated(key) \/ key = NextKey
    <3>1. CASE e = Len(evaluated) + 1
      BY <1>1, <1>2, <2>4, <3>1
    <3>2. CASE e \in DOMAIN evaluated
      BY <1>2, <2>4, <3>2 DEF Evaluated
    <3> QED
      BY <1>2, <3>1, <3>2
  <2> QED
    BY <2>1, <2>2, <2>3, <2>4
<1>4. [e \in DOMAIN evaluated' |-> evaluated'[e].key] =
        Append([e \in DOMAIN evaluated |-> evaluated[e].key], NextKey)
  <2> DEFINE n == Len(evaluated)
             old == [e \in 1..n |-> evaluated[e].key]
             new == [e \in 1..(n + 1) |-> evaluated'[e].key]
  <2>1. old \in Seq(Keys \cup {NextKey}) /\ Len(old) = n /\ n \in Nat
    <3>1. \A e \in 1..n : evaluated[e] \in [key: Keys, scope: Seq(Argument)]
      BY <1>1, <1>2, ElementsOf
    <3>2. \A e \in 1..n : evaluated[e].key \in Keys \cup {NextKey}
      BY <3>1
    <3> QED
      BY <1>2, <3>2
  <2>2. \A e \in 1..n : new[e] = old[e]
    BY <1>2
  <2>3. new[n + 1] = NextKey
    BY <1>1, <1>2
  <2>4. DOMAIN new = 1..(n + 1) /\ new = [e \in 1..(n + 1) |-> new[e]]
    OBVIOUS
  <2>5. /\ old = [e \in DOMAIN evaluated |-> evaluated[e].key]
        /\ new = [e \in DOMAIN evaluated' |-> evaluated'[e].key]
    BY <1>2
  <2> HIDE DEF old, new, n
  <2>6. /\ DOMAIN Append(old, NextKey) = 1..(n + 1)
        /\ \A e \in 1..n : Append(old, NextKey)[e] = old[e]
        /\ Append(old, NextKey)[n + 1] = NextKey
        /\ Append(old, NextKey) = [e \in 1..(n + 1) |-> Append(old, NextKey)[e]]
    <3>1. NextKey \in Keys \cup {NextKey}
      OBVIOUS
    <3> QED
      BY <2>1, <3>1, AppendedElements
  <2>7. \A e \in 1..(n + 1) : e \in 1..n \/ e = n + 1
    BY <2>1
  <2>8. new = Append(old, NextKey)
    BY <2>2, <2>3, <2>4, <2>6, <2>7
  <2> QED
    BY <2>5, <2>8
<1> QED
  BY <1>3, <1>4

(* Nothing is evaluated at first.                                          *)
LEMMA OrderInit == Init => OrderInv
<1> SUFFICES ASSUME Init PROVE OrderInv
  OBVIOUS
<1> DEFINE args == [m \in DOMAIN callerPack |-> FromCaller(callerPack[m])]
<1>1. /\ sig \in Signatures /\ evaluated = <<>>
      /\ Top = [fn |-> "impl", n |-> 0, args |-> args, params |-> <<>>]
  BY DEF Init, Top
<1>2. Top.args = args /\ Reached = 0 /\ \A key : ~Evaluated(key)
  BY <1>1 DEF Reached, Evaluated
<1>3. /\ DOMAIN args = DOMAIN callerPack
      /\ \A m \in DOMAIN args :
           args[m].key = callerPack[m].key /\ args[m].origin = "caller"
  BY DEF FromCaller
<1> HIDE DEF args
<1>4. \A key : Bound(args, key) <=> CallerGave(key)
  BY <1>3 DEF Bound, CallerGave
<1>5. \A m \in DOMAIN args : args[m].origin = OriginOf(args[m].key)
  BY <1>3, <1>4 DEF OriginOf, Bound
<1>6. \A q \in DOMAIN sig.opt : ~(q <= 0)
  BY <1>1, SignatureFacts
<1> QED
  BY <1>2, <1>4, <1>5, <1>6 DEF OrderInv

(* A call that hands on the pack as it is.                                 *)
LEMMA SamePackOrder ==
  ASSUME Inv, OrderInv, outcome = "running",
         NEW f, Top' = f, f.args = Top.args,
         \A q \in DOMAIN sig.opt :
           ~CallerGave(sig.opt[q]) => (q <= Reached' <=> q <= Reached),
         UNCHANGED <<sig, callerPack, evaluated>>
  PROVE  OrderInv'
  BY DEF OrderInv, CallerGave, Evaluated, OriginOf, Bound

(* Every step keeps the order of the evaluations.                          *)
LEMMA OrderStep == Inv /\ OrderInv /\ [Next]_vars => OrderInv'
<1> SUFFICES ASSUME Inv, OrderInv, [Next]_vars PROVE OrderInv'
  OBVIOUS
<1>1. /\ stack \in Seq(Frame) /\ Len(stack) \in Nat /\ sig \in Signatures
      /\ DOMAIN sig.opt = 1..Len(sig.opt) /\ Len(sig.opt) \in Nat
  BY SignatureFacts DEF Inv, TypeInv
<1>2. ASSUME NEW f, Call(f)
      PROVE  Top' = f
  BY <1>1, <1>2 DEF Call, Top
<1>3. CASE FrontEnd
  <2> DEFINE params == [p \in DOMAIN sig.req |-> Cast(Lookup(Top.args, sig.req[p]))]
             f == [fn |-> "dispatch_0", n |-> 0, args |-> Top.args, params |-> params]
  <2>1. /\ outcome = "running" /\ Top.fn = "impl" /\ Call(f)
        /\ UNCHANGED <<sig, callerPack, evaluated>>
    BY <1>3 DEF FrontEnd
  <2>2. Top.n = 0
    BY <2>1, TopFacts DEF Shape, Ready
  <2>3. Top' = f
    BY <1>2, <2>1
  <2>4. f.args = Top.args /\ f.n = 0 /\ f.fn = "dispatch_0"
    OBVIOUS
  <2> HIDE DEF f
  <2>5. Reached' = Reached
    BY <2>1, <2>2, <2>3, <2>4 DEF Reached
  <2> QED
    BY <2>1, <2>3, <2>4, <2>5, SamePackOrder
<1>4. CASE ForwardGiven
  <2> DEFINE f == Extended(Top, OptCast(Lookup(Top.args, NextKey)))
  <2>1. /\ outcome = "running" /\ Top.fn = "dispatch_0" /\ Top.n < Len(sig.opt)
        /\ Bound(Top.args, NextKey) /\ Call(f)
        /\ UNCHANGED <<sig, callerPack, evaluated>>
    BY <1>4 DEF ForwardGiven, InDispatch, IsGiven, Extended
  <2>2. Top' = f /\ Top.n \in Nat
    BY <1>2, <2>1, TopFacts
  <2>3. f.args = Top.args /\ f.n = Top.n + 1 /\ f.fn = "dispatch_0"
    BY DEF Extended
  <2> HIDE DEF f
  <2>4. Reached = Top.n /\ Reached' = Top.n + 1
    BY <2>1, <2>2, <2>3 DEF Reached
  <2>5. Top.n + 1 \in DOMAIN sig.opt
    BY <1>1, <2>1, <2>2
  <2>6. CallerGave(sig.opt[Top.n + 1])
    BY <2>1, <2>2, <2>4, <2>5 DEF OrderInv, NextKey
  <2>7. \A q \in DOMAIN sig.opt :
          ~CallerGave(sig.opt[q]) => (q <= Reached' <=> q <= Reached)
    BY <1>1, <2>2, <2>4, <2>6
  <2> QED
    BY <2>1, <2>2, <2>3, <2>7, SamePackOrder
<1>5. CASE FetchDefault
  <2> DEFINE f == Extended(Top, Lookup(Top.args, NextKey))
  <2>1. /\ outcome = "running" /\ Top.fn = "dispatch_1" /\ Call(f)
        /\ UNCHANGED <<sig, callerPack, evaluated>>
    BY <1>5 DEF FetchDefault, InDispatch, Extended
  <2>2. Top' = f
    BY <1>2, <2>1
  <2>3. f.args = Top.args /\ f.n = Top.n + 1 /\ f.fn = "dispatch_0"
    BY DEF Extended
  <2> HIDE DEF f
  <2>4. Reached' = Reached
    BY <2>1, <2>2, <2>3 DEF Reached
  <2> QED
    BY <2>1, <2>2, <2>3, <2>4, SamePackOrder
<1>6. CASE ForwardMissing
  <2> DEFINE f == [Top EXCEPT !.fn = "dispatch_0_default"]
  <2>1. /\ outcome = "running" /\ Top.fn = "dispatch_0" /\ Call(f)
        /\ UNCHANGED <<sig, callerPack, evaluated>>
    BY <1>6 DEF ForwardMissing, InDispatch
  <2>2. Top' = f /\ Top \in Frame
    BY <1>2, <2>1, TopFacts
  <2>3. f.args = Top.args /\ f.n = Top.n /\ f.fn = "dispatch_0_default"
    BY <2>2 DEF Frame
  <2> HIDE DEF f
  <2>4. Reached' = Reached
    BY <2>1, <2>2, <2>3 DEF Reached
  <2> QED
    BY <2>1, <2>2, <2>3, <2>4, SamePackOrder
<1>7. CASE BindDefault
  <2>1. PICK ofTarget \in BOOLEAN :
          Call([Top EXCEPT !.fn = "dispatch_1",
                           !.args = <<DefaultArgument(ofTarget)>> \o @])
    BY <1>7 DEF BindDefault
  <2> DEFINE d == DefaultArgument(ofTarget)
             pack == <<d>> \o Top.args
             f == [Top EXCEPT !.fn = "dispatch_1", !.args = pack]
  <2>2. /\ outcome = "running" /\ Top.fn = "dispatch_0_default"
        /\ Top.n < Len(sig.opt) /\ Call(f) /\ evaluated' = Evaluation
        /\ UNCHANGED <<sig, callerPack>>
    BY <1>7, <2>1 DEF BindDefault, InDispatch
  <2>3. /\ Top' = f /\ Top \in Frame /\ Top.n \in Nat
        /\ Top.args \in Seq(Argument) /\ Len(stack) \in Nat
        /\ ~Bound(Top.args, NextKey)
    BY <1>2, <2>2, TopFacts DEF Shape, Ready, NextKey
  <2>4. NextKey \in Keys /\ Top.n + 1 \in DOMAIN sig.opt /\ NextKey = sig.opt[Top.n + 1]
    BY <1>1, <2>2, <2>3, SignatureFacts DEF NextKey
  <2>5. d \in Argument /\ d.key = NextKey /\ d.origin = "default"
    BY <2>3, <2>4 DEF DefaultArgument, Argument
  <2> HIDE DEF d
  <2>6. /\ DOMAIN pack = 1..(Len(Top.args) + 1)
        /\ pack[1] = d
        /\ \A m \in DOMAIN pack :
             m # 1 => m - 1 \in DOMAIN Top.args /\ pack[m] = Top.args[m - 1]
        /\ \A m \in DOMAIN Top.args :
             m + 1 \in DOMAIN pack /\ pack[m + 1] = Top.args[m]
    BY <2>3, <2>5, PrependFacts
  <2>7. 1 \in DOMAIN pack
    BY <2>3, <2>6
  <2> HIDE DEF pack
  <2>8. f.args = pack /\ f.n = Top.n /\ f.fn = "dispatch_1"
    BY <2>3 DEF Frame
  <2> HIDE DEF f
  <2>9. Reached = Top.n /\ Reached' = Top.n + 1 /\ Top'.args = pack
    BY <2>2, <2>3, <2>8 DEF Reached
  <2>10. \A key : Evaluated(key)' <=> Evaluated(key) \/ key = NextKey
    BY <2>2, EvaluationKeys DEF Inv
  <2>11. ~CallerGave(NextKey)
    BY <2>2, <2>3 DEF OrderInv
  <2>12. \A q \in DOMAIN sig.opt :
           Evaluated(sig.opt[q])' <=> q <= Top.n + 1 /\ ~CallerGave(sig.opt[q])
    <3> SUFFICES ASSUME NEW q \in DOMAIN sig.opt
                 PROVE  Evaluated(sig.opt[q])' <=>
                          q <= Top.n + 1 /\ ~CallerGave(sig.opt[q])
      OBVIOUS
    <3>1. Evaluated(sig.opt[q]) <=> q <= Top.n /\ ~CallerGave(sig.opt[q])
      BY <2>2, <2>9 DEF OrderInv
    <3>2. Evaluated(sig.opt[q])' <=> Evaluated(sig.opt[q]) \/ sig.opt[q] = NextKey
      <4> DEFINE k == sig.opt[q]
      <4>1. k' = k
        BY <2>2
      <4> QED
        BY <2>2, <2>10, <4>1 DEF Evaluated
    <3>3. sig.opt[q] = NextKey <=> q = Top.n + 1
      BY <1>1, <2>4, SignaturesAssumption
    <3>4. q <= Top.n + 1 <=> q <= Top.n \/ q = Top.n + 1
      BY <1>1, <2>3
    <3> QED
      BY <2>4, <2>11, <3>1, <3>2, <3>3, <3>4
  <2>13. \A key : Bound(pack, key) <=> CallerGave(key) \/ Evaluated(key)'
    <3>1. \A key : Bound(pack, key) <=> Bound(Top.args, key) \/ key = NextKey
      BY <2>5, <2>6, <2>7 DEF Bound
    <3> QED
      BY <2>2, <2>10, <3>1 DEF OrderInv
  <2>14. \A m \in DOMAIN pack : pack[m].origin = OriginOf(pack[m].key)
    <3> SUFFICES ASSUME NEW m \in DOMAIN pack
                 PROVE  pack[m].origin = OriginOf(pack[m].key)
      OBVIOUS
    <3>1. CASE m = 1
      BY <2>5, <2>6, <2>11, <3>1 DEF OriginOf
    <3>2. CASE m # 1
      BY <2>2, <2>6, <3>2 DEF OrderInv
    <3> QED
      BY <3>1, <3>2
  <2>15. \A key : CallerGave(key)' <=> CallerGave(key)
    BY <2>2 DEF CallerGave, Bound
  <2> QED
    BY <2>2, <2>9, <2>12, <2>13, <2>14, <2>15 DEF OrderInv, OriginOf, Bound
<1>8. CASE DefaultThrows \/ ConversionThrows \/ RunBody \/ Return
  BY <1>8 DEF DefaultThrows, ConversionThrows, RunBody, Return, OrderInv
<1>9. CASE UNCHANGED vars
  BY <1>9 DEF vars, OrderInv, Top, Reached, CallerGave, Evaluated, OriginOf, Bound
<1> QED
  BY <1>3, <1>4, <1>5, <1>6, <1>7, <1>8, <1>9 DEF Next

-----------------------------------------------------------------------------
(* The steps of the chain as steps of DefaultsInOrder.                     *)

(* What is given, evaluated and declared is the same in both               *)
(* specifications.                                                         *)
LEMMA MappedKeys ==
  /\ \A key : DIO!Given(key) <=> CallerGave(key)
  /\ \A key : DIO!Done(key) <=> Evaluated(key)
  /\ \A p : DIO!Parameter(p) = Parameter(p)
  BY DEF DIO!Given, DIO!Done, DIO!Parameter, CallerGave, Evaluated, Bound, Parameter

(* Evaluating a default, whether it throws or not, is the abstract step.   *)
LEMMA EvaluateStep ==
  ASSUME Inv, OrderInv, InDispatch("dispatch_0_default"),
         evaluated' = Evaluation, outcome' \in {"running", "threw"},
         UNCHANGED <<sig, callerPack, received>>
  PROVE  DIO!Evaluate
<1>1. /\ outcome = "running" /\ Top.fn = "dispatch_0_default"
      /\ Top.n < Len(sig.opt) /\ Top.n \in Nat
      /\ ~Bound(Top.args, NextKey)
  BY TopFacts DEF InDispatch, Shape, Ready, NextKey
<1>2. /\ DOMAIN sig.opt = 1..Len(sig.opt) /\ Len(sig.opt) \in Nat
  BY SignatureFacts DEF Inv, TypeInv
<1> DEFINE q == Top.n + 1
<1>3. q \in DOMAIN sig.opt /\ NextKey = sig.opt[q]
  BY <1>1, <1>2 DEF NextKey
<1>4. \A r \in 1..(q - 1) : r \in DOMAIN sig.opt /\ r <= Reached
  BY <1>1, <1>2 DEF Reached
<1>5. /\ ~CallerGave(sig.opt[q]) /\ ~Evaluated(sig.opt[q])
      /\ \A r \in 1..(q - 1) : CallerGave(sig.opt[r]) \/ Evaluated(sig.opt[r])
  BY <1>1, <1>3, <1>4 DEF OrderInv
<1>6. DIO!IsNextMissing(q)
  BY <1>5, MappedKeys DEF DIO!IsNextMissing
<1>7. [e \in DOMAIN evaluated |-> evaluated[e].key]' =
        Append([e \in DOMAIN evaluated |-> evaluated[e].key], sig.opt[q])
  BY <1>3, EvaluationKeys DEF Inv
<1>8. UNCHANGED [p \in DOMAIN received |->
                   [key |-> received[p].key, origin |-> received[p].origin]]
  OBVIOUS
<1> HIDE DEF q
<1> QED
  BY <1>1, <1>3, <1>6, <1>7, <1>8 DEF DIO!Evaluate

(* The body is run as the abstract specification calls it.                 *)
LEMMA CallStep == Inv /\ OrderInv /\ RunBody => DIO!Call
<1> SUFFICES ASSUME Inv, OrderInv, RunBody PROVE DIO!Call
  OBVIOUS
<1>1. /\ outcome = "running" /\ Top.fn = "dispatch_0" /\ Top.n = Len(sig.opt)
      /\ received' = Top.params /\ outcome' = "called"
      /\ UNCHANGED <<sig, callerPack, evaluated>>
  BY DEF RunBody
<1>2. /\ Top.params \in Seq(Argument) /\ Names(sig, Top)
  BY <1>1, TopFacts DEF Shape
<1>3. DOMAIN sig.opt = 1..Len(sig.opt) /\ Reached = Len(sig.opt)
  BY <1>1, SignatureFacts DEF Inv, TypeInv, Reached
<1>4. \A q \in DOMAIN sig.opt : CallerGave(sig.opt[q]) \/ Evaluated(sig.opt[q])
  BY <1>1, <1>3 DEF OrderInv
<1>5. DOMAIN Top.params = 1..(Len(sig.req) + Len(sig.opt))
  <2>1. Len(Top.params) = Len(sig.req) + Len(sig.opt)
    BY <1>1, <1>2 DEF Names
  <2>2. DOMAIN Top.params = 1..Len(Top.params)
    BY <1>2
  <2> QED
    BY <2>1, <2>2
<1>6. ASSUME NEW p \in DOMAIN Top.params
      PROVE  /\ Top.params[p].key = Parameter(p)
             /\ Top.params[p].origin = OriginOf(Parameter(p))
  <2>1. Top.params[p].key = Parameter(p) /\ InPack(Top.args, Top.params[p])
    BY <1>2 DEF Names, Parameter
  <2> QED
    BY <1>1, <2>1 DEF OrderInv, InPack
<1>7. [p \in DOMAIN received |->
         [key |-> received[p].key, origin |-> received[p].origin]]' =
      [p \in 1..(Len(sig.req) + Len(sig.opt)) |->
         [key |-> Parameter(p), origin |-> OriginOf(Parameter(p))]]
  BY <1>1, <1>5, <1>6
<1>8. UNCHANGED [e \in DOMAIN evaluated |-> evaluated[e].key]
  BY <1>1
<1> QED
  BY <1>1, <1>4, <1>7, <1>8, MappedKeys DEF DIO!Call, OriginOf

(* Every step of the chain is an abstract step or a stutter.               *)
LEMMA RefinementStep == Inv /\ OrderInv /\ [Next]_vars => [DIO!Next]_(DIO!vars)
<1> SUFFICES ASSUME Inv, OrderInv, [Next]_vars
             PROVE  DIO!Next \/ UNCHANGED DIO!vars
  OBVIOUS
<1>1. ASSUME UNCHANGED <<sig, callerPack, evaluated, received, outcome>>
      PROVE  UNCHANGED DIO!vars
  BY <1>1 DEF DIO!vars
<1>2. CASE \/ FrontEnd \/ ForwardGiven \/ ForwardMissing \/ FetchDefault \/ Return
           \/ UNCHANGED vars
  BY <1>1, <1>2 DEF FrontEnd, ForwardGiven, ForwardMissing, FetchDefault, Return, vars
<1>3. CASE BindDefault
  <2>1. /\ InDispatch("dispatch_0_default") /\ evaluated' = Evaluation
        /\ outcome' \in {"running", "threw"}
        /\ UNCHANGED <<sig, callerPack, received>>
    BY <1>3 DEF BindDefault, InDispatch
  <2> QED
    BY <2>1, EvaluateStep DEF DIO!Next
<1>4. CASE DefaultThrows
  <2>1. /\ InDispatch("dispatch_0_default") /\ evaluated' = Evaluation
        /\ outcome' \in {"running", "threw"}
        /\ UNCHANGED <<sig, callerPack, received>>
    BY <1>4 DEF DefaultThrows
  <2> QED
    BY <2>1, EvaluateStep DEF DIO!Next
<1>5. CASE ConversionThrows
  <2>1. /\ outcome = "running" /\ outcome' = "threw"
        /\ UNCHANGED <<sig, callerPack, evaluated, received>>
    BY <1>5 DEF ConversionThrows
  <2>2. DIO!Throw
    BY <2>1 DEF DIO!Throw
  <2> QED
    BY <2>2 DEF DIO!Next
<1>6. CASE RunBody
  BY <1>6, CallStep DEF DIO!Next
<1> QED
  BY <1>2, <1>3, <1>4, <1>5, <1>6 DEF Next

(* The chain starts as the abstract specification does.                    *)
LEMMA RefinementInit == Init => DIO!Init
<1> SUFFICES ASSUME Init PROVE DIO!Init
  OBVIOUS
<1>1. /\ sig \in Signatures /\ callerPack \in CallerPacks
      /\ \A p \in DOMAIN sig.req : CallerGave(sig.req[p])
      /\ evaluated = <<>> /\ received = <<>> /\ outcome = "running"
  BY DEF Init, CallerGave
<1>2. /\ [e \in DOMAIN evaluated |-> evaluated[e].key] = <<>>
      /\ [p \in DOMAIN received |->
            [key |-> received[p].key, origin |-> received[p].origin]] = <<>>
  BY <1>1
<1> QED
  BY <1>1, <1>2, MappedKeys DEF DIO!Init

(* The generated functions implement the specification of defaults: each   *)
(* missing one evaluated once, in order, and the body called with the      *)
(* caller's arguments where there are any.                                 *)
THEOREM DefaultsAreInOrder == Spec => ImplementsDefaultsInOrder
  BY InitEstablishes, StepKeeps, OrderInit, OrderStep, RefinementInit, RefinementStep, PTL
  DEF Spec, DIO!Spec, ImplementsDefaultsInOrder

-----------------------------------------------------------------------------
(***************************************************************************)
(* Nesting and termination.  Both follow from where the innermost call is  *)
(* in the chain: every call made is the next link of it.                   *)
(***************************************************************************)

(* A call adds a frame, and it is the innermost.                           *)
LEMMA CallPushes ==
  ASSUME stack \in Seq(Frame), NEW f, Call(f)
  PROVE  Top' = f /\ Len(stack') = Len(stack) + 1
<1>1. stack \in Seq(Frame \cup {f}) /\ f \in Frame \cup {f}
  OBVIOUS
<1>2. Append(stack, f)[Len(stack) + 1] = f /\ Len(Append(stack, f)) = Len(stack) + 1
  BY <1>1
<1> QED BY <1>2 DEF Call, Top

(* The links of the chain: which function calls which, for which parameter.*)
Link ==
  /\ sig' = sig /\ outcome = "running" /\ outcome' = "running"
  /\ Len(stack') = Len(stack) + 1
  /\ \/ /\ Top.fn = "impl" /\ Top'.fn = "dispatch_0" /\ Top'.n = 0
        /\ evaluated' = evaluated
     \/ /\ Top.fn \in {"dispatch_0", "dispatch_1"} /\ Top.n < Len(sig.opt)
        /\ Top'.fn = "dispatch_0" /\ Top'.n = Top.n + 1
        /\ evaluated' = evaluated
     \/ /\ Top.fn = "dispatch_0" /\ Top.n < Len(sig.opt)
        /\ Top'.fn = "dispatch_0_default" /\ Top'.n = Top.n
        /\ evaluated' = evaluated
     \/ /\ Top.fn = "dispatch_0_default" /\ Top.n < Len(sig.opt)
        /\ Top'.fn = "dispatch_1" /\ Top'.n = Top.n
        /\ Len(evaluated') = Len(evaluated) + 1

(* The other steps: the call ends, at the latest after one more evaluation,*)
(* or has ended and unwinds.                                               *)
Ending ==
  /\ sig' = sig /\ outcome = "running" /\ outcome' # "running" /\ stack' = stack

Unwinding ==
  /\ sig' = sig /\ outcome # "running" /\ outcome' = outcome
  /\ Len(stack) \in Nat \ {0} /\ Len(stack') = Len(stack) - 1

(* An evaluation is recorded at the end.                                   *)
LEMMA EvaluationGrows ==
  ASSUME TypeInv, evaluated' = Evaluation
  PROVE  Len(evaluated') = Len(evaluated) + 1
<1> DEFINE S == [key: Keys, scope: Seq(Argument)]
           x == [key |-> NextKey, scope |-> Top.params]
<1>1. evaluated \in Seq(S) /\ evaluated' = Append(evaluated, x)
  BY DEF TypeInv, Evaluation
<1> HIDE DEF S, x
<1>2. evaluated \in Seq(S \cup {x}) /\ x \in S \cup {x}
  BY <1>1
<1> QED BY <1>1, <1>2

(* A sequence without its last element is one shorter.                     *)
LEMMA ShorterByOne ==
  ASSUME NEW S, NEW s \in Seq(S), Len(s) # 0
  PROVE  Len(SubSeq(s, 1, Len(s) - 1)) = Len(s) - 1
<1> DEFINE t == SubSeq(s, 1, Len(s) - 1)
           n == Len(s) - 1
<1>1. n \in Nat /\ 1 \in Int /\ n \in Int /\ \A j \in 1 .. n : s[j] \in S
  OBVIOUS
<1>2. Len(t) = IF 1 <= n THEN n - 1 + 1 ELSE 0
  BY <1>1, SubSeqProperties
<1> HIDE DEF t, n
<1>3. Len(t) = n
  BY <1>1, <1>2
<1> QED BY <1>3 DEF t, n

(* Every step is one of the three.                                         *)
LEMMA StepIsLink == Inv /\ Next => Link \/ Ending \/ Unwinding
<1> SUFFICES ASSUME Inv, Next PROVE Link \/ Ending \/ Unwinding
  OBVIOUS
<1>1. stack \in Seq(Frame) /\ TypeInv
  BY DEF Inv, TypeInv
<1>2. CASE FrontEnd
  <2> DEFINE f == [fn     |-> "dispatch_0",
                   n      |-> 0,
                   args   |-> Top.args,
                   params |-> [p \in DOMAIN sig.req |-> Cast(Lookup(Top.args, sig.req[p]))]]
  <2>1. /\ outcome = "running" /\ Top.fn = "impl" /\ Call(f)
        /\ UNCHANGED <<sig, evaluated, outcome>>
    BY <1>2 DEF FrontEnd
  <2>2. Top' = f /\ Len(stack') = Len(stack) + 1
    BY <1>1, <2>1, CallPushes
  <2>3. f.fn = "dispatch_0" /\ f.n = 0
    OBVIOUS
  <2> HIDE DEF f
  <2> QED BY <2>1, <2>2, <2>3 DEF Link
<1>3. CASE ForwardGiven \/ FetchDefault
  <2>1. PICK c : Call(Extended(Top, c))
    BY <1>3 DEF ForwardGiven, FetchDefault, Extended
  <2>2. /\ outcome = "running" /\ Top.fn \in {"dispatch_0", "dispatch_1"}
        /\ Top.n < Len(sig.opt) /\ UNCHANGED <<sig, evaluated, outcome>>
    BY <1>3 DEF ForwardGiven, FetchDefault, InDispatch
  <2>3. Top' = Extended(Top, c) /\ Len(stack') = Len(stack) + 1
    BY <1>1, <2>1, CallPushes
  <2>4. Extended(Top, c).fn = "dispatch_0" /\ Extended(Top, c).n = Top.n + 1
    BY DEF Extended
  <2> QED BY <2>2, <2>3, <2>4 DEF Link
<1>4. CASE ForwardMissing
  <2> DEFINE f == [Top EXCEPT !.fn = "dispatch_0_default"]
  <2>1. /\ outcome = "running" /\ Top.fn = "dispatch_0" /\ Top.n < Len(sig.opt) /\ Call(f)
        /\ UNCHANGED <<sig, evaluated, outcome>>
    BY <1>4 DEF ForwardMissing, InDispatch
  <2>2. Top' = f /\ Len(stack') = Len(stack) + 1
    BY <1>1, <2>1, CallPushes
  <2>3. f.fn = "dispatch_0_default" /\ f.n = Top.n
    BY <2>1, TopFacts DEF Frame
  <2> HIDE DEF f
  <2> QED BY <2>1, <2>2, <2>3 DEF Link
<1>5. CASE BindDefault
  <2>1. PICK ofTarget \in BOOLEAN :
          Call([Top EXCEPT !.fn = "dispatch_1",
                           !.args = <<DefaultArgument(ofTarget)>> \o @])
    BY <1>5 DEF BindDefault
  <2> DEFINE f == [Top EXCEPT !.fn = "dispatch_1",
                              !.args = <<DefaultArgument(ofTarget)>> \o @]
  <2>2. /\ outcome = "running" /\ Top.fn = "dispatch_0_default" /\ Top.n < Len(sig.opt)
        /\ evaluated' = Evaluation /\ UNCHANGED <<sig, outcome>>
    BY <1>5 DEF BindDefault, InDispatch
  <2>3. Top' = f /\ Len(stack') = Len(stack) + 1
    BY <1>1, <2>1, CallPushes
  <2>4. f.fn = "dispatch_1" /\ f.n = Top.n
    BY <2>2, TopFacts DEF Frame
  <2>5. Len(evaluated') = Len(evaluated) + 1
    BY <1>1, <2>2, EvaluationGrows
  <2> HIDE DEF f
  <2> QED BY <2>2, <2>3, <2>4, <2>5 DEF Link
<1>6. CASE DefaultThrows \/ ConversionThrows \/ RunBody
  BY <1>6 DEF DefaultThrows, ConversionThrows, RunBody, InDispatch, Ending
<1>7. CASE Return
  <2>1. /\ outcome # "running" /\ stack # <<>>
        /\ stack' = SubSeq(stack, 1, Len(stack) - 1)
        /\ UNCHANGED <<sig, outcome>>
    BY <1>7 DEF Return
  <2>2. Len(stack) \in Nat \ {0}
    BY <1>1, <2>1
  <2>3. Len(SubSeq(stack, 1, Len(stack) - 1)) = Len(stack) - 1
    BY <1>1, <2>2, ShorterByOne
  <2> QED BY <2>1, <2>2, <2>3 DEF Unwinding
<1> QED BY <1>2, <1>3, <1>4, <1>5, <1>6, <1>7 DEF Next

(* How deep the innermost call is, by its place in the chain; and when the *)
(* call has ended, that the stack was never deeper than the chain is long. *)
DepthAt(fn, n, defaults, depth, opt) ==
  /\ fn = "impl" => depth = 1 /\ defaults = 0
  /\ fn = "dispatch_0" => depth = 2 + n + 2 * defaults /\ defaults <= n
  /\ fn = "dispatch_0_default" =>
       depth = 3 + n + 2 * defaults /\ defaults <= n /\ n < opt
  /\ fn = "dispatch_1" =>
       depth = 2 + n + 2 * defaults /\ defaults <= n + 1 /\ n < opt

Depth == DepthAt(Top.fn, Top.n, Len(evaluated), Len(stack), Len(sig.opt))

DepthInv ==
  IF outcome = "running" THEN Depth ELSE Len(stack) <= 3 * Len(sig.opt) + 2

(* The links of the chain, in numbers.                                     *)
LEMMA DepthOfLink ==
  ASSUME NEW fn, NEW n \in Nat, NEW defaults \in Nat, NEW depth \in Nat, NEW opt \in Nat,
         NEW fn1, NEW n1, NEW defaults1, DepthAt(fn, n, defaults, depth, opt),
         \/ fn = "impl" /\ fn1 = "dispatch_0" /\ n1 = 0 /\ defaults1 = defaults
         \/ /\ fn \in {"dispatch_0", "dispatch_1"} /\ n < opt
            /\ fn1 = "dispatch_0" /\ n1 = n + 1 /\ defaults1 = defaults
         \/ /\ fn = "dispatch_0" /\ n < opt
            /\ fn1 = "dispatch_0_default" /\ n1 = n /\ defaults1 = defaults
         \/ /\ fn = "dispatch_0_default" /\ n < opt
            /\ fn1 = "dispatch_1" /\ n1 = n /\ defaults1 = defaults + 1
  PROVE  DepthAt(fn1, n1, defaults1, depth + 1, opt)
  BY DEF DepthAt

(* Wherever the innermost call is, it is not deeper than the chain is long.*)
LEMMA DepthOfChain ==
  ASSUME NEW fn \in FunctionNames, NEW n \in Nat, NEW defaults \in Nat,
         NEW depth \in Nat, NEW opt \in Nat, n <= opt, DepthAt(fn, n, defaults, depth, opt)
  PROVE  depth <= 3 * opt + 2
  BY DEF DepthAt, FunctionNames

(* Where the innermost call is in the chain, in numbers.                   *)
LEMMA PlaceInChain ==
  ASSUME Inv, outcome = "running"
  PROVE  /\ Len(stack) \in Nat /\ Len(evaluated) \in Nat /\ Len(sig.opt) \in Nat
         /\ Top.n \in Nat
         /\ Top.fn \in FunctionNames
         /\ Top.fn = "impl" => Top.n = 0
         /\ Top.n <= Len(sig.opt)
<1>1. /\ Len(stack) \in Nat /\ Top \in Frame /\ Top.n \in Nat /\ Shape(sig, Top)
      /\ sig \in Signatures
  BY TopFacts DEF Inv, TypeInv
<1>2. Len(sig.opt) \in Nat /\ Len(evaluated) \in Nat /\ Top.fn \in FunctionNames
  <2>1. Len(evaluated) \in Nat
    BY DEF Inv, TypeInv
  <2>2. Top.fn \in FunctionNames
    BY <1>1 DEF Frame
  <2> QED BY <1>1, <2>1, <2>2, SignatureFacts
<1>3. CASE Top.fn = "impl"
  BY <1>1, <1>2, <1>3 DEF Shape, Ready
<1>4. CASE Top.fn # "impl"
  <2>1. Top.n \in 0..Len(sig.opt)
    BY <1>1, <1>4 DEF Shape, Names
  <2> QED BY <1>1, <1>2, <1>4, <2>1
<1> QED BY <1>1, <1>2, <1>3, <1>4

(* In the invariant the chain bounds the stack.                            *)
LEMMA DepthBounds ==
  Inv /\ DepthInv => Len(stack) <= 3 * Len(sig.opt) + 2
<1> SUFFICES ASSUME Inv, Depth, outcome = "running"
             PROVE  Len(stack) <= 3 * Len(sig.opt) + 2
  BY DEF DepthInv
<1>1. /\ Len(stack) \in Nat /\ Len(evaluated) \in Nat /\ Len(sig.opt) \in Nat
      /\ Top.n \in Nat /\ Top.fn \in FunctionNames /\ Top.n <= Len(sig.opt)
  BY PlaceInChain
<1> QED BY <1>1, DepthOfChain DEF Depth

(* Every step keeps account of the depth.                                  *)
LEMMA DepthStep == Inv /\ DepthInv /\ [Next]_vars => DepthInv'
<1> SUFFICES ASSUME Inv, DepthInv, [Next]_vars PROVE DepthInv'
  OBVIOUS
<1>1. CASE Link
  <2>1. Depth
    BY <1>1 DEF Link, DepthInv
  <2>2. /\ Len(stack) \in Nat /\ Len(evaluated) \in Nat /\ Len(sig.opt) \in Nat
        /\ Top.n \in Nat
    BY <1>1, PlaceInChain DEF Link
  <2>3. DepthAt(Top'.fn, Top'.n, Len(evaluated'), Len(stack) + 1, Len(sig.opt))
    BY <1>1, <2>1, <2>2, DepthOfLink DEF Depth, Link
  <2>4. Depth'
    BY <1>1, <2>3 DEF Depth, Link
  <2> QED BY <1>1, <2>4 DEF Link, DepthInv
<1>2. CASE Ending
  BY <1>2, DepthBounds DEF Ending, DepthInv
<1>3. CASE Unwinding
  <2>1. Len(sig.opt) \in Nat
    BY SignatureFacts DEF Inv, TypeInv
  <2> QED BY <1>3, <2>1 DEF Unwinding, DepthInv
<1>4. CASE UNCHANGED vars
  BY <1>4 DEF vars, DepthInv, Depth, Top
<1> QED BY <1>1, <1>2, <1>3, <1>4, StepIsLink

(* The calls nest exactly as deep as the defaults need it, and no deeper   *)
(* than three calls for each optional parameter.                           *)
THEOREM NestingBound == Spec => []NestingIsBounded
<1>1. Init => DepthInv
  <2> SUFFICES ASSUME Init PROVE DepthInv
    OBVIOUS
  <2> DEFINE f == [fn     |-> "impl",
                   n      |-> 0,
                   args   |-> [m \in DOMAIN callerPack |-> FromCaller(callerPack[m])],
                   params |-> <<>>]
  <2>1. stack = <<f>> /\ f.fn = "impl" /\ evaluated = <<>> /\ outcome = "running"
    BY DEF Init
  <2> HIDE DEF f
  <2>2. Len(stack) = 1 /\ Top.fn = "impl" /\ Len(evaluated) = 0
    BY <2>1 DEF Top
  <2> QED BY <2>1, <2>2 DEF DepthInv, Depth, DepthAt
<1>2. Inv /\ DepthInv => NestingIsBounded
  BY DepthBounds DEF DepthInv, Depth, DepthAt, NestingIsBounded
<1> QED BY <1>1, <1>2, DepthStep, Invariance, PTL DEF Spec

-----------------------------------------------------------------------------
(* A triple of numbers descends with the first that changes.               *)
LEMMA TripleDescends ==
  ASSUME NEW a \in Nat, NEW b \in Nat, NEW c \in Nat,
         NEW a1 \in Nat, NEW b1 \in Nat, NEW c1 \in Nat,
         a1 < a \/ (a1 = a /\ b1 < b) \/ (a1 = a /\ b1 = b /\ c1 < c)
  PROVE  Descends(3, <<a, b, c>>, <<a1, b1, c1>>)
<1>1. <<a, b, c>> \in [1 .. 3 -> Nat] /\ <<a1, b1, c1>> \in [1 .. 3 -> Nat]
  OBVIOUS
<1>2. CASE a1 < a
  <2>1. \A l \in 1 .. (1 - 1) : <<a1, b1, c1>>[l] = <<a, b, c>>[l]
    OBVIOUS
  <2> QED BY <1>1, <1>2, <2>1 DEF Descends
<1>3. CASE a1 = a /\ b1 < b
  <2>1. \A l \in 1 .. (2 - 1) : <<a1, b1, c1>>[l] = <<a, b, c>>[l]
    BY <1>3
  <2> QED BY <1>1, <1>3, <2>1 DEF Descends
<1>4. CASE a1 = a /\ b1 = b /\ c1 < c
  <2>1. \A l \in 1 .. (3 - 1) : <<a1, b1, c1>>[l] = <<a, b, c>>[l]
    BY <1>4
  <2> QED BY <1>1, <1>4, <2>1 DEF Descends
<1> QED BY <1>2, <1>3, <1>4

(* The links left, by the place of the innermost call.                     *)
LinksLeft(fn, n, opt) ==
  <<1,
    IF fn = "impl" THEN opt + 1 ELSE opt - n,
    CASE fn = "dispatch_0_default" -> 1
      [] fn = "dispatch_1"         -> 0
      [] OTHER                     -> 2>>

(* Every link leaves fewer.                                                *)
LEMMA LinkDescends ==
  ASSUME NEW fn \in FunctionNames, NEW n \in Nat, NEW opt \in Nat, n <= opt,
         NEW fn1 \in FunctionNames, NEW n1 \in Nat, n1 <= opt,
         \/ fn = "impl" /\ fn1 = "dispatch_0" /\ n1 = 0
         \/ /\ fn \in {"dispatch_0", "dispatch_1"} /\ n < opt
            /\ fn1 = "dispatch_0" /\ n1 = n + 1
         \/ fn = "dispatch_0" /\ fn1 = "dispatch_0_default" /\ n1 = n
         \/ fn = "dispatch_0_default" /\ fn1 = "dispatch_1" /\ n1 = n
  PROVE  Descends(3, LinksLeft(fn, n, opt), LinksLeft(fn1, n1, opt))
<1>1. LinksLeft(fn1, n1, opt) =
        <<1, opt - n1, IF fn1 = "dispatch_0_default" THEN 1
                       ELSE IF fn1 = "dispatch_1" THEN 0 ELSE 2>>
  BY DEF LinksLeft
<1>2. CASE fn = "impl"
  <2>1. LinksLeft(fn, n, opt) = <<1, opt + 1, 2>>
    BY <1>2 DEF LinksLeft
  <2> QED BY <1>1, <1>2, <2>1, TripleDescends
<1>3. CASE fn = "dispatch_0"
  <2>1. LinksLeft(fn, n, opt) = <<1, opt - n, 2>>
    BY <1>3 DEF LinksLeft
  <2> QED BY <1>1, <1>3, <2>1, TripleDescends
<1>4. CASE fn = "dispatch_0_default"
  <2>1. LinksLeft(fn, n, opt) = <<1, opt - n, 1>>
    BY <1>4 DEF LinksLeft
  <2> QED BY <1>1, <1>4, <2>1, TripleDescends
<1>5. CASE fn = "dispatch_1"
  <2>1. LinksLeft(fn, n, opt) = <<1, opt - n, 0>>
    BY <1>5 DEF LinksLeft
  <2> QED BY <1>1, <1>5, <2>1, TripleDescends
<1> QED BY <1>2, <1>3, <1>4, <1>5 DEF FunctionNames

(* The call runs its body or throws after finitely many steps, and has     *)
(* unwound after finitely many more, if only it goes on.                   *)
THEOREM DispatchEnds == Spec => DispatchDescends
<1>1. ASSUME Inv, Inv', Next
      PROVE  Descends(3, CallsLeft, CallsLeft')
  <2>1. CASE Link
    <3>1. /\ outcome = "running" /\ outcome' = "running" /\ sig' = sig
      BY <2>1 DEF Link
    <3>2. /\ CallsLeft = LinksLeft(Top.fn, Top.n, Len(sig.opt))
          /\ CallsLeft' = LinksLeft(Top'.fn, Top'.n, Len(sig.opt))
      BY <3>1 DEF CallsLeft, LinksLeft
    <3>3. /\ Top.fn \in FunctionNames /\ Top.n \in Nat /\ Len(sig.opt) \in Nat
          /\ Top.n <= Len(sig.opt)
      BY <1>1, <3>1, PlaceInChain
    <3>4. (Inv /\ outcome = "running" =>
             Top.fn \in FunctionNames /\ Top.n \in Nat /\ Top.n <= Len(sig.opt))'
      BY PlaceInChain, PTL
    <3>5. Top'.fn \in FunctionNames /\ Top'.n \in Nat /\ Top'.n <= Len(sig.opt)
      BY <1>1, <3>1, <3>4
    <3> QED BY <2>1, <3>2, <3>3, <3>5, LinkDescends DEF Link
  <2>2. CASE Ending
    <3>1. outcome = "running" /\ outcome' # "running" /\ stack' = stack
      BY <2>2 DEF Ending
    <3>2. /\ Top.fn \in FunctionNames /\ Top.n \in Nat /\ Len(sig.opt) \in Nat
          /\ Top.n <= Len(sig.opt) /\ Len(stack) \in Nat
      BY <1>1, <3>1, PlaceInChain
    <3>3. CallsLeft' = <<0, 0, Len(stack)>>
      BY <3>1 DEF CallsLeft
    <3>4. \E b \in Nat, c \in Nat : CallsLeft = <<1, b, c>>
      <4> DEFINE b == IF Top.fn = "impl" THEN Len(sig.opt) + 1 ELSE Len(sig.opt) - Top.n
                 c == CASE Top.fn = "dispatch_0_default" -> 1
                        [] Top.fn = "dispatch_1"         -> 0
                        [] OTHER                         -> 2
      <4>1. CallsLeft = <<1, b, c>>
        BY <3>1 DEF CallsLeft
      <4>2. b \in Nat /\ c \in Nat
        BY <3>2
      <4> HIDE DEF b, c
      <4> QED BY <4>1, <4>2
    <3> QED BY <3>2, <3>3, <3>4, TripleDescends
  <2>3. CASE Unwinding
    <3>1. /\ Len(stack) \in Nat \ {0} /\ Len(stack') = Len(stack) - 1
          /\ CallsLeft = <<0, 0, Len(stack)>> /\ CallsLeft' = <<0, 0, Len(stack')>>
      BY <2>3 DEF Unwinding, CallsLeft
    <3>2. Len(stack) - 1 \in Nat /\ Len(stack) - 1 < Len(stack)
      BY <3>1
    <3> QED BY <3>1, <3>2, TripleDescends
  <2> QED BY <1>1, <2>1, <2>2, <2>3, StepIsLink
<1>2. Inv /\ Inv' /\ [Next]_vars => [Descends(3, CallsLeft, CallsLeft')]_vars
  BY <1>1
<1> QED BY <1>2, Invariance, PTL DEF Spec, DispatchDescends

=============================================================================
