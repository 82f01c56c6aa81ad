-------------------------- MODULE DefaultsInOrder ---------------------------
(***************************************************************************)
(* What a BOOST_PARAMETER_FUNCTION promises of its defaults, without the   *)
(* functions that bring it about: the missing optional arguments are       *)
(* evaluated once each, in the order of the declaration; then the body     *)
(* runs with the caller's argument wherever there is one and with the      *)
(* default elsewhere.  An exception may end the call at any moment before. *)
(***************************************************************************)
EXTENDS Integers, Sequences

CONSTANTS Keys, Signatures, CallerPacks

VARIABLES
  sig,
  callerPack,
  evaluated,  \* the parameters whose defaults were evaluated, in that order
  received,   \* what the body was called with: keys and origins
  outcome     \* running | called | threw

vars == <<sig, callerPack, evaluated, received, outcome>>

Given(key) == \E m \in DOMAIN callerPack : callerPack[m].key = key

Done(key) == \E e \in DOMAIN evaluated : evaluated[e] = key

(* The first optional parameter that is neither given nor evaluated.       *)
IsNextMissing(q) ==
  /\ ~Given(sig.opt[q])
  /\ ~Done(sig.opt[q])
  /\ \A r \in 1..(q - 1) : Given(sig.opt[r]) \/ Done(sig.opt[r])

Init ==
  /\ sig \in Signatures
  /\ callerPack \in CallerPacks
  /\ \A p \in DOMAIN sig.req : Given(sig.req[p])
  /\ evaluated = <<>>
  /\ received = <<>>
  /\ outcome = "running"

(* Evaluating a default may throw.                                         *)
Evaluate ==
  /\ outcome = "running"
  /\ \E q \in DOMAIN sig.opt :
       IsNextMissing(q) /\ evaluated' = Append(evaluated, sig.opt[q])
  /\ outcome' \in {"running", "threw"}
  /\ UNCHANGED <<sig, callerPack, received>>

(* So may converting an argument.                                          *)
Throw ==
  /\ outcome = "running"
  /\ outcome' = "threw"
  /\ UNCHANGED <<sig, callerPack, evaluated, received>>

Parameter(p) == (sig.req \o sig.opt)[p]

Call ==
  /\ outcome = "running"
  /\ \A q \in DOMAIN sig.opt : Given(sig.opt[q]) \/ Done(sig.opt[q])
  /\ received' =
       [p \in 1..(Len(sig.req) + Len(sig.opt)) |->
          [key    |-> Parameter(p),
           origin |-> IF Given(Parameter(p)) THEN "caller" ELSE "default"]]
  /\ outcome' = "called"
  /\ UNCHANGED <<sig, callerPack, evaluated>>

Next == Evaluate \/ Throw \/ Call

Spec == Init /\ [][Next]_vars

=============================================================================
