-------------------------- MODULE MCDispatchLayer ---------------------------
(***************************************************************************)
(* Small instances of DispatchLayer: at most one required parameter, up to *)
(* MaxOpt optional ones, and any selection of arguments, of the target     *)
(* type or not, some of them for no parameter of the function.             *)
(***************************************************************************)
EXTENDS DispatchLayer

CONSTANTS MaxOpt, r1, o1, o2, o3, other

Order == <<o2, r1, other, o1, o3>>

MCKeys == {r1, o1, o2, o3, other}

(* Tags are only ever compared: the choice of names loses nothing.         *)
MCSignatures ==
  {[req |-> SubSeq(<<r1>>, 1, req), opt |-> SubSeq(<<o1, o2, o3>>, 1, opt)] :
     req \in 0..1, opt \in 0..MaxOpt}

(* One order of the pack for each selection: a pack that binds no keyword  *)
(* twice is looked up alike in any order.                                  *)
MCCallerPacks ==
  UNION {
    {LET Chosen(key) == key \in keys
         s == SelectSeq(Order, Chosen)
     IN  [m \in DOMAIN s |-> [key |-> s[m], ofTarget |-> s[m] \in exact]] :
       exact \in SUBSET keys} :
    keys \in SUBSET MCKeys}

=============================================================================
