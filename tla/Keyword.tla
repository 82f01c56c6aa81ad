------------------------------ MODULE Keyword ------------------------------
(***************************************************************************)
(* How one argument becomes a tagged argument: by keyword (_k = x), which  *)
(* is an overload resolution between the four operators of keyword<Tag>,   *)
(* or by its position, which is one metafunction; and how a default        *)
(* (_k | x) is held.  The keyword's qualifier decides what is accepted.    *)
(*                                                                         *)
(* An expression, and the type deduced from it, is a record:               *)
(*   rvalue, const : its value category and constness;                     *)
(*   type          : "scalar", "class", or "maybe" (the library's maybe<>);*)
(*   wrapper       : "ref" or "cref" if it is a reference_wrapper of a     *)
(*                   mutable or const object of that type, "no" otherwise. *)
(* In the build with perfect forwarding all four operators exist, without  *)
(* it only those that take const& and &.                                   *)
(***************************************************************************)
EXTENDS Integers

(* in_out_reference is out_reference, move_from_reference consume_reference*)
Qualifiers == {"in", "out", "consume", "forward"}

(* A maybe<> is made by the library for a node, and nobody wraps it.       *)
Expression ==
  {e \in [rvalue : BOOLEAN, const : BOOLEAN,
          type : {"scalar", "class", "maybe"}, wrapper : {"no", "ref", "cref"}] :
     e.type = "maybe" => e.wrapper = "no"}

(* A reference_wrapper is a class, whatever it refers to.                  *)
IsScalar(e) == e.type = "scalar" /\ e.wrapper = "no"

-----------------------------------------------------------------------------
(* The enable_ifs of operator=, in the order of the file.                  *)

AssignConstLvalue(q, e) == IsScalar(e) \/ q \in {"in", "forward"}

(* Fault: out parameters are forgotten.                                    *)
AssignForwardedLvalue(q, e) == q = "forward" /\ ~e.const

AssignLvalue(q, e) == q \in {"out", "forward"} /\ ~e.const

AssignConstRvalue(q, e) == ~IsScalar(e) /\ q \in {"in", "forward"}

(* Fault: forward parameters are forgotten.                                *)
AssignConsumedRvalue(q, e) == ~(IsScalar(e) /\ e.rvalue) /\ q = "consume"

(* T&& deduces a reference from an lvalue, and a reference is not scalar.  *)
AssignRvalue(q, e) ==
  ~(IsScalar(e) /\ e.rvalue) /\ q \in {"consume", "forward"}

AssignEnabled(o, q, e) ==
  CASE o = "const&"  -> AssignConstLvalue(q, e)
    [] o = "&"       -> AssignLvalue(q, e)
    [] o = "const&&" -> AssignConstRvalue(q, e)
    [] o = "&&"      -> AssignRvalue(q, e)

(* The enable_ifs of operator|, written out again.                         *)

DefaultConstLvalue(q, e) == IsScalar(e) \/ q \in {"in", "forward"}

(* Fault: a const lvalue is taken for a mutable one.                       *)
DefaultAnyLvalue(q, e) == q \in {"out", "forward"}

DefaultLvalue(q, e) == q \in {"out", "forward"} /\ ~e.const

DefaultConstRvalue(q, e) == ~IsScalar(e) /\ q \in {"in", "forward"}

DefaultRvalue(q, e) ==
  ~(IsScalar(e) /\ e.rvalue) /\ q \in {"consume", "forward"}

DefaultEnabled(o, q, e) ==
  CASE o = "const&"  -> DefaultConstLvalue(q, e)
    [] o = "&"       -> DefaultLvalue(q, e)
    [] o = "const&&" -> DefaultConstRvalue(q, e)
    [] o = "&&"      -> DefaultRvalue(q, e)

(* The operators a keyword has.                                            *)
Operators(perfect) ==
  IF perfect THEN {"const&", "&", "const&&", "&&"} ELSE {"const&", "&"}

(* Overload resolution of C++ among them, best first: an rvalue prefers    *)
(* an rvalue reference, a mutable object one to a mutable object, and of   *)
(* two that bind alike the more specialised wins.  What cannot bind is not *)
(* listed.                                                                 *)
Preference(e) ==
  CASE ~e.rvalue /\ ~e.const -> <<"&", "&&", "const&">>
    [] ~e.rvalue /\ e.const  -> <<"const&", "&", "&&">>
    [] e.rvalue /\ ~e.const  -> <<"&&", "const&&", "const&">>
    [] e.rvalue /\ e.const   -> <<"const&&", "&&", "const&">>

NoOperator == "none"

BestOf(e, enabled) ==
  LET viable == {p \in DOMAIN Preference(e) : Preference(e)[p] \in enabled}
  IN  IF viable = {} THEN NoOperator
      ELSE Preference(e)[CHOOSE p \in viable : \A r \in viable : p <= r]

(* The type of what overload resolution refuses.                           *)
None == [type |-> "none"]

(* The type an operator deduces: T const& and T const&& add a const.       *)
Deduced(o, e) ==
  CASE o = "const&"  -> [e EXCEPT !.rvalue = FALSE, !.const = TRUE]
    [] o = "const&&" -> [e EXCEPT !.const = TRUE]
    [] OTHER         -> e

-----------------------------------------------------------------------------
(* Tagged arguments.  tagged_argument<K,Arg> holds an lvalue reference,    *)
(* tagged_argument_rref<K,Arg> an rvalue reference.                        *)

unwrap_cv_reference(e) ==
  [rref |-> FALSE, type |-> e.type,
   const |-> IF e.wrapper = "no" THEN e.const ELSE e.wrapper = "cref"]

(* tag<K,Arg>, for an Arg that may be a reference.                         *)
tag(e) ==
  CASE ~e.rvalue \/ e.wrapper # "no" -> unwrap_cv_reference(e)
    [] e.rvalue /\ IsScalar(e) -> [rref |-> FALSE, type |-> e.type, const |-> TRUE]
    [] OTHER -> [rref |-> TRUE, type |-> e.type, const |-> e.const]

(* Fault: only the rvalue class looks at the qualifier.                    *)
LvalueNeverIllFormed(perfect, q, t) == perfect /\ t.rref /\ q = "out"

(* Instantiating the class is an error, of which no overload resolution    *)
(* takes notice, if the category is not what the qualifier asks for.  The  *)
(* class of the build without perfect forwarding does not look.            *)
IllFormed(perfect, q, t) ==
  /\ perfect
  /\ \/ t.rref /\ q = "out"                        \* error_rvalue_bound_to_out
     \/ ~t.rref /\ t.const /\ q = "out"            \* error_const_lvalue_bound_to_out
     \/ ~t.rref /\ t.type # "scalar" /\ q = "consume"  \* error_lvalue_bound_to_consume

(* _k = e: a tagged argument, or none of the operators accepts it.         *)
Named(perfect, q, e) ==
  LET o == BestOf(e, {p \in Operators(perfect) : AssignEnabled(p, q, e)})
  IN  IF o = NoOperator THEN None ELSE tag(Deduced(o, e))

(* An argument without a keyword.  With perfect forwarding T&& is deduced  *)
(* and the qualifier has no say; otherwise the forwarding function takes   *)
(* mutable lvalues by & and all others by const&.                          *)
Positional(perfect, e) ==
  IF perfect THEN tag(e)
  ELSE tag([e EXCEPT !.rvalue = FALSE, !.const = e.const \/ e.rvalue])

(* The reference a tagged argument gives access to.                        *)
get_value(t) == [rvalue |-> t.rref, const |-> t.const, type |-> t.type]

(* _k | e: the reference default_ or default_r_ holds.  Unlike an argument *)
(* a reference_wrapper is not looked into, and nothing is instantiated     *)
(* that would look at the qualifier.                                       *)
OrDefault(perfect, q, e) ==
  LET o == BestOf(e, {p \in Operators(perfect) : DefaultEnabled(p, q, e)})
      d == Deduced(o, e)
  IN  IF o = NoOperator THEN None
      ELSE [rvalue |-> d.rvalue, const |-> d.const,
            type |-> IF e.wrapper = "no" THEN e.type ELSE "wrapper"]
=============================================================================
