--------------------------- MODULE ParameterSpecs ---------------------------
(***************************************************************************)
(* The vocabulary of boost::parameter::parameters<Spec...>: parameter      *)
(* specifications (keyword tags, required<>, optional<>, deduced<>), the   *)
(* actual arguments of one call, and the queries the library makes about   *)
(* them.  C++ types are abstracted to the members of Types; a predicate    *)
(* metafunction is a name of Preds with the truth table Holds.             *)
(***************************************************************************)
EXTENDS Integers, Sequences

CONSTANTS
  Keys,           \* keyword tag types, known to the specs or not
  NoKey,          \* marks an argument that carries no explicit tag
  Types,          \* intended types of arguments
  Preds,          \* names of binary predicate metafunctions F
  Holds(_, _, _), \* Holds(F, T, B): apply<F, T, ArgumentPack>::type::value,
                  \* B being the <<key, type>> pairs bound in the pack
  SpecLists,      \* the Spec... of the parameters<> specialisations checked
  ArgLists        \* the Args... of the calls checked

(* required<> is a flag; a bare tag is an optional with the default        *)
(* predicate, which Holds makes true of every type.                        *)
ParameterSpec == [key: Keys, required: BOOLEAN, deduced: BOOLEAN, pred: Preds]

Argument == [key: Keys \union {NoKey}, type: Types]

(* A node of the argument pack: the tag and the position of its argument.  *)
Node == [key: Keys, arg: Nat]

ASSUME NoKeyAssumption == NoKey \notin Keys

(* parameters<> lists each keyword at most once.                           *)
ASSUME SpecListsAssumption ==
  /\ SpecLists \subseteq Seq(ParameterSpec)
  /\ \A specs \in SpecLists :
       \A p, q \in DOMAIN specs : specs[p].key = specs[q].key => p = q

ASSUME ArgListsAssumption == ArgLists \subseteq Seq(Argument)

-----------------------------------------------------------------------------
tag_type(spec) == spec.key

has_default(spec) == ~spec.required

is_deduced(spec) == spec.deduced

is_named_argument(argument) == argument.key # NoKey

(* The length of the item list: make_parameter_spec_items stops at         *)
(* whichever of the specs and the arguments ends first.                    *)
ItemCount(specs, args) ==
  IF Len(args) <= Len(specs) THEN Len(args) ELSE Len(specs)

(* What a predicate can learn of a pack: the tags bound and their types.   *)
Bindings(pack, args) ==
  {<<pack[m].key, args[pack[m].arg].type>> : m \in DOMAIN pack}

KeysOf(pack) == {pack[m].key : m \in DOMAIN pack}

(* The deduced spec accepts the argument, given the pack built so far.     *)
deduce_tag_condition(spec, argument, bindings) ==
  Holds(spec.pred, argument.type, bindings)

=============================================================================
