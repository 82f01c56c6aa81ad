---------------------------- MODULE MCParameters ----------------------------
(***************************************************************************)
(* Small instances of Parameters.                                          *)
(***************************************************************************)
EXTENDS Parameters

CONSTANTS MaxSpecs, MaxArgs, k1, k2, other

(* Tags are only ever compared, so the p-th spec may carry the p-th tag.   *)
KeyOfSpec == <<k1, k2>>

MCKeys == {k1, k2, other}

MCPreds == {"any", "string", "as_k1"}

(* "as_k1" is the dependent predicate: the type bound to k1.               *)
MCHolds(pred, type, bindings) ==
  CASE pred = "any" -> TRUE
    [] pred = "as_k1" -> <<k1, type>> \in bindings
    [] OTHER -> type = pred

Variants ==
  [required: BOOLEAN, deduced: {FALSE}, pred: {"any"}] \union
  [required: {TRUE}, deduced: {FALSE}, pred: {"string"}] \union
  [required: {FALSE}, deduced: {TRUE}, pred: {"any"}] \union
  [required: BOOLEAN, deduced: {TRUE}, pred: {"string", "as_k1"}]

MCSpecLists ==
  UNION {
    {[p \in 1..len |-> [key      |-> KeyOfSpec[p],
                        required |-> v[p].required,
                        deduced  |-> v[p].deduced,
                        pred     |-> v[p].pred]] : v \in [1..len -> Variants]} :
    len \in 0..MaxSpecs}

MCArguments ==
  {[key |-> NoKey, type |-> t] : t \in Types} \union
  {[key |-> k, type |-> "string"] : k \in {k1, k2, other}}

MCArgLists == UNION {[1..len -> MCArguments] : len \in 0..MaxArgs}

(* A string literal initialises a std::string, not the other way round.    *)
MCConverts == {<<t, t>> : t \in Types} \union {<<"literal", "string">>}

=============================================================================
