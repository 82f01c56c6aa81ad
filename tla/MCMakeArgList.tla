--------------------------- MODULE MCMakeArgList ----------------------------
(***************************************************************************)
(* Small instances of MakeArgList: parameter lists of up to MaxSpecs specs *)
(* over the tags k1, k2, ..., calls of up to MaxArgs arguments.            *)
(***************************************************************************)
EXTENDS MakeArgList, FiniteSets

CONSTANTS MaxSpecs, MaxArgs, k1, k2, k3, other

(* Tags are only ever compared, so the p-th spec may carry the p-th tag.   *)
KeyOfSpec == <<k1, k2, k3>>

MCKeys == {KeyOfSpec[p] : p \in 1..MaxSpecs} \union {other}

(* "any" accepts every type, "int" only itself, and "as_k1" is a predicate *)
(* that looks at the pack: it accepts the type bound to k1                 *)
(* (test/deduced_dependent_predicate.cpp).                                 *)
MCPreds == {"any", "int", "as_k1"}

MCHolds(pred, type, bindings) ==
  CASE pred = "any" -> TRUE
    [] pred = "as_k1" -> <<k1, type>> \in bindings
    [] OTHER -> type = pred

(* make_arg_list never asks whether a spec is required, nor for the        *)
(* predicate of a spec that is not deduced.                                *)
Variants ==
  {[deduced |-> FALSE, pred |-> "any"]} \union
  {[deduced |-> TRUE, pred |-> f] : f \in MCPreds}

MCSpecLists ==
  UNION {
    {[p \in 1..len |-> [key      |-> KeyOfSpec[p],
                        required |-> FALSE,
                        deduced  |-> v[p].deduced,
                        pred     |-> v[p].pred]] : v \in [1..len -> Variants]} :
    len \in 0..MaxSpecs}

MCArguments ==
  {[key |-> NoKey, type |-> t] : t \in Types} \union
  {[key |-> k, type |-> "int"] : k \in {k1, k2, other}}

MCArgLists == UNION {[1..len -> MCArguments] : len \in 0..MaxArgs}

=============================================================================
