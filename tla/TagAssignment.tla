--------------------------- MODULE TagAssignment ----------------------------
(***************************************************************************)
(* What make_arg_list promises, one decision per argument: an explicit tag *)
(* wins; a leading run of untagged arguments over specs that are not       *)
(* deduced is matched by position; any other argument goes to the first    *)
(* deduced spec that accepts it, given the types bound so far, or to none. *)
(***************************************************************************)
EXTENDS ParameterSpecs

VARIABLES
  specs,
  args,
  assigned   \* assigned[j]: the key of args[j], NoKey when none was found

vars == <<specs, args, assigned>>

BindingsSoFar ==
  {<<assigned[m], args[m].type>> : m \in {j \in DOMAIN assigned : assigned[j] # NoKey}}

(* Every argument up to j is untagged and meets a spec that is not deduced. *)
ByPosition(j) ==
  \A m \in 1..j : ~is_named_argument(args[m]) /\ ~is_deduced(specs[m])

Candidates(j) ==
  {q \in 1..Len(specs) :
     /\ is_deduced(specs[q])
     /\ deduce_tag_condition(specs[q], args[j], BindingsSoFar)}

(* The key of argument j, j being the next one.                            *)
Assignment(j) ==
  IF is_named_argument(args[j]) THEN args[j].key
  ELSE IF ByPosition(j) THEN tag_type(specs[j])
  ELSE IF Candidates(j) = {} THEN NoKey
  ELSE tag_type(specs[CHOOSE q \in Candidates(j) : \A r \in Candidates(j) : q <= r])

Init ==
  /\ specs \in SpecLists
  /\ args \in ArgLists
  /\ assigned = <<>>

Assign ==
  /\ Len(assigned) < ItemCount(specs, args)
  /\ assigned' = Append(assigned, Assignment(Len(assigned) + 1))
  /\ UNCHANGED <<specs, args>>

Spec == Init /\ [][Assign]_vars

=============================================================================
