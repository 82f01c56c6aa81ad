------------------------------ MODULE ArgSpecs ------------------------------
(***************************************************************************)
(* What BOOST_PARAMETER_FUNCTION and its relatives do with their list of   *)
(* parameters before they generate code.  The list, as the user writes it, *)
(* is a sequence of groups                                                 *)
(*    [qual |-> "required" or "optional", names |-> parameters]            *)
(*    [qual |-> "deduced", groups |-> required and optional groups]        *)
(* A parameter stands for its tuple (name, predicate, default).            *)
(***************************************************************************)
EXTENDS Integers, Sequences, FiniteSets, SequencesExt

CONSTANT ParameterNames

(* The groups a user can write, deduced ones holding others, and the lists.*)
Groups == [qual : {"required", "optional"}, names : Seq(ParameterNames)]
DeducedGroups == [qual : {"deduced"}, groups : Seq(Groups)]
SpecSequences == Seq(Groups \union DeducedGroups)

(* BOOST_PARAMETER_AUX_PP_FOR_EACH_R: walk a list up to the sentinel that  *)
(* was put behind it, calling a macro with a counter from 0.  These are the*)
(* calls.                                                                  *)
FOR_EACH_R(list) == [j \in DOMAIN list |-> [n |-> j - 1, elem |-> list[j]]]

(* The parameters of one group, each with the qualifier given.             *)
FLATTEN_SPEC_AUX(names, qualifier) ==
  LET calls == FOR_EACH_R(names)
  IN  [j \in DOMAIN calls |-> [qual |-> qualifier, name |-> calls[j].elem]]

FLATTEN_SPEC_AS_DEDUCED(x) ==
  IF x = "required" THEN "deduced_required" ELSE "deduced_optional"

FLATTEN_SPEC_deduced(group) ==
  FlattenSeq([j \in DOMAIN group.groups |->
                FLATTEN_SPEC_AUX(group.groups[j].names,
                                 FLATTEN_SPEC_AS_DEDUCED(group.groups[j].qual))])

FLATTEN_SPEC(group) ==
  IF group.qual = "deduced" THEN FLATTEN_SPEC_deduced(group)
                            ELSE FLATTEN_SPEC_AUX(group.names, group.qual)

FLATTEN(specs) == FlattenSeq([j \in DOMAIN specs |-> FLATTEN_SPEC(specs[j])])

(* The numbers of arguments [begin, end) a call may have.                  *)
ARITY_RANGE(args) ==
  <<Cardinality({j \in 1 .. Len(args) :
                   args[j].qual \in {"required", "deduced_required"}}),
    Len(args) + 1>>

(* SPLIT_ARG starts from two empty lists.                                  *)
NothingSplit == [reqCount |-> 0, req |-> << >>, optCount |-> 0, opt |-> << >>]

(* Fault: deduced parameters are moved in front.                           *)
SplitDeducedFirst(args) ==
  LET SPLIT_ARG(s, arg) ==
        CASE arg.qual = "required" ->
               [s EXCEPT !.reqCount = @ + 1, !.req = Append(@, arg)]
          [] arg.qual = "deduced_required" ->
               [s EXCEPT !.reqCount = @ + 1, !.req = <<arg>> \o @]
          [] OTHER ->
               [s EXCEPT !.optCount = @ + 1, !.opt = Append(@, arg)]
      after[n \in 0 .. Len(args)] ==
        IF n = 0 THEN NothingSplit ELSE SPLIT_ARG(after[n - 1], args[n])
  IN  after[Len(args)]

(* Required and optional parameters apart, for the dispatch functions:     *)
(* BOOST_PP_SEQ_FOLD_LEFT, after[n] being its state after n parameters.    *)
FUNCTION_SPLIT_ARGS(args) ==
  LET SPLIT_ARG(s, arg) ==
        IF arg.qual \in {"required", "deduced_required"}
        THEN [s EXCEPT !.reqCount = @ + 1, !.req = Append(@, arg)]
        ELSE [s EXCEPT !.optCount = @ + 1, !.opt = Append(@, arg)]
      after[n \in 0 .. Len(args)] ==
        IF n = 0 THEN NothingSplit ELSE SPLIT_ARG(after[n - 1], args[n])
  IN  after[Len(args)]

=============================================================================
