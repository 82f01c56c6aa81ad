----------------------------- MODULE MCArgPack -----------------------------
(***************************************************************************)
(* One argument under scrutiny, given for the keyword subject with every   *)
(* qualifier and in every category, next to plain arguments for two more   *)
(* keywords.                                                               *)
(***************************************************************************)
EXTENDS ArgPack

CONSTANTS subject, second, third

MCKeys == {subject, second, third}

MCRoutes == {"alone", "comma", "compose", "parameters", "function"}

MCQualifiersOf ==
  [k \in MCKeys |-> IF k = subject THEN Qualifiers ELSE {"forward"}]

Expr(rvalue, const, type, wrapper) ==
  [rvalue |-> rvalue, const |-> const, type |-> type, wrapper |-> wrapper]

Plain == Expr(FALSE, FALSE, "class", "no")

(* Objects of every category, and reference_wrappers of every category to  *)
(* mutable and const objects.                                              *)
Unwrapped == {Expr(r, c, t, "no") : r, c \in BOOLEAN, t \in {"scalar", "class", "maybe"}}

Wrapped ==
  {Expr(r, c, t, w) : r, c \in BOOLEAN, t \in {"scalar", "class"}, w \in {"ref", "cref"}}

MCExpressionsFor ==
  [k \in MCKeys |-> IF k = subject THEN Unwrapped \cup Wrapped ELSE {Plain}]

MCExpressionsAgain == {Plain}

MCDefaults ==
  {Expr(r, c, t, "no") : r, c \in BOOLEAN, t \in {"scalar", "class"}}
    \cup {Expr(FALSE, FALSE, "class", "ref")}
=============================================================================
