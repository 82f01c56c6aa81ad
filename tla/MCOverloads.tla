----------------------------- MODULE MCOverloads -----------------------------
(***************************************************************************)
(* Small instances of Overloads: parameter lists of every nesting, every   *)
(* threshold around each maximum arity, and lists as long as the tables.   *)
(***************************************************************************)
EXTENDS Overloads

CONSTANTS Kinds, MaxArities, Wide

Required(names) == [qual |-> "required", names |-> names]
Optional(names) == [qual |-> "optional", names |-> names]
Deduced(groups) == [qual |-> "deduced", groups |-> groups]

SpecLists == {
  <<Required(<<"a">>)>>,
  <<Required(<<"a", "b">>), Optional(<<"c", "d">>)>>,
  <<Optional(<<"a">>), Required(<<"b">>)>>,
  <<Optional(<<"a", "b">>)>>,
  <<Required(<<"a">>), Deduced(<<Required(<<"b">>), Optional(<<"c">>)>>)>>,
  <<Deduced(<<Optional(<<"a">>), Required(<<"b", "c">>)>>), Optional(<<"d">>)>>,
  <<Deduced(<<Optional(<<"a", "b">>)>>)>> }

MCParameterNames == {"a", "b", "c", "d", "e", "f", "g", "h", "i", "j", "k",
                     "l", "m", "n", "o"}

NamesUpTo(n) == SubSeq(<<"a", "b", "c", "d", "e", "f", "g", "h", "i", "j",
                         "k", "l", "m", "n", "o">>, 1, n)

Interface(kind, specs, lo, hi, max, t) ==
  [kind |-> kind, specs |-> specs, lo |-> lo, hi |-> hi, perfect |-> FALSE,
   maxArity |-> max, threshold |-> t]

Perfectly(interfaces) ==
  interfaces \union {[i EXCEPT !.perfect = TRUE] : i \in interfaces}

Functions(max, t) ==
  {Interface("function", specs, 0, 0, max, t) :
     specs \in {s \in SpecLists : Len(FLATTEN(s)) <= max}}

Funs(max, t) ==
  {Interface("fun", << >>, lo, hi, max, t) : lo \in 0 .. (max - 1), hi \in {max}}

NoSpecs(max, t) == {Interface("no_spec", << >>, 0, 0, max, t)}

MCInterfaces ==
  Perfectly(UNION {
    UNION {
      (IF "function" \in Kinds THEN Functions(max, t) ELSE {}) \union
      (IF "fun" \in Kinds THEN Funs(max, t) ELSE {}) \union
      (IF "no_spec" \in Kinds THEN NoSpecs(max, t) ELSE {}) :
      t \in 0 .. (max + 1)} :
    max \in MaxArities})
  \union
  (IF Wide
   THEN {Interface("function", <<Optional(NamesUpTo(14))>>, 0, 0, 15, 0),
         Interface("function", <<Required(NamesUpTo(15))>>, 0, 0, 15, 0),
         Interface("fun", << >>, 8, 9, 9, 10)}
   ELSE {})
=============================================================================
