--------------------------- MODULE ArgPack_proofs --------------------------
(***************************************************************************)
(* Proofs about an argument pack, for every set of keywords, every choice  *)
(* of qualifiers, any number of arguments and any number of lookups.  What *)
(* the operators of a keyword make of one expression is taken from         *)
(* Keyword_proofs.                                                         *)
(***************************************************************************)
EXTENDS ArgPack, Keyword_proofs, FiniteSetTheorems, WellFoundedInduction

ArgumentRecord ==
  [key : Keys, expr : Expression, full : BOOLEAN, named : BOOLEAN, tag : Tag \cup {None}]

(* Every argument is tagged as it was written, and the call goes on only   *)
(* with tags that are well-formed.                                         *)
ArgsInv ==
  /\ perfect \in BOOLEAN
  /\ route \in Routes
  /\ qualifier \in [Keys -> Qualifiers]
  /\ args \in Seq(ArgumentRecord)
  /\ Len(args) <= MaxArgs
  /\ \A j \in DOMAIN args :
       /\ args[j].tag = IF args[j].named
                        THEN Named(perfect, qualifier[args[j].key], args[j].expr)
                        ELSE Positional(perfect, args[j].expr)
       /\ args[j].full => args[j].expr.type = "maybe"
       /\ ~args[j].named => route \in {"parameters", "function"}
       /\ args[j].tag = None => pc = "rejected" /\ j = Len(args)
       /\ args[j].tag # None /\ IllFormed(perfect, qualifier[args[j].key], args[j].tag) =>
            pc \in {"rejected", "hard_error"}

(* A pack is a permutation of the arguments, of which it may not have all  *)
(* while it grows by commas; it is read only if its keys are unique.       *)
PackInv ==
  /\ pack \in Seq(DOMAIN args)
  /\ \A m, n \in DOMAIN pack : m # n => pack[m] # pack[n]
  /\ pc = "spell" => pack = << >>
  /\ pc \in {"join", "match", "lookup", "end"} =>
       /\ \A m \in DOMAIN pack : pack[m] \in 1..Len(pack)
       /\ \A j \in 1..Len(pack) : \E m \in DOMAIN pack : pack[m] = j
  /\ pc = "join" => route = "comma" /\ Len(pack) < Len(args)
  /\ pc = "match" => route = "function"
  /\ pc \in {"match", "lookup", "end"} => Len(pack) = Len(args)
  /\ pc \in {"join", "lookup", "end"} => HasUniqueKeys(pack)
  /\ pc \in {"match", "lookup", "end"} /\ route = "alone" => Len(args) = 1
  /\ pc \in {"lookup", "end"} /\ route = "function" =>
       \A j \in DOMAIN args : augment_predicate(args[j].key, args[j].tag)

(* A default is in storage exactly where constructed says so, and only in  *)
(* that of an empty maybe<>.                                               *)
StorageInv ==
  /\ lookups \in 0..MaxLookups
  /\ constructed \subseteq {j \in DOMAIN args : args[j].expr.type = "maybe" /\ ~args[j].full}
  /\ built \in [1..MaxArgs -> Nat]
  /\ \A j \in 1..MaxArgs : built[j] <= lookups /\ (built[j] > 0 <=> j \in constructed)
  /\ destroyed = [j \in 1..MaxArgs |-> IF pc = "end" /\ j \in constructed THEN 1 ELSE 0]
  /\ pc \in {"spell", "join", "match"} => lookups = 0

(* What a lookup that found nothing returned.                              *)
DefaultGiven(result) ==
  /\ Spelled(result.key) = {}
  /\ result.in = "none"
  /\ \/ /\ result.how = "default"
        /\ result.given \in Defaults
        /\ result.ref = OrDefault(perfect, qualifier[result.key], result.given)
        /\ result.ref # None
     \/ /\ result.how = "lazy"
        /\ result.given = None
        /\ result.ref = [rvalue |-> TRUE, const |-> FALSE, type |-> "class"]

(* What a lookup that found an argument returned.                          *)
ArgumentFound(result) ==
  /\ result.from \in DOMAIN args
  /\ result.how \in {"keyword", "default", "lazy"}
  /\ Spelled(result.key) = {result.from}
  /\ result.ref = ReferenceOf(args[result.from].tag)
  /\ IF args[result.from].tag.type = "maybe" /\ route # "alone"
     THEN /\ result.how = "default"
          /\ result.in \in IF args[result.from].full THEN {"value"} ELSE {"default", "storage"}
          /\ result.given \in Defaults \cup {None}
     ELSE result.in = "none" /\ result.given = None

(* The last lookup: no result before the pack is made, then one that names *)
(* a key and comes from a default or from an argument.                     *)
LastInv ==
  /\ pc \in {"spell", "join", "match"} => last.how = "none"
  /\ LookedUp =>
       /\ last.key \in Keys
       /\ last.from = 0 => DefaultGiven(last)
       /\ last.from # 0 => ArgumentFound(last)

(* The stages of an expression.                                            *)
PcInv == pc \in {"spell", "join", "match", "lookup", "end", "rejected", "hard_error"}

(* The inductive invariant: the parts above, and that refusals have        *)
(* reasons, which the steps that refuse need from each other.              *)
PackOfArgsInv ==
  PcInv /\ ArgsInv /\ PackInv /\ StorageInv /\ LastInv /\ RefusedForAReason

-----------------------------------------------------------------------------
(* An expression starts with nothing.                                      *)
LEMMA ArgPackInit == Init => PackOfArgsInv
<1> SUFFICES ASSUME Init PROVE PackOfArgsInv
  OBVIOUS
<1> USE DEF Init
<1>1. PcInv /\ RefusedForAReason
  BY DEF PcInv, RefusedForAReason
<1>2. ArgsInv
  BY BoundsAssumption DEF ArgsInv
<1>3. PackInv
  BY DEF PackInv
<1>4. StorageInv
  BY BoundsAssumption DEF StorageInv
<1>5. LastInv
  BY DEF LastInv, NoLookup, Found, LookedUp
<1> QED BY <1>1, <1>2, <1>3, <1>4, <1>5 DEF PackOfArgsInv

(* What is known of one argument.                                          *)
LEMMA ArgumentFacts ==
  ASSUME ArgsInv, NEW j \in DOMAIN args
  PROVE  /\ Len(args) \in Nat /\ j \in 1..Len(args) /\ j \in Nat
         /\ args[j] \in ArgumentRecord
         /\ args[j].key \in Keys /\ args[j].expr \in Expression
         /\ args[j].named \in BOOLEAN /\ args[j].full \in BOOLEAN
         /\ args[j].tag \in Tag \cup {None}
         /\ qualifier[args[j].key] \in Qualifiers
<1>1. args[j] \in ArgumentRecord
  BY DEF ArgsInv
<1> QED BY <1>1 DEF ArgsInv, ArgumentRecord

(* The type of an argument survives its tagging.                           *)
LEMMA TagTypes ==
  ASSUME NEW t \in Tag
  PROVE  t # None /\ t.rref \in BOOLEAN /\ t.const \in BOOLEAN
         /\ t.type \in {"scalar", "class", "maybe"}
<1>1. t.type # None.type
  BY DEF Tag, None
<1> QED BY <1>1 DEF Tag

(* What the tag of an argument says of its expression, and of the keyword  *)
(* it was given or is placed under.                                        *)
LEMMA TaggedArgument ==
  ASSUME ArgsInv, NEW j \in DOMAIN args, args[j].tag # None
  PROVE  LET e == args[j].expr
             q == qualifier[args[j].key]
         IN  /\ args[j].named => /\ ~Refuses(perfect, q, e)
                                 /\ args[j].tag = TagOf(perfect, e, PassedConst(perfect, q, e))
             /\ ~args[j].named => args[j].tag = TagOf(perfect, e, PlacedConst(perfect, e))
             /\ args[j].tag \in Tag
             /\ args[j].tag.type = e.type
             /\ args[j].tag.rref = (PassedRvalue(perfect, e) /\ e.wrapper = "no")
<1>1. /\ args[j].expr \in Expression
      /\ qualifier[args[j].key] \in Qualifiers
      /\ perfect \in BOOLEAN
      /\ args[j].named \in BOOLEAN
      /\ args[j].tag \in Tag \cup {None}
  BY ArgumentFacts DEF ArgsInv
<1>2. args[j].tag = IF args[j].named
                    THEN Named(perfect, qualifier[args[j].key], args[j].expr)
                    ELSE Positional(perfect, args[j].expr)
  BY DEF ArgsInv
<1>3. CASE args[j].named
  BY <1>1, <1>2, <1>3, NamedIsTagged DEF TagOf
<1>4. CASE ~args[j].named
  BY <1>1, <1>2, <1>4, PlacedIsTagged DEF TagOf
<1> QED BY <1>1, <1>3, <1>4

-----------------------------------------------------------------------------
(* An expression whose class cannot be instantiated, or that match<> turns *)
(* away, is one that its qualifier may refuse.                             *)
GivenTag(q, e, t) ==
  t = TagOf(perfect, e, PassedConst(perfect, q, e)) \/ t = TagOf(perfect, e, PlacedConst(perfect, e))

(* The fields of such a tag.                                               *)
GivenFields(q, e, t) ==
  /\ t.rref <=> (PassedRvalue(perfect, e) /\ e.wrapper = "no")
  /\ t.type = e.type
  /\ t.const <=> (\/ e.wrapper = "no" /\ t = TagOf(perfect, e, PassedConst(perfect, q, e))
                                     /\ PassedConst(perfect, q, e)
                  \/ e.wrapper = "no" /\ t = TagOf(perfect, e, PlacedConst(perfect, e))
                                     /\ PlacedConst(perfect, e)
                  \/ e.wrapper = "cref")
  /\ t.rref \in BOOLEAN /\ t.const \in BOOLEAN

(* A tag that may be given to a keyword has the fields of its expression.  *)
LEMMA GivenTagFields ==
  ASSUME perfect \in BOOLEAN, NEW q \in Qualifiers, NEW e \in Expression, NEW t,
         GivenTag(q, e, t)
  PROVE  GivenFields(q, e, t)
<1>1. ASSUME NEW c
      PROVE  /\ TagOf(perfect, e, c).rref = (PassedRvalue(perfect, e) /\ e.wrapper = "no")
             /\ TagOf(perfect, e, c).type = e.type
             /\ e.wrapper = "no" => TagOf(perfect, e, c).const = c
             /\ e.wrapper # "no" => TagOf(perfect, e, c).const = (e.wrapper = "cref")
  BY DEF TagOf
<1>2. PassedConst(perfect, q, e) \in BOOLEAN /\ PlacedConst(perfect, e) \in BOOLEAN
  BY DEF Expression, PassedConst, PlacedConst
<1>3. CASE t = TagOf(perfect, e, PassedConst(perfect, q, e))
  <2>1. /\ t.rref = (PassedRvalue(perfect, e) /\ e.wrapper = "no")
        /\ t.type = e.type
        /\ e.wrapper = "no" => t.const = PassedConst(perfect, q, e)
        /\ e.wrapper # "no" => t.const = (e.wrapper = "cref")
    BY <1>1, <1>3
  <2>2. t = TagOf(perfect, e, PlacedConst(perfect, e)) =>
          (e.wrapper = "no" => t.const = PlacedConst(perfect, e))
    BY <1>1
  <2> QED BY <1>2, <1>3, <2>1, <2>2 DEF GivenFields
<1>4. CASE t = TagOf(perfect, e, PlacedConst(perfect, e))
  <2>1. /\ t.rref = (PassedRvalue(perfect, e) /\ e.wrapper = "no")
        /\ t.type = e.type
        /\ e.wrapper = "no" => t.const = PlacedConst(perfect, e)
        /\ e.wrapper # "no" => t.const = (e.wrapper = "cref")
    BY <1>1, <1>4
  <2>2. t = TagOf(perfect, e, PassedConst(perfect, q, e)) =>
          (e.wrapper = "no" => t.const = PassedConst(perfect, q, e))
    BY <1>1
  <2> QED BY <1>2, <1>4, <2>1, <2>2 DEF GivenFields
<1> QED BY <1>3, <1>4 DEF GivenTag

(* Reasons depend on the call alone.                                       *)
LEMMA SameReason ==
  ASSUME perfect' = perfect, route' = route, NEW q, NEW e
  PROVE  Refusable(q, e)' <=> Refusable(q, e)
BY DEF Refusable

(* A pack that is ill-formed for a category has an argument that may be    *)
(* refused.                                                                *)
LEMMA IllFormedIsRefusable ==
  ASSUME perfect \in BOOLEAN, NEW q \in Qualifiers, NEW e \in Expression, NEW t,
         GivenTag(q, e, t), IllFormed(perfect, q, t)
  PROVE  Refusable(q, e)
<1>1. GivenFields(q, e, t)
  BY GivenTagFields
<1> USE <1>1 DEF GivenFields
<1>2. perfect = TRUE
  BY DEF IllFormed
<1>3. e.rvalue \in BOOLEAN /\ e.const \in BOOLEAN
  BY DEF Expression
<1> QED
  BY <1>1, <1>2, <1>3
  DEF IllFormed, Refusable, PassedRvalue, PassedConst, PlacedConst, IsScalar, Movable

(* So has a call that the predicate of parameters<> refuses.               *)
LEMMA RefusedByMatch ==
  ASSUME perfect \in BOOLEAN, NEW k \in Keys, qualifier[k] \in Qualifiers,
         NEW e \in Expression, NEW t, GivenTag(qualifier[k], e, t),
         route = "function", ~augment_predicate(k, t)
  PROVE  Refusable(qualifier[k], e)
<1> DEFINE q == qualifier[k]
<1>1. GivenFields(q, e, t)
  BY GivenTagFields
<1> USE <1>1 DEF GivenFields
<1>2. e.rvalue \in BOOLEAN /\ e.const \in BOOLEAN
  BY DEF Expression
<1>3. CASE ~check_consume_ref(q, t)
  <2>1. q = "consume" /\ ~IsScalar(e) /\ (HoldsMaybe(t) \/ ~t.rref)
    BY <1>1, <1>3 DEF check_consume_ref, Reference, get_value, IsScalar, HoldsMaybe
  <2> QED BY <1>1, <1>2, <2>1 DEF Refusable, HoldsMaybe, Movable, PassedRvalue
<1>4. CASE ~check_out_ref(q, t)
  <2>1. q = "out" /\ (t.rref \/ t.const)
    BY <1>4 DEF check_out_ref, Reference, get_value, HoldsMaybe
  <2> QED BY <1>1, <1>2, <2>1 DEF Refusable, PassedConst, PlacedConst, PassedRvalue
<1> QED BY <1>3, <1>4 DEF augment_predicate

(* The tag of an argument is the tag of its expression.                    *)
LEMMA ArgumentIsGiven ==
  ASSUME ArgsInv, NEW j \in DOMAIN args, args[j].tag # None
  PROVE  GivenTag(qualifier[args[j].key], args[j].expr, args[j].tag)
BY TaggedArgument, ArgumentFacts DEF GivenTag

-----------------------------------------------------------------------------
(* Spelling an argument.                                                   *)
LEMMA SpellStep ==
  ASSUME PackOfArgsInv, NEW k \in Keys, NEW e \in Expression, NEW named \in BOOLEAN, NEW t,
         t = IF named THEN Named(perfect, qualifier[k], e) ELSE Positional(perfect, e),
         ~named => route \in {"parameters", "function"},
         Spell(k, e, named, t)
  PROVE  PackOfArgsInv'
<1> DEFINE q == qualifier[k]
<1>1. /\ PcInv /\ ArgsInv /\ PackInv /\ StorageInv /\ LastInv
      /\ pc = "spell" /\ Len(args) < MaxArgs
      /\ pc' = IF t = None THEN "rejected" ELSE IF IllFormed(perfect, q, t) THEN "hard_error" ELSE pc
      /\ UNCHANGED <<callVars, pack, storageVars, lookups, last>>
  BY DEF Spell, PackOfArgsInv
<1>2. PICK full \in (IF e.type = "maybe" THEN BOOLEAN ELSE {FALSE}) :
        args' = Append(args, Argument(k, e, full, named, t))
  BY DEF Spell
<1> DEFINE a == Argument(k, e, full, named, t)
<1>3. /\ a.key = k /\ a.expr = e /\ a.full = full /\ a.named = named /\ a.tag = t
      /\ full => e.type = "maybe"
  BY DEF Argument
<1>4. perfect \in BOOLEAN /\ q \in Qualifiers /\ qualifier \in [Keys -> Qualifiers]
  BY <1>1 DEF ArgsInv
<1>5. t # None => t \in Tag /\ GivenTag(q, e, t)
  <2>1. PassedConst(perfect, q, e) \in BOOLEAN /\ PlacedConst(perfect, e) \in BOOLEAN
    BY DEF Expression, PassedConst, PlacedConst
  <2> QED BY <1>4, <2>1, NamedIsTagged, PlacedIsTagged, TagIsTag DEF GivenTag
<1>6. t = None => Refuses(perfect, q, e)
  <2>1. PassedConst(perfect, q, e) \in BOOLEAN /\ PlacedConst(perfect, e) \in BOOLEAN
    BY DEF Expression, PassedConst, PlacedConst
  <2> QED BY <1>4, <2>1, NamedIsTagged, PlacedIsTagged, TagIsTag
<1>7. a \in ArgumentRecord
  BY <1>2, <1>5 DEF ArgumentRecord, Argument
<1>8. /\ args \in Seq(ArgumentRecord) /\ args' \in Seq(ArgumentRecord)
      /\ Len(args) \in Nat /\ Len(args') = Len(args) + 1
      /\ DOMAIN args = 1..Len(args) /\ DOMAIN args' = 1..Len(args')
      /\ args'[Len(args')] = a
      /\ \A j \in DOMAIN args : j \in DOMAIN args' /\ args'[j] = args[j] /\ j # Len(args')
      /\ \A j \in DOMAIN args' : j \in DOMAIN args \/ j = Len(args')
  <2> HIDE DEF a
  <2> QED BY <1>1, <1>2, <1>7 DEF ArgsInv, a
<1>9. /\ perfect' = perfect /\ route' = route /\ qualifier' = qualifier
      /\ pack' = pack /\ constructed' = constructed /\ built' = built /\ destroyed' = destroyed
      /\ lookups' = lookups /\ last' = last
  BY <1>1 DEF callVars, storageVars
<1>10. pc' \in {"spell", "rejected", "hard_error"}
  BY <1>1
<1> HIDE DEF a
<1>11. ArgsInv'
  <2>1. ASSUME NEW j \in DOMAIN args'
        PROVE  /\ args'[j].tag = IF args'[j].named
                         THEN Named(perfect, qualifier[args'[j].key], args'[j].expr)
                         ELSE Positional(perfect, args'[j].expr)
               /\ args'[j].full => args'[j].expr.type = "maybe"
               /\ ~args'[j].named => route \in {"parameters", "function"}
               /\ args'[j].tag = None => pc' = "rejected" /\ j = Len(args')
               /\ args'[j].tag # None /\ IllFormed(perfect, qualifier[args'[j].key], args'[j].tag) =>
                    pc' \in {"rejected", "hard_error"}
    <3>1. CASE j \in DOMAIN args
      <4>1. /\ args[j].tag = IF args[j].named
                         THEN Named(perfect, qualifier[args[j].key], args[j].expr)
                         ELSE Positional(perfect, args[j].expr)
            /\ args[j].full => args[j].expr.type = "maybe"
            /\ ~args[j].named => route \in {"parameters", "function"}
            /\ args[j].tag # None
            /\ ~IllFormed(perfect, qualifier[args[j].key], args[j].tag)
        BY <1>1, <3>1 DEF ArgsInv
      <4> QED BY <1>8, <3>1, <4>1
    <3>2. CASE j = Len(args')
      <4>1. args'[j] = a
        BY <1>8, <3>2
      <4> QED BY <1>1, <1>3, <3>2, <4>1
    <3> QED BY <1>8, <3>1, <3>2
  <2>2. Len(args') <= MaxArgs
    BY <1>1, <1>8, BoundsAssumption
  <2> QED BY <1>1, <1>8, <1>9, <2>1, <2>2 DEF ArgsInv
<1>12. PackInv'
  BY <1>1, <1>8, <1>9, <1>10 DEF PackInv, HasUniqueKeys
<1>13. StorageInv'
  BY <1>1, <1>8, <1>9, <1>10 DEF StorageInv
<1>14. LastInv' /\ PcInv'
  BY <1>1, <1>9, <1>10 DEF LastInv, PcInv, LookedUp
<1>15. RefusedForAReason'
  <2>1. ASSUME pc' \in {"rejected", "hard_error"} PROVE Refusable(q, e)
    <3>1. CASE t = None
      BY <1>4, <1>6, <3>1 DEF Refuses, Refusable
    <3>2. CASE t # None
      BY <1>1, <1>4, <1>5, <2>1, <3>2, IllFormedIsRefusable
    <3> QED BY <3>1, <3>2
  <2>2. /\ Len(args') \in DOMAIN args' 
        /\ args'[Len(args')].key = k /\ args'[Len(args')].expr = e
    BY <1>3, <1>8
  <2>3. Refusable(q, e)' <=> Refusable(q, e)
    BY <1>9, SameReason
  <2> QED BY <1>9, <2>1, <2>2, <2>3 DEF RefusedForAReason
<1> QED BY <1>11, <1>12, <1>13, <1>14, <1>15 DEF PackOfArgsInv

-----------------------------------------------------------------------------
(* A keyword used twice, or an argument its qualifier may refuse.          *)
LEMMA TwiceIsAReason ==
  ASSUME ArgsInv, NEW nodes \in Seq(DOMAIN args),
         \A m, n \in DOMAIN nodes : m # n => nodes[m] # nodes[n],
         ~HasUniqueKeys(nodes)
  PROVE  \E j, l \in DOMAIN args : j # l /\ args[j].key = args[l].key
<1>1. PICK m, n \in DOMAIN nodes : m # n /\ args[nodes[m]].key = args[nodes[n]].key
  BY DEF HasUniqueKeys
<1>2. nodes[m] \in DOMAIN args /\ nodes[n] \in DOMAIN args
  OBVIOUS
<1> QED BY <1>1, <1>2

(* Composing the nodes.                                                    *)
LEMMA ComposeStep ==
  ASSUME PackOfArgsInv, pc \in {"spell", "join"},
         NEW nodes \in Seq(DOMAIN args), NEW next \in {"join", "lookup"},
         \A m, n \in DOMAIN nodes : m # n => nodes[m] # nodes[n],
         \A m \in DOMAIN nodes : nodes[m] \in 1..Len(nodes),
         \A j \in 1..Len(nodes) : \E m \in DOMAIN nodes : nodes[m] = j,
         next = "join" => route = "comma" /\ Len(nodes) < Len(args),
         next = "lookup" => route # "function" /\ Len(nodes) = Len(args),
         route = "alone" => Len(args) = 1,
         Compose(nodes, next)
  PROVE  PackOfArgsInv'
<1>1. /\ PcInv /\ ArgsInv /\ PackInv /\ StorageInv /\ LastInv
      /\ pack' = nodes
      /\ pc' = IF HasUniqueKeys(nodes) THEN next ELSE "hard_error"
      /\ perfect' = perfect /\ route' = route /\ qualifier' = qualifier
      /\ args' = args /\ constructed' = constructed /\ built' = built /\ destroyed' = destroyed
      /\ lookups' = lookups /\ last' = last
  BY DEF Compose, PackOfArgsInv, callVars, storageVars
<1>2. pc' \in {"join", "lookup", "hard_error"}
  BY <1>1
<1>3. ArgsInv'
  BY <1>1, <1>2 DEF ArgsInv
<1>4. PackInv'
  <2>1. pc' # "hard_error" => HasUniqueKeys(nodes) /\ pc' = next
    BY <1>1
  <2>2. HasUniqueKeys(nodes) => HasUniqueKeys(pack)'
    BY <1>1 DEF HasUniqueKeys
  <2> QED BY <1>1, <1>2, <2>1, <2>2 DEF PackInv
<1>5. StorageInv'
  BY <1>1, <1>2 DEF StorageInv
<1>6. PcInv'
  BY <1>2 DEF PcInv
<1>7. LastInv'
  BY <1>1, <1>2 DEF LastInv, LookedUp, StorageInv
<1>8. RefusedForAReason'
  BY <1>1, <1>2, TwiceIsAReason DEF RefusedForAReason
<1> QED BY <1>3, <1>4, <1>5, <1>6, <1>7, <1>8 DEF PackOfArgsInv

(* A tagged argument used as a pack of its own.                            *)
LEMMA UseAloneStep == PackOfArgsInv /\ UseAlone => PackOfArgsInv'
<1> SUFFICES ASSUME PackOfArgsInv, UseAlone PROVE PackOfArgsInv'
  OBVIOUS
<1>1. args \in Seq(ArgumentRecord)
  BY DEF PackOfArgsInv, ArgsInv
<1>2. /\ <<1>> \in Seq(DOMAIN args) /\ Len(<<1>>) = 1
      /\ DOMAIN <<1>> = {1} /\ <<1>>[1] = 1 /\ 1..1 = {1}
  BY <1>1 DEF UseAlone
<1>3. pc = "spell" /\ route = "alone" /\ Len(args) = 1 /\ Compose(<<1>>, "lookup")
  BY DEF UseAlone
<1> DEFINE nodes == <<1>>
<1>4. /\ nodes \in Seq(DOMAIN args) /\ Len(nodes) = Len(args)
      /\ \A m, n \in DOMAIN nodes : m # n => nodes[m] # nodes[n]
      /\ \A m \in DOMAIN nodes : nodes[m] \in 1..Len(nodes)
      /\ \A j \in 1..Len(nodes) : \E m \in DOMAIN nodes : nodes[m] = j
      /\ Compose(nodes, "lookup")
  BY <1>2, <1>3
<1> HIDE DEF nodes
<1> QED BY <1>3, <1>4, ComposeStep

(* Two tagged arguments joined by a comma.                                 *)
LEMMA JoinTaggedStep == PackOfArgsInv /\ JoinTagged => PackOfArgsInv'
<1> SUFFICES ASSUME PackOfArgsInv, JoinTagged PROVE PackOfArgsInv'
  OBVIOUS
<1> DEFINE nodes == <<1>> \o <<2>>
           next == IF 2 < Len(args) THEN "join" ELSE "lookup"
<1>1. args \in Seq(ArgumentRecord)
  BY DEF PackOfArgsInv, ArgsInv
<1>2. /\ nodes \in Seq(DOMAIN args) /\ Len(nodes) = 2
      /\ DOMAIN nodes = {1, 2} /\ nodes[1] = 1 /\ nodes[2] = 2
      /\ 1..2 = {1, 2} /\ 2 <= Len(args) /\ Len(args) \in Nat
  BY <1>1 DEF JoinTagged
<1>3. pc = "spell" /\ route = "comma" /\ Compose(nodes, next)
  BY DEF JoinTagged, Comma
<1>4. /\ next \in {"join", "lookup"}
      /\ next = "join" => Len(nodes) < Len(args)
      /\ next = "lookup" => Len(nodes) = Len(args)
  BY <1>2
<1> HIDE DEF nodes, next
<1> QED BY <1>2, <1>3, <1>4, ComposeStep

(* One more argument behind the comma.                                     *)
LEMMA JoinNextStep == PackOfArgsInv /\ JoinNext => PackOfArgsInv'
<1> SUFFICES ASSUME PackOfArgsInv, JoinNext PROVE PackOfArgsInv'
  OBVIOUS
<1> DEFINE L == Len(pack)
           nodes == <<L + 1>> \o pack
           next == IF L + 1 < Len(args) THEN "join" ELSE "lookup"
<1>1. /\ args \in Seq(ArgumentRecord) /\ pack \in Seq(DOMAIN args)
      /\ \A m, n \in DOMAIN pack : m # n => pack[m] # pack[n]
      /\ \A m \in DOMAIN pack : pack[m] \in 1..L
      /\ \A j \in 1..L : \E m \in DOMAIN pack : pack[m] = j
      /\ route = "comma" /\ pc = "join" /\ L < Len(args)
      /\ Compose(nodes, next)
  BY DEF PackOfArgsInv, ArgsInv, PackInv, JoinNext, Comma
<1>2. /\ nodes \in Seq(DOMAIN args) /\ Len(nodes) = L + 1 /\ L \in Nat /\ Len(args) \in Nat
      /\ DOMAIN nodes = 1..(L + 1) /\ DOMAIN pack = 1..L
      /\ nodes[1] = L + 1 /\ \A m \in 2..(L + 1) : nodes[m] = pack[m - 1]
  BY <1>1
<1> HIDE DEF nodes, L
<1>3. ASSUME NEW m \in 2..(L + 1)
      PROVE  /\ m - 1 \in DOMAIN pack /\ nodes[m] = pack[m - 1] /\ m \in Int
             /\ pack[m - 1] \in 1..L
  <2>1. m - 1 \in 1..L
    BY <1>2
  <2>2. m - 1 \in DOMAIN pack
    BY <1>2, <2>1
  <2>3. pack[m - 1] \in 1..L
    BY <1>1, <2>2
  <2>4. nodes[m] = pack[m - 1]
    BY <1>2
  <2>5. m \in Int
    BY <1>2
  <2> QED BY <2>2, <2>3, <2>4, <2>5
<1>4. \A m \in 2..(L + 1) : m - 1 \in DOMAIN pack /\ nodes[m] \in 1..L
  BY <1>3
<1>5. \A m \in DOMAIN nodes : nodes[m] \in 1..Len(nodes)
  <2>1. \A m \in 1..(L + 1) : m = 1 \/ m \in 2..(L + 1)
    BY <1>2
  <2>2. \A i \in 1..L : i \in 1..(L + 1)
    BY <1>2
  <2>3. L + 1 \in 1..(L + 1)
    BY <1>2
  <2> QED BY <1>2, <1>4, <2>1, <2>2, <2>3
<1>6. \A m, n \in DOMAIN nodes : m # n => nodes[m] # nodes[n]
  <2> SUFFICES ASSUME NEW m \in 1..(L + 1), NEW n \in 1..(L + 1), m # n
               PROVE  nodes[m] # nodes[n]
    BY <1>2
  <2>1. CASE m = 1
    BY <1>2, <1>4, <2>1
  <2>2. CASE n = 1
    BY <1>2, <1>4, <2>2
  <2>3. CASE m # 1 /\ n # 1
    <3>1. m \in 2..(L + 1) /\ n \in 2..(L + 1)
      BY <1>2, <2>3
    <3>2. m - 1 # n - 1
      BY <3>1, <1>3
    <3> QED BY <1>1, <1>3, <3>1, <3>2
  <2> QED BY <2>1, <2>2, <2>3
<1>7. \A j \in 1..Len(nodes) : \E m \in DOMAIN nodes : nodes[m] = j
  <2> SUFFICES ASSUME NEW j \in 1..(L + 1) PROVE \E m \in DOMAIN nodes : nodes[m] = j
    BY <1>2
  <2>1. CASE j = L + 1
    BY <1>2, <2>1
  <2>2. CASE j \in 1..L
    <3>1. PICK m \in 1..L : pack[m] = j
      BY <1>1, <1>2, <2>2
    <3>2. m + 1 \in 2..(L + 1) /\ (m + 1) - 1 = m
      BY <1>2
    <3>3. nodes[m + 1] = j /\ m + 1 \in DOMAIN nodes
      BY <1>2, <1>3, <3>1, <3>2
    <3> QED BY <3>3
  <2> QED BY <1>2, <2>1, <2>2
<1>8. /\ next \in {"join", "lookup"}
      /\ next = "join" => Len(nodes) < Len(args)
      /\ next = "lookup" => Len(nodes) = Len(args)
  BY <1>1, <1>2
<1> HIDE DEF next
<1> QED BY <1>1, <1>2, <1>5, <1>6, <1>7, <1>8, ComposeStep

(* A call of compose.                                                      *)
LEMMA CallComposeStep == PackOfArgsInv /\ CallCompose => PackOfArgsInv'
<1> SUFFICES ASSUME PackOfArgsInv, CallCompose PROVE PackOfArgsInv'
  OBVIOUS
<1> DEFINE nodes == [j \in DOMAIN args |-> j]
<1>1. /\ args \in Seq(ArgumentRecord)
      /\ pc = "spell" /\ route = "compose" /\ Compose(nodes, "lookup")
  BY DEF PackOfArgsInv, ArgsInv, CallCompose
<1>2. /\ DOMAIN nodes = 1..Len(args) /\ Len(args) \in Nat
      /\ \A j \in 1..Len(args) : nodes[j] = j
      /\ nodes \in Seq(DOMAIN args)
  BY <1>1
<1>3. Len(nodes) = Len(args)
  BY <1>2
<1> HIDE DEF nodes
<1> QED BY <1>1, <1>2, <1>3, ComposeStep

(* The order in which arguments are prepended.                             *)
LEMMA Reversed ==
  ASSUME args \in Seq(ArgumentRecord)
  PROVE  LET nodes == [j \in DOMAIN args |-> Len(args) + 1 - j]
         IN  /\ nodes \in Seq(DOMAIN args) /\ Len(nodes) = Len(args)
             /\ DOMAIN nodes = 1..Len(args)
             /\ \A m \in DOMAIN nodes : nodes[m] \in 1..Len(nodes)
             /\ \A m, n \in DOMAIN nodes : m # n => nodes[m] # nodes[n]
             /\ \A j \in 1..Len(nodes) : \E m \in DOMAIN nodes : nodes[m] = j
<1> DEFINE L == Len(args)
           nodes == [j \in DOMAIN args |-> L + 1 - j]
<1>1. /\ DOMAIN nodes = 1..L /\ L \in Nat /\ DOMAIN args = 1..L
      /\ \A j \in 1..L : nodes[j] = L + 1 - j
  OBVIOUS
<1>2. \A j \in 1..L : nodes[j] \in 1..L /\ nodes[nodes[j]] = j
  BY <1>1
<1>3. nodes \in Seq(DOMAIN args) /\ Len(nodes) = L
  BY <1>1, <1>2
<1> HIDE DEF nodes
<1>4. \A m, n \in DOMAIN nodes : m # n => nodes[m] # nodes[n]
  BY <1>1, <1>2
<1> QED BY <1>1, <1>2, <1>3, <1>4 DEF nodes

(* A call of the function object.                                          *)
LEMMA CallParametersStep == PackOfArgsInv /\ CallParameters => PackOfArgsInv'
<1> SUFFICES ASSUME PackOfArgsInv, CallParameters PROVE PackOfArgsInv'
  OBVIOUS
<1> DEFINE nodes == [j \in DOMAIN args |-> Len(args) + 1 - j]
<1>1. /\ args \in Seq(ArgumentRecord)
      /\ pc = "spell" /\ route = "parameters" /\ Compose(nodes, "lookup")
  BY DEF PackOfArgsInv, ArgsInv, CallParameters
<1>2. /\ nodes \in Seq(DOMAIN args) /\ Len(nodes) = Len(args)
      /\ \A m \in DOMAIN nodes : nodes[m] \in 1..Len(nodes)
      /\ \A m, n \in DOMAIN nodes : m # n => nodes[m] # nodes[n]
      /\ \A j \in 1..Len(nodes) : \E m \in DOMAIN nodes : nodes[m] = j
  BY <1>1, Reversed
<1> HIDE DEF nodes
<1> QED BY <1>1, <1>2, ComposeStep

(* A call of a Boost.Parameter function.                                   *)
LEMMA CallFunctionStep == PackOfArgsInv /\ CallFunction => PackOfArgsInv'
<1> SUFFICES ASSUME PackOfArgsInv, CallFunction PROVE PackOfArgsInv'
  OBVIOUS
<1> DEFINE nodes == [j \in DOMAIN args |-> Len(args) + 1 - j]
<1>1. /\ PcInv /\ ArgsInv /\ PackInv /\ StorageInv /\ LastInv
      /\ pc = "spell" /\ pc' = "match" /\ route = "function" /\ pack' = nodes
      /\ perfect' = perfect /\ route' = route /\ qualifier' = qualifier /\ args' = args
      /\ constructed' = constructed /\ built' = built /\ destroyed' = destroyed
      /\ lookups' = lookups /\ last' = last
  BY DEF CallFunction, PackOfArgsInv, callVars, storageVars
<1>2. /\ nodes \in Seq(DOMAIN args) /\ Len(nodes) = Len(args)
      /\ \A m \in DOMAIN nodes : nodes[m] \in 1..Len(nodes)
      /\ \A m, n \in DOMAIN nodes : m # n => nodes[m] # nodes[n]
      /\ \A j \in 1..Len(nodes) : \E m \in DOMAIN nodes : nodes[m] = j
  BY <1>1, Reversed DEF ArgsInv
<1> HIDE DEF nodes
<1>3. ArgsInv' /\ PcInv'
  BY <1>1 DEF ArgsInv, PcInv
<1>4. PackInv'
  BY <1>1, <1>2 DEF PackInv
<1>5. StorageInv'
  BY <1>1 DEF StorageInv
<1>6. LastInv'
  BY <1>1 DEF LastInv, LookedUp
<1>7. RefusedForAReason'
  BY <1>1 DEF RefusedForAReason
<1> QED BY <1>3, <1>4, <1>5, <1>6, <1>7 DEF PackOfArgsInv

(* match<> turns a call away for an argument only, or for a keyword used   *)
(* twice.                                                                  *)
LEMMA MatchStep == PackOfArgsInv /\ Match => PackOfArgsInv'
<1> SUFFICES ASSUME PackOfArgsInv, Match PROVE PackOfArgsInv'
  OBVIOUS
<1>1. /\ PcInv /\ ArgsInv /\ PackInv /\ StorageInv /\ LastInv
      /\ pc = "match" /\ route = "function" /\ Len(pack) = Len(args)
      /\ perfect' = perfect /\ route' = route /\ qualifier' = qualifier
      /\ args' = args /\ pack' = pack
      /\ constructed' = constructed /\ built' = built /\ destroyed' = destroyed
      /\ lookups' = lookups /\ last' = last
  BY DEF Match, PackOfArgsInv, PackInv, callVars, storageVars
<1>2. /\ pc' \in {"lookup", "rejected", "hard_error"}
      /\ pc' = "lookup" => /\ HasUniqueKeys(pack)
                           /\ \A m \in DOMAIN pack :
                                augment_predicate(args[pack[m]].key, args[pack[m]].tag)
      /\ pc' # "lookup" => \/ ~HasUniqueKeys(pack)
                           \/ \E m \in DOMAIN pack :
                                ~augment_predicate(args[pack[m]].key, args[pack[m]].tag)
  BY DEF Match
<1>3. ArgsInv' /\ PcInv'
  BY <1>1, <1>2 DEF ArgsInv, PcInv
<1>4. PackInv'
  <2>1. HasUniqueKeys(pack)' <=> HasUniqueKeys(pack)
    BY <1>1 DEF HasUniqueKeys
  <2>2. ASSUME NEW k \in Keys, NEW t
        PROVE  augment_predicate(k, t)' <=> augment_predicate(k, t)
    BY <1>1 DEF augment_predicate, check_consume_ref, check_out_ref, Reference, HoldsMaybe
  <2>3. ASSUME pc' = "lookup", NEW j \in DOMAIN args
        PROVE  augment_predicate(args[j].key, args[j].tag)'
    <3>1. PICK m \in DOMAIN pack : pack[m] = j
      BY <1>1 DEF PackInv, ArgsInv
    <3>2. augment_predicate(args[j].key, args[j].tag)
      BY <1>2, <2>3, <3>1
    <3>3. args[j].key \in Keys /\ args'[j] = args[j]
      BY <1>1, ArgumentFacts
    <3> QED BY <2>2, <3>2, <3>3
  <2>4. pc' = "lookup" => \A j \in DOMAIN args' : augment_predicate(args[j].key, args[j].tag)'
    BY <1>1, <2>3
  <2>5. pc' = "lookup" => HasUniqueKeys(pack)'
    BY <1>2, <2>1
  <2>6. pc' # "end" /\ pc' # "spell" /\ pc' # "join" /\ pc' # "match"
    BY <1>2
  <2> QED BY <1>1, <2>4, <2>5, <2>6 DEF PackInv
<1>5. StorageInv'
  BY <1>1, <1>2 DEF StorageInv
<1>6. LastInv'
  BY <1>1, <1>2 DEF LastInv, LookedUp, StorageInv
<1>7. RefusedForAReason'
  <2> SUFFICES ASSUME pc' # "lookup" PROVE RefusedForAReason'
    BY <1>2 DEF RefusedForAReason
  <2>1. CASE ~HasUniqueKeys(pack)
    <3>1. \E j, l \in DOMAIN args : j # l /\ args[j].key = args[l].key
      BY <1>1, <2>1, TwiceIsAReason DEF PackInv
    <3> QED BY <1>1, <3>1 DEF RefusedForAReason
  <2>2. CASE \E m \in DOMAIN pack : ~augment_predicate(args[pack[m]].key, args[pack[m]].tag)
    <3>1. PICK j \in DOMAIN args : ~augment_predicate(args[j].key, args[j].tag)
      BY <1>1, <2>2 DEF PackInv
    <3>2. args[j].tag # None
      BY <1>1 DEF ArgsInv
    <3> DEFINE q == qualifier[args[j].key]
               e == args[j].expr
    <3>3. Refusable(q, e)
      <4>1. /\ GivenTag(q, e, args[j].tag) /\ perfect \in BOOLEAN
            /\ args[j].key \in Keys /\ q \in Qualifiers /\ e \in Expression
        BY <1>1, <3>2, ArgumentIsGiven, ArgumentFacts DEF ArgsInv
      <4> QED BY <1>1, <3>1, <4>1, RefusedByMatch
    <3>4. Refusable(qualifier[args[j].key], args[j].expr)'
      BY <1>1, <3>3 DEF Refusable
    <3> QED BY <1>1, <3>4 DEF RefusedForAReason
  <2> QED BY <1>2, <2>1, <2>2
<1> QED BY <1>3, <1>4, <1>5, <1>6, <1>7 DEF PackOfArgsInv

-----------------------------------------------------------------------------
(* The operator[] that answers for a keyword is that of the one node made  *)
(* from its argument, if there is one.                                     *)
LEMMA OwnerIsSpelled ==
  ASSUME ArgsInv, PackInv, pc \in {"lookup", "end"}, NEW k
  PROVE  /\ Owners(k) = {} <=> Spelled(k) = {}
         /\ Owners(k) # {} => /\ Owner(k) \in DOMAIN args
                              /\ Spelled(k) = {Owner(k)}
<1>1. /\ pack \in Seq(DOMAIN args) /\ HasUniqueKeys(pack) /\ DOMAIN args = 1..Len(pack)
      /\ \A j \in 1..Len(pack) : \E m \in DOMAIN pack : pack[m] = j
  BY DEF PackInv, ArgsInv
<1>2. \A m \in DOMAIN pack : pack[m] \in DOMAIN args
  BY <1>1
<1>3. ASSUME NEW j \in Spelled(k) PROVE \E m \in Owners(k) : pack[m] = j
  BY <1>1, <1>3 DEF Spelled, Owners
<1>4. ASSUME NEW m \in Owners(k) PROVE pack[m] \in Spelled(k)
  BY <1>2 DEF Spelled, Owners
<1>5. \A m, n \in Owners(k) : m = n
  BY <1>1 DEF HasUniqueKeys, Owners
<1>6. ASSUME Owners(k) # {}
      PROVE  Owner(k) \in DOMAIN args /\ Spelled(k) = {Owner(k)}
  <2> DEFINE m == CHOOSE n \in Owners(k) : TRUE
  <2>1. m \in Owners(k)
    BY <1>6
  <2>2. Owner(k) = pack[m]
    BY DEF Owner
  <2> HIDE DEF m
  <2>3. pack[m] \in DOMAIN args
    BY <1>2, <2>1 DEF Owners
  <2>4. Spelled(k) = {pack[m]}
    BY <1>3, <1>4, <1>5, <2>1
  <2> QED BY <2>2, <2>3, <2>4
<1> QED BY <1>3, <1>4, <1>6

(* What was found depends on the call and its arguments alone.             *)
LEMMA SameFound ==
  ASSUME UNCHANGED <<callVars, args>>, NEW result
  PROVE  /\ DefaultGiven(result)' <=> DefaultGiven(result)
         /\ ArgumentFound(result)' <=> ArgumentFound(result)
<1>1. perfect' = perfect /\ route' = route /\ qualifier' = qualifier /\ args' = args
  BY DEF callVars
<1>2. \A k : Spelled(k)' = Spelled(k)
  BY <1>1 DEF Spelled
<1>3. \A t : ReferenceOf(t)' = ReferenceOf(t)
  BY <1>1 DEF ReferenceOf, Reference, HoldsMaybe
<1>4. DefaultGiven(result)' <=> DefaultGiven(result)
  BY <1>1, <1>2 DEF DefaultGiven
<1>5. ArgumentFound(result)' <=> ArgumentFound(result)
  BY <1>1, <1>2, <1>3 DEF ArgumentFound
<1> QED BY <1>4, <1>5

(* A pack that is only read is still the pack.                             *)
LEMMA SamePack ==
  ASSUME PackInv, ArgsInv, UNCHANGED <<callVars, args, pack>>, pc \in {"lookup", "end"},
         pc' \in {"lookup", "end", "rejected", "hard_error"}
  PROVE  PackInv' /\ ArgsInv'
<1>1. perfect' = perfect /\ route' = route /\ qualifier' = qualifier /\ args' = args /\ pack' = pack
  BY DEF callVars
<1>2. HasUniqueKeys(pack)'
  BY <1>1 DEF PackInv, HasUniqueKeys
<1>3. ASSUME NEW k \in Keys, NEW t
      PROVE  augment_predicate(k, t)' <=> augment_predicate(k, t)
  BY <1>1 DEF augment_predicate, check_consume_ref, check_out_ref, Reference, HoldsMaybe
<1>4. route = "function" =>
        \A j \in DOMAIN args' : augment_predicate(args[j].key, args[j].tag)'
  BY <1>1, <1>3, ArgumentFacts DEF PackInv
<1>5. /\ pack' \in Seq(DOMAIN args')
      /\ \A m, n \in DOMAIN pack' : m # n => pack'[m] # pack'[n]
      /\ \A m \in DOMAIN pack' : pack'[m] \in 1..Len(pack')
      /\ \A j \in 1..Len(pack') : \E m \in DOMAIN pack' : pack'[m] = j
      /\ Len(pack') = Len(args')
      /\ route' = "alone" => Len(args') = 1
  BY <1>1 DEF PackInv
<1>6. PackInv'
  BY <1>1, <1>2, <1>4, <1>5 DEF PackInv
<1>7. ArgsInv'
  BY <1>1 DEF ArgsInv
<1> QED BY <1>6, <1>7

(* A lookup that returns.                                                  *)
LEMMA FoundStep ==
  ASSUME PackOfArgsInv, CanLookUp, NEW result, Lookup(result),
         result.key \in Keys,
         result.from = 0 => DefaultGiven(result),
         result.from # 0 => ArgumentFound(result),
         \/ UNCHANGED storageVars
         \/ \E j \in DOMAIN args :
              args[j].expr.type = "maybe" /\ ~args[j].full /\ Construct2(j)
  PROVE  PackOfArgsInv'
<1>1. /\ PcInv /\ ArgsInv /\ PackInv /\ StorageInv /\ LastInv
      /\ pc = "lookup" /\ pc' = pc /\ lookups < MaxLookups /\ lookups' = lookups + 1
      /\ last' = result
      /\ perfect' = perfect /\ route' = route /\ qualifier' = qualifier
      /\ args' = args /\ pack' = pack
      /\ UNCHANGED <<callVars, args, pack>>
  BY DEF Lookup, CanLookUp, PackOfArgsInv, callVars
<1>2. ArgsInv' /\ PackInv' /\ PcInv'
  BY <1>1, SamePack DEF PcInv
<1>3. StorageInv'
  <2>1. lookups \in Nat /\ MaxLookups \in Nat /\ lookups' \in 0..MaxLookups
    BY <1>1, BoundsAssumption DEF StorageInv
  <2>2. CASE UNCHANGED storageVars
    <3>1. constructed' = constructed /\ built' = built /\ destroyed' = destroyed
      BY <2>2 DEF storageVars
    <3>2. \A j \in 1..MaxArgs : built[j] \in Nat /\ built[j] <= lookups
      BY <1>1 DEF StorageInv
    <3>3. \A j \in 1..MaxArgs : built[j] <= lookups + 1
      BY <2>1, <3>2
    <3> QED BY <1>1, <2>1, <3>1, <3>3 DEF StorageInv
  <2>3. CASE \E j \in DOMAIN args :
               args[j].expr.type = "maybe" /\ ~args[j].full /\ Construct2(j)
    <3>1. PICK j \in DOMAIN args :
               args[j].expr.type = "maybe" /\ ~args[j].full /\ Construct2(j)
      BY <2>3
    <3>2. /\ built' = [built EXCEPT ![j] = @ + 1]
          /\ constructed' = constructed \cup {j} /\ destroyed' = destroyed
      BY <3>1 DEF Construct2
    <3>3. j \in 1..MaxArgs
      BY <1>1, BoundsAssumption DEF ArgsInv
    <3>4. \A i \in 1..MaxArgs : built[i] \in Nat /\ built[i] <= lookups
      BY <1>1 DEF StorageInv
    <3>5. /\ built' \in [1..MaxArgs -> Nat] /\ built'[j] = built[j] + 1
          /\ \A i \in 1..MaxArgs : i # j => built'[i] = built[i]
      BY <1>1, <3>2, <3>3, <3>4 DEF StorageInv
    <3>6. \A i \in 1..MaxArgs : built'[i] <= lookups' /\ (built'[i] > 0 <=> i \in constructed')
      <4> SUFFICES ASSUME NEW i \in 1..MaxArgs
                   PROVE  built'[i] <= lookups' /\ (built'[i] > 0 <=> i \in constructed')
        OBVIOUS
      <4>1. CASE i = j
        BY <1>1, <2>1, <3>2, <3>4, <3>5, <4>1
      <4>2. CASE i # j
        <5>1. built[i] > 0 <=> i \in constructed
          BY <1>1 DEF StorageInv
        <5> QED BY <1>1, <2>1, <3>2, <3>4, <3>5, <4>2, <5>1
      <4> QED BY <4>1, <4>2
    <3>7. constructed' \subseteq {i \in DOMAIN args' : args'[i].expr.type = "maybe" /\ ~args'[i].full}
      BY <1>1, <3>1, <3>2 DEF StorageInv
    <3>8. destroyed' = [i \in 1..MaxArgs |-> IF pc' = "end" /\ i \in constructed' THEN 1 ELSE 0]
      BY <1>1, <3>2 DEF StorageInv
    <3> QED BY <1>1, <2>1, <3>5, <3>6, <3>7, <3>8 DEF StorageInv
  <2> QED BY <2>2, <2>3
<1>4. LastInv'
  BY <1>1, SameFound DEF LastInv
<1>5. RefusedForAReason'
  BY <1>1 DEF RefusedForAReason
<1> QED BY <1>2, <1>3, <1>4, <1>5 DEF PackOfArgsInv

(* A lookup that is refused.                                               *)
LEMMA FailStep ==
  ASSUME PackOfArgsInv, CanLookUp, NEW outcome \in {"rejected", "hard_error"}, NEW attempt,
         Fail(outcome, attempt),
         \/ outcome = "rejected" /\ attempt.how = "keyword" /\ Spelled(attempt.key) = {}
         \/ /\ outcome = "rejected" /\ attempt.how = "default"
            /\ Refusable(qualifier[attempt.key], attempt.given)
         \/ /\ outcome = "hard_error" /\ attempt.how \in {"keyword", "lazy"} /\ route # "alone"
            /\ \E j \in Spelled(attempt.key) : args[j].expr.type = "maybe"
  PROVE  PackOfArgsInv'
<1>1. /\ PcInv /\ ArgsInv /\ PackInv /\ StorageInv /\ LastInv
      /\ pc = "lookup" /\ pc' = outcome /\ last' = attempt
      /\ perfect' = perfect /\ route' = route /\ qualifier' = qualifier
      /\ args' = args /\ pack' = pack
      /\ constructed' = constructed /\ built' = built /\ destroyed' = destroyed
      /\ lookups' = lookups
      /\ UNCHANGED <<callVars, args, pack>>
  BY DEF Fail, CanLookUp, PackOfArgsInv, callVars, storageVars
<1>2. ArgsInv' /\ PackInv' /\ PcInv'
  BY <1>1, SamePack DEF PcInv
<1>3. StorageInv'
  BY <1>1 DEF StorageInv
<1>4. LastInv'
  BY <1>1 DEF LastInv, LookedUp
<1>5. RefusedForAReason'
  <2>1. Spelled(attempt.key)' = Spelled(attempt.key)
    BY <1>1 DEF Spelled
  <2>2. Refusable(qualifier[attempt.key], attempt.given)' <=>
          Refusable(qualifier[attempt.key], attempt.given)
    BY <1>1 DEF Refusable
  <2>3. \/ pc' = "rejected" /\ last'.how = "keyword" /\ Spelled(last.key)' = {}
        \/ /\ pc' = "rejected" /\ last'.how = "default"
           /\ Refusable(qualifier[last.key], last.given)'
        \/ /\ pc' = "hard_error" /\ last'.how \in {"keyword", "lazy"} /\ route' # "alone"
           /\ \E j \in Spelled(last.key)' : args'[j].expr.type = "maybe"
    BY <1>1, <2>1, <2>2 DEF Spelled, Refusable
  <2> QED BY <2>3 DEF RefusedForAReason
<1> QED BY <1>2, <1>3, <1>4, <1>5 DEF PackOfArgsInv

(* The node that answers, and the maybe<> it may be.                       *)
LEMMA OwnerFacts ==
  ASSUME PackOfArgsInv, pc = "lookup", NEW k \in Keys, Owners(k) # {}
  PROVE  /\ Owner(k) \in DOMAIN args /\ Owner(k) # 0
         /\ Spelled(k) = {Owner(k)}
         /\ args[Owner(k)].tag \in Tag
         /\ args[Owner(k)].tag.type = args[Owner(k)].expr.type
         /\ args[Owner(k)].full \in BOOLEAN
<1>1. ArgsInv /\ PackInv
  BY DEF PackOfArgsInv
<1>2. Owner(k) \in DOMAIN args /\ Spelled(k) = {Owner(k)}
  BY <1>1, OwnerIsSpelled
<1>3. args[Owner(k)].tag # None
  BY <1>1, <1>2 DEF ArgsInv
<1> QED BY <1>1, <1>2, <1>3, TaggedArgument, ArgumentFacts

(* pack[keyword].                                                          *)
LEMMA LookupKeywordStep ==
  ASSUME PackOfArgsInv, NEW k \in Keys, LookupKeyword(k)
  PROVE  PackOfArgsInv'
<1>1. CanLookUp /\ pc = "lookup" /\ ArgsInv /\ PackInv
  BY DEF LookupKeyword, CanLookUp, PackOfArgsInv
<1>2. CASE Owners(k) = {}
  <2> DEFINE attempt == Found(k, "keyword", 0, None)
  <2>1. Fail("rejected", attempt) /\ Spelled(k) = {}
    BY <1>1, <1>2, OwnerIsSpelled DEF LookupKeyword
  <2>2. attempt.how = "keyword" /\ attempt.key = k
    BY DEF Found
  <2> HIDE DEF attempt
  <2> QED BY <1>1, <2>1, <2>2, FailStep
<1>3. CASE Owners(k) # {} /\ IsMaybeNode(k)
  <2> DEFINE attempt == Found(k, "keyword", 0, None)
  <2>1. /\ Fail("hard_error", attempt) /\ route # "alone"
        /\ \E j \in Spelled(k) : args[j].expr.type = "maybe"
    BY <1>1, <1>3, OwnerFacts DEF LookupKeyword, IsMaybeNode, HoldsMaybe
  <2>2. attempt.how = "keyword" /\ attempt.key = k
    BY DEF Found
  <2> HIDE DEF attempt
  <2> QED BY <1>1, <2>1, <2>2, FailStep
<1>4. CASE Owners(k) # {} /\ ~IsMaybeNode(k)
  <2> DEFINE result == Found(k, "keyword", Owner(k), ReferenceOf(args[Owner(k)].tag))
  <2>1. Lookup(result) /\ UNCHANGED storageVars
    BY <1>4 DEF LookupKeyword
  <2>2. result.key = k /\ result.from = Owner(k) /\ result.in = "none" /\ result.given = None
        /\ result.ref = ReferenceOf(args[Owner(k)].tag) /\ result.how = "keyword"
    BY DEF Found
  <2> HIDE DEF result
  <2>3. result.from # 0 /\ ArgumentFound(result)
    BY <1>1, <1>4, <2>2, OwnerFacts DEF ArgumentFound, IsMaybeNode, HoldsMaybe
  <2> QED BY <1>1, <2>1, <2>2, <2>3, FoundStep
<1> QED BY <1>2, <1>3, <1>4

(* pack[keyword || function].                                              *)
LEMMA LookupLazyStep ==
  ASSUME PackOfArgsInv, NEW k \in Keys, LookupLazy(k)
  PROVE  PackOfArgsInv'
<1>1. CanLookUp /\ pc = "lookup" /\ ArgsInv /\ PackInv
  BY DEF LookupLazy, CanLookUp, PackOfArgsInv
<1>2. CASE Owners(k) = {}
  <2> DEFINE result == Found(k, "lazy", 0, [rvalue |-> TRUE, const |-> FALSE, type |-> "class"])
  <2>1. Lookup(result) /\ UNCHANGED storageVars /\ Spelled(k) = {}
    BY <1>1, <1>2, OwnerIsSpelled DEF LookupLazy
  <2>2. /\ result.key = k /\ result.from = 0 /\ result.in = "none" /\ result.given = None
        /\ result.how = "lazy"
        /\ result.ref = [rvalue |-> TRUE, const |-> FALSE, type |-> "class"]
    BY DEF Found
  <2> HIDE DEF result
  <2>3. DefaultGiven(result)
    BY <2>1, <2>2 DEF DefaultGiven
  <2> QED BY <1>1, <2>1, <2>2, <2>3, FoundStep
<1>3. CASE Owners(k) # {} /\ IsMaybeNode(k)
  <2> DEFINE attempt == Found(k, "lazy", 0, None)
  <2>1. /\ Fail("hard_error", attempt) /\ route # "alone"
        /\ \E j \in Spelled(k) : args[j].expr.type = "maybe"
    BY <1>1, <1>3, OwnerFacts DEF LookupLazy, IsMaybeNode, HoldsMaybe
  <2>2. attempt.how = "lazy" /\ attempt.key = k
    BY DEF Found
  <2> HIDE DEF attempt
  <2> QED BY <1>1, <2>1, <2>2, FailStep
<1>4. CASE Owners(k) # {} /\ ~IsMaybeNode(k)
  <2> DEFINE result == Found(k, "lazy", Owner(k), ReferenceOf(args[Owner(k)].tag))
  <2>1. Lookup(result) /\ UNCHANGED storageVars
    BY <1>4 DEF LookupLazy
  <2>2. result.key = k /\ result.from = Owner(k) /\ result.in = "none" /\ result.given = None
        /\ result.ref = ReferenceOf(args[Owner(k)].tag) /\ result.how = "lazy"
    BY DEF Found
  <2> HIDE DEF result
  <2>3. result.from # 0 /\ ArgumentFound(result)
    BY <1>1, <1>4, <2>2, OwnerFacts DEF ArgumentFound, IsMaybeNode, HoldsMaybe
  <2> QED BY <1>1, <2>1, <2>2, <2>3, FoundStep
<1> QED BY <1>2, <1>3, <1>4

(* A maybe<> with a default: only an empty one takes it, and only a class  *)
(* or a wrapper is copied into the storage.                                *)
LEMMA LookupMaybeStep ==
  ASSUME PackOfArgsInv, CanLookUp, NEW k \in Keys, NEW e \in Defaults, NEW d,
         Owners(k) # {}, IsMaybeNode(k), LookupMaybe(k, e, d)
  PROVE  PackOfArgsInv'
<1> DEFINE j == Owner(k)
           found == Found(k, "default", j, Reference(args[j].tag))
<1>1. /\ pc = "lookup" /\ j \in DOMAIN args /\ j # 0 /\ Spelled(k) = {j}
      /\ args[j].tag.type = "maybe" /\ args[j].expr.type = "maybe" /\ route # "alone"
      /\ args[j].full \in BOOLEAN
  BY OwnerFacts DEF CanLookUp, IsMaybeNode, HoldsMaybe
<1>2. /\ found = [how |-> "default", key |-> k, from |-> j, ref |-> Reference(args[j].tag),
                  given |-> None, in |-> "none"]
      /\ ReferenceOf(args[j].tag) = Reference(args[j].tag)
  BY <1>1 DEF Found, ReferenceOf
<1>3. IF args[j].full
      THEN Lookup([found EXCEPT !.in = "value"]) /\ UNCHANGED storageVars
      ELSE IF d.type = "scalar"
      THEN Lookup([found EXCEPT !.in = "default", !.given = e]) /\ UNCHANGED storageVars
      ELSE Lookup([found EXCEPT !.in = "storage", !.given = e]) /\ Construct2(j)
  BY DEF LookupMaybe
<1> HIDE DEF j, found
<1>4. CASE args[j].full
  <2> DEFINE result == [found EXCEPT !.in = "value"]
  <2>1. Lookup(result) /\ UNCHANGED storageVars
    BY <1>3, <1>4
  <2>2. result.key = k /\ result.from = j /\ result.in = "value" /\ result.given = None
        /\ result.how = "default" /\ result.ref = Reference(args[j].tag)
    BY <1>2
  <2> HIDE DEF result
  <2>3. ArgumentFound(result)
    BY <1>1, <1>2, <1>4, <2>2 DEF ArgumentFound
  <2> QED BY <1>1, <2>1, <2>2, <2>3, FoundStep
<1>5. CASE ~args[j].full /\ d.type = "scalar"
  <2> DEFINE result == [found EXCEPT !.in = "default", !.given = e]
  <2>1. Lookup(result) /\ UNCHANGED storageVars
    BY <1>3, <1>5
  <2>2. result.key = k /\ result.from = j /\ result.in = "default" /\ result.given = e
        /\ result.how = "default" /\ result.ref = Reference(args[j].tag)
    BY <1>2
  <2> HIDE DEF result
  <2>3. ArgumentFound(result)
    BY <1>1, <1>2, <1>5, <2>2 DEF ArgumentFound
  <2> QED BY <1>1, <2>1, <2>2, <2>3, FoundStep
<1>6. CASE ~args[j].full /\ d.type # "scalar"
  <2> DEFINE result == [found EXCEPT !.in = "storage", !.given = e]
  <2>1. Lookup(result) /\ Construct2(j)
    BY <1>3, <1>6
  <2>2. result.key = k /\ result.from = j /\ result.in = "storage" /\ result.given = e
        /\ result.how = "default" /\ result.ref = Reference(args[j].tag)
    BY <1>2
  <2> HIDE DEF result
  <2>3. ArgumentFound(result)
    BY <1>1, <1>2, <1>6, <2>2 DEF ArgumentFound
  <2> QED BY <1>1, <1>6, <2>1, <2>2, <2>3, FoundStep
<1> QED BY <1>1, <1>4, <1>5, <1>6

(* pack[keyword | default].                                                *)
LEMMA LookupDefaultStep ==
  ASSUME PackOfArgsInv, NEW k \in Keys, NEW e \in Defaults, LookupDefault(k, e)
  PROVE  PackOfArgsInv'
<1> DEFINE d == OrDefault(perfect, qualifier[k], e)
           unspelled == [Found(k, "default", 0, d) EXCEPT !.given = e]
<1>1. /\ CanLookUp /\ pc = "lookup" /\ ArgsInv /\ PackInv
      /\ perfect \in BOOLEAN /\ qualifier[k] \in Qualifiers /\ e \in Expression
  BY DefaultsAssumption DEF LookupDefault, CanLookUp, PackOfArgsInv, ArgsInv
<1>2. IF d = None THEN Fail("rejected", unspelled)
      ELSE IF Owners(k) = {} THEN Lookup(unspelled) /\ UNCHANGED storageVars
      ELSE IF IsMaybeNode(k) THEN LookupMaybe(k, e, d)
      ELSE /\ Lookup(Found(k, "default", Owner(k), ReferenceOf(args[Owner(k)].tag)))
           /\ UNCHANGED storageVars
  BY DEF LookupDefault
<1>3. unspelled = [how |-> "default", key |-> k, from |-> 0, ref |-> d, given |-> e, in |-> "none"]
  BY DEF Found
<1>4. d = None => Refusable(qualifier[k], e)
  <2>1. ASSUME NEW r, NEW c, NEW t \in {"scalar", "class", "maybe", "wrapper"}
        PROVE  [rvalue |-> r, const |-> c, type |-> t] # None
    BY DEF None
  <2>2. (IF e.wrapper = "no" THEN e.type ELSE "wrapper") \in {"scalar", "class", "maybe", "wrapper"}
    BY <1>1 DEF Expression
  <2>3. d = None => Refuses(perfect, qualifier[k], e)
    BY <1>1, <2>1, <2>2, DefaultIsPassed
  <2> QED BY <1>1, <2>3 DEF Refuses, Refusable
<1>5. d = OrDefault(perfect, qualifier[k], e)
  OBVIOUS
<1> HIDE DEF d, unspelled
<1>6. unspelled.key = k /\ unspelled.from = 0 /\ unspelled.in = "none" /\ unspelled.given = e
      /\ unspelled.how = "default" /\ unspelled.ref = d
  BY <1>3
<1>7. CASE d = None
  BY <1>1, <1>2, <1>4, <1>6, <1>7, FailStep
<1>8. CASE d # None /\ Owners(k) = {}
  <2>1. Spelled(k) = {}
    BY <1>1, <1>8, OwnerIsSpelled
  <2>2. DefaultGiven(unspelled)
    BY <1>5, <1>6, <1>8, <2>1 DEF DefaultGiven
  <2> QED BY <1>1, <1>2, <1>6, <1>8, <2>2, FoundStep
<1>9. CASE d # None /\ Owners(k) # {} /\ IsMaybeNode(k)
  BY <1>1, <1>2, <1>9, LookupMaybeStep
<1>10. CASE d # None /\ Owners(k) # {} /\ ~IsMaybeNode(k)
  <2> DEFINE result == Found(k, "default", Owner(k), ReferenceOf(args[Owner(k)].tag))
  <2>1. Lookup(result) /\ UNCHANGED storageVars
    BY <1>2, <1>10
  <2>2. result.key = k /\ result.from = Owner(k) /\ result.in = "none" /\ result.given = None
        /\ result.ref = ReferenceOf(args[Owner(k)].tag) /\ result.how = "default"
    BY DEF Found
  <2> HIDE DEF result
  <2>3. result.from # 0 /\ ArgumentFound(result)
    BY <1>1, <1>10, <2>2, OwnerFacts DEF ArgumentFound, IsMaybeNode, HoldsMaybe
  <2> QED BY <1>1, <2>1, <2>2, <2>3, FoundStep
<1> QED BY <1>7, <1>8, <1>9, <1>10

(* The end of the full expression, where its temporaries are destroyed.    *)
LEMMA EndExpressionStep == PackOfArgsInv /\ EndExpression => PackOfArgsInv'
<1> SUFFICES ASSUME PackOfArgsInv, EndExpression PROVE PackOfArgsInv'
  OBVIOUS
<1>1. /\ PcInv /\ ArgsInv /\ PackInv /\ StorageInv /\ LastInv
      /\ pc = "lookup" /\ pc' = "end"
      /\ destroyed' = [j \in 1..MaxArgs |-> IF j \in constructed THEN 1 ELSE 0]
      /\ args' = args /\ constructed' = constructed /\ built' = built
      /\ lookups' = lookups /\ last' = last
      /\ UNCHANGED <<callVars, args, pack>>
  BY DEF EndExpression, PackOfArgsInv
<1>2. ArgsInv' /\ PackInv' /\ PcInv'
  BY <1>1, SamePack DEF PcInv
<1>3. StorageInv'
  BY <1>1 DEF StorageInv
<1>4. LastInv'
  BY <1>1, SameFound DEF LastInv, LookedUp
<1>5. RefusedForAReason'
  BY <1>1 DEF RefusedForAReason
<1> QED BY <1>2, <1>3, <1>4, <1>5 DEF PackOfArgsInv

-----------------------------------------------------------------------------
(* A named argument is written.                                            *)
LEMMA SpellNamedStep == PackOfArgsInv /\ SpellNamed => PackOfArgsInv'
<1> SUFFICES ASSUME PackOfArgsInv, SpellNamed PROVE PackOfArgsInv'
  OBVIOUS
<1>1. PICK k \in Keys : \E e \in Expressions(k) : Spell(k, e, TRUE, Named(perfect, qualifier[k], e))
  BY DEF SpellNamed
<1>2. PICK e \in Expressions(k) : Spell(k, e, TRUE, Named(perfect, qualifier[k], e))
  BY <1>1
<1>3. e \in Expression
  BY ExpressionsAssumption DEF Expressions
<1> QED BY <1>2, <1>3, SpellStep

(* A positional argument is written.                                       *)
LEMMA SpellPositionalStep == PackOfArgsInv /\ SpellPositional => PackOfArgsInv'
<1> SUFFICES ASSUME PackOfArgsInv, SpellPositional PROVE PackOfArgsInv'
  OBVIOUS
<1>1. PICK k \in Keys : \E e \in ExpressionsFor[k] : Spell(k, e, FALSE, Positional(perfect, e))
  BY DEF SpellPositional
<1>2. PICK e \in ExpressionsFor[k] : Spell(k, e, FALSE, Positional(perfect, e))
  BY <1>1
<1>3. e \in Expression /\ route \in {"parameters", "function"}
  BY ExpressionsAssumption DEF SpellPositional
<1> QED BY <1>2, <1>3, SpellStep

(* Nothing happens.                                                        *)
LEMMA ArgPackStutter == PackOfArgsInv /\ UNCHANGED vars => PackOfArgsInv'
<1> SUFFICES ASSUME PackOfArgsInv, UNCHANGED vars PROVE PackOfArgsInv'
  OBVIOUS
<1>1. /\ perfect' = perfect /\ route' = route /\ qualifier' = qualifier /\ pc' = pc
      /\ args' = args /\ pack' = pack
      /\ constructed' = constructed /\ built' = built /\ destroyed' = destroyed
      /\ lookups' = lookups /\ last' = last
      /\ UNCHANGED <<callVars, args>>
  BY DEF vars, callVars, storageVars
<1>2. PcInv' /\ ArgsInv' /\ StorageInv' /\ RefusedForAReason'
  <2>1. PcInv'
    BY <1>1 DEF PackOfArgsInv, PcInv
  <2>2. ArgsInv'
    BY <1>1 DEF PackOfArgsInv, ArgsInv
  <2>3. StorageInv'
    BY <1>1 DEF PackOfArgsInv, StorageInv
  <2>4. RefusedForAReason'
    BY <1>1 DEF PackOfArgsInv, RefusedForAReason, Refusable, Spelled
  <2> QED BY <2>1, <2>2, <2>3, <2>4
<1>3. PackInv'
  BY <1>1 DEF PackOfArgsInv, PackInv, HasUniqueKeys, augment_predicate, check_consume_ref,
              check_out_ref, Reference, HoldsMaybe
<1>4. LastInv'
  BY <1>1, SameFound DEF PackOfArgsInv, LastInv, LookedUp
<1> QED BY <1>2, <1>3, <1>4 DEF PackOfArgsInv

(* The invariant of every call.                                            *)
LEMMA PackOfArgsInvariant == Spec => []PackOfArgsInv
<1>1. PackOfArgsInv /\ [Next]_vars => PackOfArgsInv'
  BY SpellNamedStep, SpellPositionalStep, UseAloneStep, JoinTaggedStep, JoinNextStep,
     CallComposeStep, CallParametersStep, CallFunctionStep, MatchStep,
     LookupKeywordStep, LookupDefaultStep, LookupLazyStep, EndExpressionStep,
     ArgPackStutter DEF Next
<1> QED BY <1>1, ArgPackInit, PTL DEF Spec

-----------------------------------------------------------------------------
(* A set of naturals has a least member.                                   *)
LEMMA LeastNatural ==
  ASSUME NEW T, T \subseteq Nat, T # {}
  PROVE  \E x \in T : \A y \in T : ~(y < x)
<1> DEFINE R == OpToRel(<, Nat)
<1>1. \A x, y \in Nat : <<y, x>> \in R <=> y < x
  BY DEF OpToRel
<1>2. IsWellFoundedOn(R, Nat)
  BY NatLessThanWellFounded
<1> HIDE DEF R
<1>3. \E x \in T : \A y \in T : ~(<<y, x>> \in R)
  BY <1>2, WFMin
<1> QED BY <1>1, <1>3

(* The walk from the head stops at the one node that has the keyword, or   *)
(* at the end.                                                             *)
WalksTo(w, L, hit, o) ==
  /\ L \in Nat /\ o \in 1..(L + 1)
  /\ \A m \in 1..L : m \in hit <=> m = o
  /\ \A m \in 1..(L + 1) :
       w[m] = IF m > L THEN 0 ELSE IF m \in hit THEN m ELSE w[m + 1]

(* A walk along the pack returns the node it looks for, or 0 if no node is *)
(* that.                                                                   *)
LEMMA WalkFinds ==
  ASSUME NEW w, NEW L, NEW hit, NEW o, WalksTo(w, L, hit, o)
  PROVE  w[1] = IF o = L + 1 THEN 0 ELSE o
<1> USE DEF WalksTo
<1> DEFINE v == IF o = L + 1 THEN 0 ELSE o
           missed == {n \in Nat : n < o /\ w[o - n] # v}
<1>1. w[o] = v
  BY Z3
<1>2. missed = {}
  <2> SUFFICES ASSUME missed # {} PROVE FALSE
    OBVIOUS
  <2>1. PICK n \in missed : \A y \in missed : ~(y < n)
    BY LeastNatural
  <2>2. n \in Nat /\ n < o /\ w[o - n] # v
    BY <2>1
  <2>3. n # 0
    <3>1. n = 0 => o - n = o
      OBVIOUS
    <3> QED BY <1>1, <2>2, <3>1
  <2>4. /\ n - 1 \in Nat /\ n - 1 < n /\ n - 1 < o /\ o - (n - 1) = (o - n) + 1
        /\ o - n \in 1..(L + 1) /\ ~(o - n > L) /\ o - n # o /\ o - n \in 1..L
    BY <2>2, <2>3
  <2>5. w[(o - n) + 1] = v
    BY <2>1, <2>4
  <2>6. w[o - n] = w[(o - n) + 1]
    BY <2>4
  <2> QED BY <2>2, <2>5, <2>6
<1>3. o - 1 \in Nat /\ o - 1 < o /\ o - (o - 1) = 1
  OBVIOUS
<1> QED BY <1>2, <1>3

(* A lookup by key finds the node of the argument that owns the key.       *)
LEMMA NodeOfOwner ==
  ASSUME ArgsInv, PackInv, pc \in {"lookup", "end"}, NEW k
  PROVE  /\ Owners(k) = {} => NodeOf(k) = 0
         /\ \A m \in Owners(k) : NodeOf(k) = m
<1> DEFINE L == Len(pack)
           step(w) == [m \in 1..(L + 1) |->
                         IF m > L THEN 0 ELSE IF args[pack[m]].key = k THEN m ELSE w[m + 1]]
           walk == CHOOSE w : w = step(w)
<1>1. L \in Nat /\ DOMAIN pack = 1..L
  BY DEF PackInv
<1>2. \A m, n \in Owners(k) : m = n
  BY DEF PackInv, HasUniqueKeys, Owners
<1>3. PICK o \in 1..(L + 1) : \A m \in 1..L : m \in Owners(k) <=> m = o
  <2>1. CASE Owners(k) = {}
    <3>1. L + 1 \in 1..(L + 1) /\ \A m \in 1..L : m # L + 1
      BY <1>1
    <3> QED BY <2>1, <3>1
  <2>2. CASE Owners(k) # {}
    <3>1. PICK o \in Owners(k) : TRUE
      BY <2>2
    <3>2. o \in 1..(L + 1)
      BY <1>1 DEF Owners
    <3> QED BY <1>2, <3>1, <3>2
  <2> QED BY <2>1, <2>2
<1>4. \A m \in 1..L : args[pack[m]].key = k <=> m = o
  BY <1>1, <1>3 DEF Owners
<1>5. NodeOf(k) = walk[1]
  BY DEF NodeOf
<1>6. walk = step(walk)
  <2> DEFINE g == [m \in 1..(L + 1) |-> IF m <= o /\ o # L + 1 THEN o ELSE 0]
  <2>1. ASSUME NEW m \in 1..(L + 1)
        PROVE  g[m] = IF m > L THEN 0 ELSE IF args[pack[m]].key = k THEN m ELSE g[m + 1]
    <3>1. g[m] = IF m <= o /\ o # L + 1 THEN o ELSE 0
      OBVIOUS
    <3>2. CASE m > L
      BY <1>1, <3>1, <3>2
    <3>3. CASE ~(m > L)
      <4>1. m \in 1..L /\ m + 1 \in 1..(L + 1)
        BY <1>1, <3>3
      <4>2. g[m + 1] = IF m + 1 <= o /\ o # L + 1 THEN o ELSE 0
        BY <4>1
      <4> HIDE DEF g
      <4> QED BY <1>1, <1>4, <3>1, <3>3, <4>1, <4>2
    <3> QED BY <3>2, <3>3
  <2>2. g = step(g)
    BY <2>1
  <2> HIDE DEF g, step
  <2> QED BY <2>2
<1>7. ASSUME NEW m \in 1..(L + 1)
      PROVE  walk[m] = IF m > L THEN 0 ELSE IF m \in Owners(k) THEN m ELSE walk[m + 1]
  <2>1. step(walk)[m] = IF m > L THEN 0 ELSE IF args[pack[m]].key = k THEN m ELSE walk[m + 1]
    OBVIOUS
  <2>2. ~(m > L) => m \in 1..L
    BY <1>1
  <2> HIDE DEF walk, step
  <2> QED BY <1>3, <1>4, <1>6, <2>1, <2>2
<1> HIDE DEF walk
<1>8. walk[1] = IF o = L + 1 THEN 0 ELSE o
  <2>1. \A m \in 1..(L + 1) :
           walk[m] = IF m > L THEN 0 ELSE IF m \in Owners(k) THEN m ELSE walk[m + 1]
    BY <1>7
  <2>2. WalksTo(walk, L, Owners(k), o)
    BY <1>1, <1>3, <2>1 DEF WalksTo
  <2> QED BY <2>2, WalkFinds
<1>9. Owners(k) = {} => o = L + 1
  BY <1>1, <1>3
<1>10. \A m \in Owners(k) : m = o /\ o # L + 1
  BY <1>1, <1>3 DEF Owners
<1> QED BY <1>5, <1>8, <1>9, <1>10

-----------------------------------------------------------------------------
(* Every variable has its type.                                            *)
THEOREM ArgPackTypes == Spec => []TypeOK
<1>1. PackOfArgsInv => TypeOK
  <2> SUFFICES ASSUME PackOfArgsInv PROVE TypeOK
    OBVIOUS
  <2> USE DEF PackOfArgsInv
  <2>1. ASSUME NEW j \in DOMAIN args
        PROVE  /\ args[j].key \in Keys
               /\ args[j].named \in BOOLEAN
               /\ args[j].tag = None => pc = "rejected" /\ j = Len(args)
               /\ args[j].tag # None => args[j].tag.type = args[j].expr.type
    BY ArgumentFacts, TaggedArgument DEF ArgsInv
  <2>2. built \in [1..MaxArgs -> 0..MaxLookups]
    <3>1. ASSUME NEW j \in 1..MaxArgs PROVE built[j] \in 0..MaxLookups
      BY BoundsAssumption DEF StorageInv
    <3> QED BY <3>1 DEF StorageInv
  <2>3. destroyed \in [1..MaxArgs -> 0..1]
    BY DEF StorageInv
  <2>4. \A m \in DOMAIN pack : pack[m] \in DOMAIN args
    BY DEF PackInv
  <2> QED BY <2>1, <2>2, <2>3, <2>4 DEF TypeOK, PcInv, ArgsInv, StorageInv
<1> QED BY <1>1, PackOfArgsInvariant, PTL

(* A lookup returns the one argument given for the keyword, as it was      *)
(* tagged, and the default exactly when there is none, on every route and  *)
(* for any number of arguments.                                            *)
THEOREM LookupsFindTheirArguments == Spec => []LookupFindsItsArgument
<1>1. PackOfArgsInv => LookupFindsItsArgument
  <2> SUFFICES ASSUME PackOfArgsInv, LookedUp PROVE LookupFindsItsArgument
    BY DEF LookupFindsItsArgument
  <2>1. CASE last.from = 0
    BY <2>1 DEF PackOfArgsInv, LastInv, DefaultGiven, LookupFindsItsArgument
  <2>2. CASE last.from # 0
    <3>1. ArgumentFound(last) /\ ArgsInv /\ pc # "rejected"
      BY <2>2 DEF PackOfArgsInv, LastInv, LookedUp
    <3>2. /\ last.from \in DOMAIN args
          /\ args[last.from].tag.type = args[last.from].expr.type
      BY <3>1, TaggedArgument DEF ArgumentFound, ArgsInv
    <3> QED
      BY <2>2, <3>1, <3>2
      DEF ArgumentFound, LookupFindsItsArgument, ReferenceOf, Reference, HoldsMaybe
  <2> QED BY <2>1, <2>2
<1> QED BY <1>1, PackOfArgsInvariant, PTL

(* What the lookups constructed in the storage of a maybe<> is destroyed   *)
(* at the end of the full expression, once, and nothing else is.           *)
THEOREM DefaultsAreDestroyed == Spec => []MaybeDefaultsAreDestroyed
<1>1. PackOfArgsInv => MaybeDefaultsAreDestroyed
  <2> SUFFICES ASSUME PackOfArgsInv, pc = "end", NEW j \in 1..MaxArgs
               PROVE  /\ destroyed[j] = (IF built[j] > 0 THEN 1 ELSE 0)
                      /\ built[j] > 0 => args[j].expr.type = "maybe" /\ ~args[j].full
    BY DEF MaybeDefaultsAreDestroyed
  <2> QED BY DEF PackOfArgsInv, StorageInv
<1> QED BY <1>1, PackOfArgsInvariant, PTL

(* An expression is refused only for an argument or a default that its     *)
(* qualifier may refuse, a keyword used twice, a missing argument or a     *)
(* maybe<> looked up without a default.                                    *)
THEOREM RefusalsHaveReasons == Spec => []RefusedForAReason
<1>1. PackOfArgsInv => RefusedForAReason
  BY DEF PackOfArgsInv
<1> QED BY <1>1, PackOfArgsInvariant, PTL

(* The qualifiers enforced on the way are those of the tag.                *)
LEMMA EnforcedCategory ==
  ASSUME PackOfArgsInv, pc \in {"lookup", "end"}, Enforced, NEW j \in DOMAIN args,
         args[j].expr.type # "maybe"
  PROVE  /\ qualifier[args[j].key] = "out" => ~args[j].tag.rref /\ ~args[j].tag.const
         /\ qualifier[args[j].key] = "consume" =>
              args[j].tag.rref \/ args[j].expr.type = "scalar"
<1> DEFINE t == args[j].tag
           q == qualifier[args[j].key]
<1>1. ArgsInv /\ PackInv /\ t # None /\ t.type = args[j].expr.type
  BY TaggedArgument DEF PackOfArgsInv, ArgsInv
<1>2. CASE perfect
  BY <1>1, <1>2 DEF ArgsInv, IllFormed
<1>3. CASE route = "function"
  <2>1. check_consume_ref(q, t) /\ check_out_ref(q, t)
    BY <1>1, <1>3 DEF PackInv, augment_predicate
  <2> QED BY <1>1, <2>1 DEF check_consume_ref, check_out_ref, Reference, HoldsMaybe, get_value
<1> QED BY <1>2, <1>3 DEF Enforced

(* Between the call and the lookup no const object becomes mutable and no  *)
(* lvalue movable, and the qualifiers get what they ask for.               *)
THEOREM CategoriesAreKept == Spec => []CategoryKept
<1>1. PackOfArgsInv => CategoryKept
  <2> DEFINE j == last.from
             e == args[j].expr
             t == args[j].tag
             q == qualifier[last.key]
  <2> SUFFICES ASSUME PackOfArgsInv, LookedUp, j # 0
               PROVE  /\ ~last.ref.const => Writable(e)
                      /\ last.ref.rvalue => Movable(e)
                      /\ Enforced /\ e.type # "maybe" =>
                           /\ q = "out" => ~last.ref.const /\ ~last.ref.rvalue
                           /\ q = "consume" => last.ref.rvalue \/ e.type = "scalar"
                      /\ q = "forward" /\ perfect /\ e.type # "maybe" =>
                           /\ last.ref.rvalue <=> Movable(e) /\ e.type # "scalar"
                           /\ last.ref.const <=> ~Writable(e) \/ (Movable(e) /\ e.type = "scalar")
    BY DEF CategoryKept
  <2>1. /\ ArgumentFound(last) /\ ArgsInv /\ pc \in {"lookup", "end"} /\ j \in DOMAIN args
        /\ t # None /\ args[j].key = last.key
    BY DEF PackOfArgsInv, LastInv, LookedUp, ArgumentFound, ArgsInv, Spelled
  <2>2. /\ q \in Qualifiers /\ e \in Expression /\ perfect \in BOOLEAN
        /\ e.rvalue \in BOOLEAN /\ e.const \in BOOLEAN
        /\ GivenFields(q, e, t) /\ last.key \in Keys
    <3>1. q \in Qualifiers /\ e \in Expression /\ perfect \in BOOLEAN /\ last.key \in Keys
      BY <2>1, ArgumentFacts DEF ArgsInv
    <3> QED BY <2>1, <3>1, ArgumentIsGiven, GivenTagFields DEF Expression
  <2>3. CASE t.type = "maybe" /\ route # "alone"
    <3>1. last.ref = [rvalue |-> FALSE, const |-> TRUE, type |-> "scalar"]
      BY <2>1, <2>3 DEF ArgumentFound, ReferenceOf, Reference, HoldsMaybe
    <3>2. e.type = "maybe"
      BY <2>2, <2>3 DEF GivenFields
    <3> QED BY <3>1, <3>2
  <2>4. CASE ~(t.type = "maybe" /\ route # "alone")
    <3>1. last.ref.rvalue = t.rref /\ last.ref.const = t.const
      <4>1. last.ref = get_value(t)
        BY <2>1, <2>4 DEF ArgumentFound, ReferenceOf, Reference, HoldsMaybe
      <4> QED BY <4>1 DEF get_value
    <3>2. Enforced /\ e.type # "maybe" =>
            /\ q = "out" => ~t.const /\ ~t.rref
            /\ q = "consume" => t.rref \/ e.type = "scalar"
      BY <2>1, EnforcedCategory
    <3>3. /\ t.rref <=> (PassedRvalue(perfect, e) /\ e.wrapper = "no")
          /\ ~t.const => Writable(e)
      <4>1. /\ t.rref <=> (PassedRvalue(perfect, e) /\ e.wrapper = "no")
            /\ e.wrapper = "cref" => t.const
        BY <2>2 DEF GivenFields
      <4>2. e.wrapper \in {"no", "ref", "cref"}
        BY <2>2 DEF Expression
      <4>3. e.wrapper = "no" /\ e.const => t.const
        <5>1. e.const => PassedConst(perfect, q, e) /\ PlacedConst(perfect, e)
          BY DEF PassedConst, PlacedConst
        <5> QED BY <2>1, <2>2, <5>1, ArgumentIsGiven DEF GivenFields, GivenTag
      <4> QED BY <4>1, <4>2, <4>3 DEF Writable
    <3>4. t.rref => Movable(e)
      BY <3>3 DEF PassedRvalue, Movable
    <3>5. q = "forward" /\ perfect => (t.rref <=> Movable(e) /\ e.type # "scalar")
      BY <3>3 DEF PassedRvalue, Movable, IsScalar
    <3>6. q = "forward" /\ perfect =>
            (t.const <=> ~Writable(e) \/ (Movable(e) /\ e.type = "scalar"))
      <4>1. q = "forward" /\ perfect =>
              /\ PassedConst(perfect, q, e) <=> e.const \/ (e.rvalue /\ IsScalar(e))
              /\ PlacedConst(perfect, e) <=> e.const \/ (e.rvalue /\ IsScalar(e))
        BY DEF PassedConst, PlacedConst
      <4>2. \/ t = TagOf(perfect, e, PassedConst(perfect, q, e))
            \/ t = TagOf(perfect, e, PlacedConst(perfect, e))
        BY <2>1, ArgumentIsGiven DEF GivenTag
      <4> QED BY <2>2, <4>1, <4>2 DEF GivenFields, Writable, Movable, IsScalar, Expression
    <3> QED BY <3>1, <3>2, <3>3, <3>4, <3>5, <3>6
  <2> QED BY <2>3, <2>4
<1> QED BY <1>1, PackOfArgsInvariant, PTL

(* Naming an argument or placing it makes no difference to a parameter but *)
(* those that the property lists.                                          *)
THEOREM NamesAndPositionsAgree == Spec => []NameAndPositionAgree
<1>1. PackOfArgsInv => NameAndPositionAgree
  <2> SUFFICES ASSUME PackOfArgsInv, pc \in {"lookup", "end"}, Enforced, NEW j \in DOMAIN args
               PROVE  LET a == args[j]
                          e == a.expr
                          q == qualifier[a.key]
                          named == Named(perfect, q, e)
                      IN  \/ named = a.tag
                          \/ q = "in" /\ e.wrapper = "no" /\ named = [a.tag EXCEPT !.const = TRUE]
                          \/ q = "out" /\ e.wrapper = "ref" /\ named = None
                          \/ /\ ~perfect
                             /\ \/ /\ q = "consume" /\ e.type = "scalar"
                                   /\ named \in {None, [a.tag EXCEPT !.const = TRUE]}
                                \/ q = "out" /\ e.type = "maybe" /\ named = None
    BY DEF NameAndPositionAgree
  <2> DEFINE e == args[j].expr
             q == qualifier[args[j].key]
             t == args[j].tag
             named == Named(perfect, q, e)
  <2>1. /\ ArgsInv /\ t # None /\ q \in Qualifiers /\ e \in Expression /\ perfect \in BOOLEAN
        /\ args[j].named \in BOOLEAN /\ e.rvalue \in BOOLEAN /\ e.const \in BOOLEAN
        /\ e.wrapper \in {"no", "ref", "cref"} /\ e.type \in {"scalar", "class", "maybe"}
        /\ e.type = "maybe" => e.wrapper = "no"
    <3>1. ArgsInv /\ t # None
      BY DEF PackOfArgsInv, ArgsInv
    <3> QED BY <3>1, ArgumentFacts DEF ArgsInv, Expression
  <2>2. CASE args[j].named
    BY <2>1, <2>2 DEF ArgsInv
  <2>3. CASE ~args[j].named
    <3>1. t = TagOf(perfect, e, PlacedConst(perfect, e))
      BY <2>1, <2>3, TaggedArgument
    <3>2. named = IF Refuses(perfect, q, e) THEN None
                  ELSE TagOf(perfect, e, PassedConst(perfect, q, e))
      BY <2>1, NamedIsTagged
    <3>3. CASE Refuses(perfect, q, e)
      <4>1. /\ t.rref <=> (PassedRvalue(perfect, e) /\ e.wrapper = "no")
            /\ t.const <=> (IF e.wrapper = "no" THEN PlacedConst(perfect, e) ELSE e.wrapper = "cref")
        <5>1. PlacedConst(perfect, e) \in BOOLEAN /\ PassedRvalue(perfect, e) \in BOOLEAN
          BY <2>1 DEF PlacedConst, PassedRvalue
        <5>2. /\ t.rref = (PassedRvalue(perfect, e) /\ e.wrapper = "no")
              /\ e.wrapper = "no" => t.const = PlacedConst(perfect, e)
              /\ e.wrapper # "no" => t.const = (e.wrapper = "cref")
          <6> HIDE DEF t, e
          <6> QED BY <3>1 DEF TagOf
        <5> QED BY <5>1, <5>2
      <4>2. CASE q = "out" /\ e.type # "maybe"
        <5>1. ~t.rref /\ ~t.const /\ ~IsScalar(e) /\ (e.rvalue \/ e.const)
          BY <3>3, <4>2, EnforcedCategory DEF Refuses
        <5>2. e.wrapper # "no"
          BY <2>1, <4>1, <5>1 DEF PlacedConst, PassedRvalue
        <5> QED BY <2>1, <3>2, <3>3, <4>1, <4>2, <5>1, <5>2
      <4>3. CASE q = "out" /\ e.type = "maybe"
        <5>1. ~IsScalar(e) /\ (e.rvalue \/ e.const) /\ e.wrapper = "no"
          BY <2>1, <3>3, <4>3 DEF Refuses
        <5>2. ~perfect
          <6> SUFFICES ASSUME perfect PROVE FALSE
            BY <2>1
          <6>1. ~IllFormed(perfect, q, t)
            BY <2>1 DEF ArgsInv
          <6>2. ~t.rref /\ ~t.const
            BY <2>1, <4>1, <4>3, <6>1 DEF IllFormed
          <6> QED BY <2>1, <4>1, <5>1, <6>2 DEF PlacedConst, PassedRvalue
        <5> QED BY <3>2, <3>3, <4>3, <5>2
      <4>4. CASE q # "out"
        <5>1. q = "consume" /\ ~perfect /\ ~IsScalar(e)
          BY <3>3, <4>4 DEF Refuses
        <5>2. ~t.rref
          BY <4>1, <5>1 DEF PassedRvalue
        <5>3. e.type # "maybe"
          <6>1. route = "function"
            BY <5>1 DEF Enforced
          <6>2. check_consume_ref(q, t) /\ t.type = e.type
            BY <6>1, <2>1, TaggedArgument DEF PackOfArgsInv, PackInv, augment_predicate
          <6> QED BY <5>1, <6>2 DEF check_consume_ref, Reference, HoldsMaybe
        <5>4. e.type = "scalar"
          BY <5>1, <5>2, <5>3, EnforcedCategory
        <5> QED BY <3>2, <3>3, <5>1, <5>4
      <4> QED BY <4>2, <4>3, <4>4
    <3>4. CASE ~Refuses(perfect, q, e)
      <4>1. named = TagOf(perfect, e, PassedConst(perfect, q, e))
        BY <3>2, <3>4
      <4>2. CASE e.wrapper # "no"
        BY <3>1, <4>1, <4>2 DEF TagOf
      <4>3. CASE e.wrapper = "no" /\ (PassedConst(perfect, q, e) <=> PlacedConst(perfect, e))
        <5>1. PassedConst(perfect, q, e) = PlacedConst(perfect, e)
          BY <2>1, <4>3 DEF PassedConst, PlacedConst
        <5> QED BY <3>1, <4>1, <5>1
      <4>4. CASE e.wrapper = "no" /\ ~(PassedConst(perfect, q, e) <=> PlacedConst(perfect, e))
        <5>1. /\ PassedConst(perfect, q, e)
              /\ q = "in" \/ (q = "consume" /\ ~perfect)
          BY <2>1, <4>4 DEF PassedConst, PlacedConst
        <5>2. PassedConst(perfect, q, e) = TRUE
          BY <2>1, <5>1 DEF PassedConst
        <5>3. named = [t EXCEPT !.const = TRUE]
          <6> DEFINE r == PassedRvalue(perfect, e) /\ e.wrapper = "no"
          <6>1. /\ t = [rref |-> r, type |-> e.type, const |-> PlacedConst(perfect, e)]
                /\ named = [rref |-> r, type |-> e.type, const |-> TRUE]
            BY <3>1, <4>1, <4>4, <5>2 DEF TagOf
          <6> DEFINE asConst == [t EXCEPT !.const = TRUE]
          <6>2. asConst = [t EXCEPT !.const = TRUE]
            OBVIOUS
          <6> HIDE DEF r, t, e, named, asConst
          <6>3. asConst = [rref |-> r, type |-> e.type, const |-> TRUE]
            BY <6>1, <6>2
          <6> QED BY <6>1, <6>2, <6>3
        <5>4. q = "consume" /\ ~perfect => e.type = "scalar"
          BY <3>4 DEF Refuses, IsScalar
        <5> QED BY <4>4, <5>1, <5>3, <5>4
      <4> QED BY <4>2, <4>3, <4>4
    <3> QED BY <3>3, <3>4
  <2> QED BY <2>1, <2>2, <2>3
<1> QED BY <1>1, PackOfArgsInvariant, PTL

(* A default that is needed is to the lookup what the same expression would*)
(* have been as a named argument, but for the two exceptions listed.       *)
THEOREM DefaultsActLikeArguments == Spec => []DefaultActsLikeAnArgument
<1>1. PackOfArgsInv => DefaultActsLikeAnArgument
  <2> DEFINE e == last.given
             q == qualifier[last.key]
             named == Named(perfect, q, e)
             accepted == named # None /\ ~IllFormed(perfect, q, named)
  <2> SUFFICES ASSUME PackOfArgsInv, LookedUp, e # None
               PROVE  /\ ~last.ref.const => ~e.const
                      /\ last.ref.rvalue => e.rvalue
                      /\ last.from = 0 /\ e.wrapper = "no" =>
                           IF accepted THEN last.ref = get_value(named)
                           ELSE /\ perfect
                                /\ \/ q = "consume" /\ e.type = "class" /\ ~e.rvalue
                                   \/ q = "out" /\ e.type = "scalar" /\ (e.const \/ e.rvalue)
    BY DEF DefaultActsLikeAnArgument
  <2>1. perfect \in BOOLEAN /\ q \in Qualifiers
    BY DEF PackOfArgsInv, LastInv, ArgsInv
  <2>2. CASE last.from # 0
    <3>1. last.ref = [rvalue |-> FALSE, const |-> TRUE, type |-> "scalar"]
      BY <2>2 DEF PackOfArgsInv, LastInv, ArgumentFound, ReferenceOf, Reference, HoldsMaybe
    <3> QED BY <2>2, <3>1
  <2>3. CASE last.from = 0
    <3>1. e \in Defaults /\ last.ref = OrDefault(perfect, q, e) /\ last.ref # None
      BY <2>3 DEF PackOfArgsInv, LastInv, DefaultGiven
    <3>2. /\ e \in Expression /\ e.type \in {"scalar", "class"}
          /\ e.rvalue \in BOOLEAN /\ e.const \in BOOLEAN
      BY <3>1, DefaultsAssumption DEF Expression
    <3>3. /\ ~Refuses(perfect, q, e)
          /\ last.ref = [rvalue |-> PassedRvalue(perfect, e), const |-> PassedConst(perfect, q, e),
                         type |-> IF e.wrapper = "no" THEN e.type ELSE "wrapper"]
      BY <2>1, <3>1, <3>2, DefaultIsPassed
    <3>4. PassedRvalue(perfect, e) \in BOOLEAN /\ PassedConst(perfect, q, e) \in BOOLEAN
      BY <2>1, <3>2 DEF PassedRvalue, PassedConst
    <3>5. (~last.ref.const => ~e.const) /\ (last.ref.rvalue => e.rvalue)
      <4>1. last.ref.const = PassedConst(perfect, q, e) /\ last.ref.rvalue = PassedRvalue(perfect, e)
        BY <3>3
      <4> QED BY <4>1 DEF PassedRvalue, PassedConst
    <3>6. ASSUME e.wrapper = "no"
          PROVE  IF accepted THEN last.ref = get_value(named)
                 ELSE /\ perfect
                      /\ \/ q = "consume" /\ e.type = "class" /\ ~e.rvalue
                         \/ q = "out" /\ e.type = "scalar" /\ (e.const \/ e.rvalue)
      <4>1. named = TagOf(perfect, e, PassedConst(perfect, q, e)) /\ named # None
        BY <2>1, <3>2, <3>3, <3>4, NamedIsTagged, TagIsTag
      <4>2. /\ named.rref = PassedRvalue(perfect, e) /\ named.type = e.type
            /\ named.const = PassedConst(perfect, q, e)
        <5> HIDE DEF named
        <5> QED BY <3>4, <3>6, <4>1 DEF TagOf
      <4> HIDE DEF named
      <4>3. last.ref = get_value(named)
        BY <3>3, <3>6, <4>2 DEF get_value
      <4>4. ASSUME IllFormed(perfect, q, named)
            PROVE  /\ perfect
                   /\ \/ q = "consume" /\ e.type = "class" /\ ~e.rvalue
                      \/ q = "out" /\ e.type = "scalar" /\ (e.const \/ e.rvalue)
        BY <3>2, <3>3, <3>6, <4>2, <4>4
        DEF IllFormed, Refuses, PassedRvalue, PassedConst, IsScalar
      <4> QED BY <4>1, <4>3, <4>4
    <3> QED BY <3>5, <3>6
  <2> QED BY <2>2, <2>3
<1> QED BY <1>1, PackOfArgsInvariant, PTL

(* The pack as a type tells what the pack does: has_key, count, order and  *)
(* binding agree with the arguments given and the lookup made.             *)
THEOREM StaticViewsAgree == Spec => []StaticViewAgrees
<1>1. PackOfArgsInv => StaticViewAgrees
  <2> SUFFICES ASSUME PackOfArgsInv, pc \in {"lookup", "end"} PROVE StaticViewAgrees
    BY DEF StaticViewAgrees
  <2>1. ArgsInv /\ PackInv /\ LastInv /\ StorageInv
    BY DEF PackOfArgsInv
  <2>2. /\ pack \in Seq(DOMAIN args) /\ Len(pack) = Len(args) /\ Len(args) \in Nat
        /\ DOMAIN pack = 1..Len(args) /\ DOMAIN args = 1..Len(args)
        /\ \A m \in DOMAIN pack : pack[m] \in DOMAIN args
        /\ \A j \in DOMAIN args : \E m \in DOMAIN pack : pack[m] = j
    <3>1. /\ pack \in Seq(DOMAIN args) /\ Len(pack) = Len(args)
          /\ args \in Seq(ArgumentRecord)
          /\ \A j \in 1..Len(pack) : \E m \in DOMAIN pack : pack[m] = j
      BY <2>1 DEF PackInv, ArgsInv
    <3>2. /\ Len(args) \in Nat /\ DOMAIN args = 1..Len(args) /\ DOMAIN pack = 1..Len(pack)
          /\ \A m \in DOMAIN pack : pack[m] \in DOMAIN args
      BY <3>1
    <3> QED BY <3>1, <3>2
  <2>3. ASSUME NEW j \in DOMAIN args PROVE ReferenceOf(args[j].tag).type # "none"
    <3>1. args[j].tag \in Tag
      BY <2>1, TaggedArgument DEF ArgsInv
    <3> QED BY <3>1, TagTypes DEF ReferenceOf, Reference, get_value
  <2>4. ASSUME NEW k
        PROVE  /\ has_key(k) <=> Spelled(k) # {}
               /\ NodeOf(k) # 0 => /\ NodeOf(k) \in DOMAIN pack
                                   /\ args[pack[NodeOf(k)]].key = k
               /\ NodeOf(k) # 0 <=> Spelled(k) # {}
    <3>1. CASE Owners(k) = {}
      <4>1. NodeOf(k) = 0 /\ Spelled(k) = {}
        BY <2>1, <3>1, NodeOfOwner, OwnerIsSpelled
      <4> QED BY <4>1 DEF has_key, value_type
    <3>2. CASE Owners(k) # {}
      <4>1. PICK m \in Owners(k) : TRUE
        BY <3>2
      <4>2. NodeOf(k) = m /\ Spelled(k) # {}
        BY <2>1, <3>2, <4>1, NodeOfOwner, OwnerIsSpelled
      <4>3. m \in DOMAIN pack /\ args[pack[m]].key = k /\ m # 0
        BY <2>2, <4>1 DEF Owners
      <4>4. [type |-> ReferenceOf(args[pack[m]].tag).type] # None
        BY <2>2, <2>3, <4>3 DEF None
      <4> QED BY <4>2, <4>3, <4>4 DEF has_key, value_type
    <3> QED BY <3>1, <3>2
  <2>5. ASSUME NEW k \in Keys
        PROVE  has_key(k) = (Spelled(k) # {}) /\ count(k) = Cardinality(Spelled(k))
    <3>1. has_key(k) = (Spelled(k) # {})
      <4>1. has_key(k) \in BOOLEAN
        BY DEF has_key
      <4>2. has_key(k) <=> Spelled(k) # {}
        BY <2>4
      <4> QED BY <4>1, <4>2
    <3>2. CASE Owners(k) = {}
      <4>1. Spelled(k) = {}
        BY <2>1, <3>2, OwnerIsSpelled
      <4>2. Cardinality(Spelled(k)) = 0
        BY <4>1, FS_EmptySet
      <4> QED BY <2>4, <3>1, <4>1, <4>2 DEF count
    <3>3. CASE Owners(k) # {}
      <4>1. Spelled(k) = {Owner(k)}
        BY <2>1, <3>3, OwnerIsSpelled
      <4>2. Cardinality(Spelled(k)) = 1
        BY <4>1, FS_Singleton
      <4> QED BY <2>4, <3>1, <4>1, <4>2 DEF count
    <3> QED BY <3>1, <3>2, <3>3
  <2>0. \A L \in Nat : \A i \in 1..L : L + 1 - i \in 1..L /\ L + 1 - (L + 1 - i) = i
    OBVIOUS
  <2>6. {order(args[j].key) : j \in DOMAIN args} = DOMAIN args
    <3>1. ASSUME NEW j \in DOMAIN args PROVE order(args[j].key) \in DOMAIN args
      <4>1. NodeOf(args[j].key) \in 1..Len(args)
        <5>1. Spelled(args[j].key) # {}
          BY DEF Spelled
        <5> QED BY <2>2, <2>4, <5>1
      <4>2. order(args[j].key) = Len(args) + 1 - NodeOf(args[j].key)
        BY <2>2 DEF order
      <4> QED BY <2>0, <2>2, <4>1, <4>2
    <3>2. ASSUME NEW i \in DOMAIN args PROVE \E j \in DOMAIN args : order(args[j].key) = i
      <4> DEFINE m == Len(args) + 1 - i
      <4>1. m \in DOMAIN pack /\ Len(pack) + 1 - m = i
        <5>1. i \in 1..Len(args)
          BY <2>2
        <5> QED BY <2>0, <2>2, <5>1
      <4> HIDE DEF m
      <4>2. pack[m] \in DOMAIN args /\ m \in Owners(args[pack[m]].key)
        BY <2>2, <4>1 DEF Owners
      <4>3. NodeOf(args[pack[m]].key) = m
        BY <2>1, <4>2, NodeOfOwner
      <4> QED BY <4>1, <4>2, <4>3 DEF order
    <3> QED BY <3>1, <3>2
  <2>7. ASSUME lookups > 0
        PROVE  binding(last.key, IF last.from = 0 THEN last.ref ELSE None) = last.ref
    <3>1. LookedUp
      BY <2>7 DEF LookedUp
    <3>2. CASE last.from = 0
      <4>1. Spelled(last.key) = {}
        BY <2>1, <3>1, <3>2 DEF LastInv, DefaultGiven
      <4> QED BY <2>4, <3>2, <4>1 DEF binding
    <3>3. CASE last.from # 0
      <4>1. /\ Spelled(last.key) = {last.from} /\ last.from \in DOMAIN args
            /\ last.ref = ReferenceOf(args[last.from].tag)
        BY <2>1, <3>1, <3>3 DEF LastInv, ArgumentFound
      <4>2. /\ NodeOf(last.key) # 0 /\ NodeOf(last.key) \in DOMAIN pack
            /\ args[pack[NodeOf(last.key)]].key = last.key
        BY <2>4, <4>1
      <4>3. pack[NodeOf(last.key)] = last.from
        BY <2>2, <4>1, <4>2 DEF Spelled
      <4> QED BY <4>1, <4>2, <4>3 DEF binding
    <3> QED BY <3>2, <3>3
  <2> QED BY <2>5, <2>6, <2>7 DEF StaticViewAgrees
<1> QED BY <1>1, PackOfArgsInvariant, PTL

-----------------------------------------------------------------------------
(***************************************************************************)
(* A pack is a map of keywords, along every route.                         *)
(***************************************************************************)

(* The arguments given for each keyword, as KeywordMap sees them.          *)
GivenFor == [k \in Keys |-> {[arg |-> j, empty |-> StandsForDefault(j)] : j \in Spelled(k)}]

(* They depend on the arguments and the route alone.                       *)
LEMMA SameGiven ==
  ASSUME args' = args, route' = route
  PROVE  GivenFor' = GivenFor
<1>1. \A k : Spelled(k)' = Spelled(k)
  BY DEF Spelled
<1>2. \A j : StandsForDefault(j)' = StandsForDefault(j)
  BY DEF StandsForDefault
<1> QED BY <1>1, <1>2 DEF GivenFor

(* An expression starts as the empty map.                                  *)
LEMMA MapInit == Init => KM!Init
<1> SUFFICES ASSUME Init PROVE KM!Init
  OBVIOUS
<1>1. pc = "spell" /\ args = << >>
  BY DEF Init
<1>2. Phase = "giving" /\ Len(args) = 0 /\ Answer = KM!NoAnswer
  BY <1>1 DEF Phase, Answer, LookedUp, KM!NoAnswer, KM!Default
<1>3. GivenFor = [k \in Keys |-> {}]
  <2>1. \A k : Spelled(k) = {}
    BY <1>1 DEF Spelled
  <2> QED BY <2>1 DEF GivenFor
<1> QED BY <1>2, <1>3 DEF KM!Init, GivenFor

(* One argument more, for one keyword.                                     *)
LEMMA SpellGives ==
  ASSUME PackOfArgsInv, NEW k \in Keys, NEW e, NEW named, NEW t, Spell(k, e, named, t)
  PROVE  KM!Give(k)
<1>1. /\ pc = "spell" /\ pc' \in {"spell", "rejected", "hard_error"}
      /\ route' = route /\ lookups' = lookups /\ last' = last
      /\ args \in Seq(ArgumentRecord)
  BY DEF Spell, callVars, PackOfArgsInv, ArgsInv
<1>2. PICK full : args' = Append(args, Argument(k, e, full, named, t))
  BY DEF Spell
<1> DEFINE a == Argument(k, e, full, named, t)
           n == Len(args)
<1>3. /\ n \in Nat /\ Len(args') = n + 1 /\ DOMAIN args = 1..n /\ DOMAIN args' = 1..(n + 1)
      /\ \A j \in 1..n : args'[j] = args[j]
      /\ args'[n + 1] = a
  <2>1. args \in Seq(ArgumentRecord \cup {a}) /\ a \in ArgumentRecord \cup {a}
    BY <1>1
  <2> HIDE DEF a
  <2> QED BY <1>2, <2>1 DEF a
<1>4. a.key = k
  BY DEF Argument
<1> HIDE DEF a, n
<1>5. Spelled(k)' = Spelled(k) \cup {n + 1} /\ \A l : l # k => Spelled(l)' = Spelled(l)
  <2>1. DOMAIN args' = (DOMAIN args) \cup {n + 1} /\ ~(n + 1 \in DOMAIN args)
    BY <1>3
  <2> QED BY <1>3, <1>4, <2>1 DEF Spelled
<1>6. \A j \in 1..n : StandsForDefault(j)' = StandsForDefault(j)
  BY <1>1, <1>3 DEF StandsForDefault
<1>7. PICK empty \in BOOLEAN : empty = StandsForDefault(n + 1)'
  BY DEF StandsForDefault
<1>8. GivenFor' = [GivenFor EXCEPT ![k] = @ \cup {[arg |-> n + 1, empty |-> empty]}]
  <2>1. \A l \in Keys : \A j \in Spelled(l) : StandsForDefault(j)' = StandsForDefault(j)
    BY <1>3, <1>6 DEF Spelled
  <2>2. ASSUME NEW l \in Keys, l # k
        PROVE  {[arg |-> j, empty |-> StandsForDefault(j)'] : j \in Spelled(l)'} = GivenFor[l]
    BY <1>5, <2>1, <2>2 DEF GivenFor
  <2>3. {[arg |-> j, empty |-> StandsForDefault(j)'] : j \in Spelled(k)'} =
          GivenFor[k] \cup {[arg |-> n + 1, empty |-> empty]}
    <3> DEFINE Item(j) == [arg |-> j, empty |-> StandsForDefault(j)']
    <3>1. {Item(j) : j \in Spelled(k)'} = {Item(j) : j \in Spelled(k)} \cup {Item(n + 1)}
      <4> HIDE DEF Item
      <4> QED BY <1>5
    <3>2. {[arg |-> j, empty |-> StandsForDefault(j)'] : j \in Spelled(k)} = GivenFor[k]
      BY <2>1 DEF GivenFor
    <3> QED BY <1>7, <3>1, <3>2
  <2>4. GivenFor' =
          [l \in Keys |-> {[arg |-> j, empty |-> StandsForDefault(j)'] : j \in Spelled(l)'}]
    BY DEF GivenFor
  <2>5. GivenFor \in [Keys -> {GivenFor[l] : l \in Keys}]
    BY DEF GivenFor
  <2> QED BY <2>2, <2>3, <2>4, <2>5
<1>9. Phase = "giving" /\ Phase' \in {"giving", "refused"} /\ Answer' = Answer
  BY <1>1 DEF Phase, Answer, LookedUp
<1>10. Len(args)' = Len(args) + 1 /\ Len(args) = n
  BY <1>3 DEF n
<1> QED BY <1>8, <1>9, <1>10 DEF KM!Give, GivenFor

(* A pack that can be read has no keyword twice.                           *)
LEMMA ReadingOpens ==
  ASSUME PackOfArgsInv, PackInv', ArgsInv', pc \in {"spell", "join", "match"}, pc' = "lookup",
         args' = args, route' = route, lookups' = lookups
  PROVE  KM!Open
<1>1. Phase = "giving" /\ Phase' = "reading"
  BY DEF Phase
<1>2. Answer' = Answer
  BY DEF Answer, LookedUp, PackOfArgsInv, StorageInv
<1>3. \A k \in Keys : \A g, h \in GivenFor[k] : g = h
  <2>1. /\ HasUniqueKeys(pack)' /\ Len(pack') = Len(args) /\ args \in Seq(ArgumentRecord)
        /\ \A j \in 1..Len(pack') : \E m \in DOMAIN pack' : pack'[m] = j
    BY DEF PackInv, ArgsInv
  <2>2. \A j \in DOMAIN args : \E m \in DOMAIN pack' : pack'[m] = j
    BY <2>1
  <2>3. \A k : \A j, l \in Spelled(k) : j = l
    BY <2>1, <2>2 DEF Spelled, HasUniqueKeys
  <2> QED BY <2>3 DEF GivenFor
<1>4. GivenFor' = GivenFor
  BY SameGiven
<1> QED BY <1>1, <1>2, <1>3, <1>4 DEF KM!Open, GivenFor

(* An expression that is refused, before it is read or while it is.        *)
LEMMA FailureRefuses ==
  ASSUME pc \in {"spell", "join", "match", "lookup"}, pc' \in {"rejected", "hard_error"},
         args' = args, route' = route
  PROVE  KM!Refuse
<1>1. Phase \in {"giving", "reading"} /\ Phase' = "refused"
  BY DEF Phase
<1>2. Answer' = KM!NoAnswer
  BY DEF Answer, LookedUp, KM!NoAnswer, KM!Default
<1>3. GivenFor' = GivenFor
  BY SameGiven
<1> QED BY <1>1, <1>2, <1>3 DEF KM!Refuse, GivenFor

(* A lookup answers as the map does.                                       *)
LEMMA LookupAnswers ==
  ASSUME PackOfArgsInv, PackOfArgsInv', pc = "lookup", pc' = "lookup",
         args' = args, route' = route, lookups' = lookups + 1
  PROVE  \E k \in Keys, way \in KM!Ways : KM!Lookup(k, way)
<1>1. /\ LookedUp' /\ last'.key \in Keys
      /\ last'.from = 0 => DefaultGiven(last)'
      /\ last'.from # 0 => ArgumentFound(last)'
      /\ ArgsInv
  <2>1. lookups' > 0
    BY DEF PackOfArgsInv, StorageInv
  <2> QED BY <2>1 DEF PackOfArgsInv, LastInv, LookedUp
<1>2. PICK k, way, j, num :
        /\ k \in Keys /\ k = last'.key /\ way = last'.how /\ j = last'.from
        /\ num = IF last'.in \in {"default", "storage"} THEN 0 ELSE j
        /\ Answer' = [key |-> k, way |-> way, arg |-> num]
  BY <1>1 DEF Answer
<1>3. Spelled(k)' = Spelled(k) /\ GivenFor' = GivenFor
  BY SameGiven DEF Spelled
<1>4. way \in KM!Ways /\ num \in KM!Answers(k, way)
  <2>1. CASE j = 0
    <3>1. Spelled(k) = {} /\ way \in {"default", "lazy"} /\ num = 0
      BY <1>1, <1>2, <2>1 DEF DefaultGiven, Spelled
    <3>2. GivenFor[k] = {}
      BY <1>2, <1>3, <3>1 DEF GivenFor
    <3> QED BY <1>2, <3>1, <3>2 DEF KM!Answers, KM!Ways, KM!Default, GivenFor
  <2>2. CASE j # 0
    <3> DEFINE g == [arg |-> j, empty |-> StandsForDefault(j)]
    <3>1. /\ j \in DOMAIN args /\ Spelled(k) = {j}
          /\ IF args[j].tag.type = "maybe" /\ route # "alone"
             THEN /\ way = "default"
                  /\ last'.in \in IF args[j].full THEN {"value"} ELSE {"default", "storage"}
             ELSE last'.in = "none"
      BY <1>1, <1>2, <2>2 DEF ArgumentFound, Spelled
    <3>2. args[j].tag.type = args[j].expr.type /\ args[j].full \in BOOLEAN
      <4>1. args[j].tag # None
        BY <3>1 DEF PackOfArgsInv, ArgsInv
      <4> QED BY <1>1, <3>1, <4>1, TaggedArgument, ArgumentFacts
    <3>3. GivenFor[k] = {g}
      BY <1>2, <1>3, <3>1 DEF GivenFor
    <3>4. way \in KM!Ways
      BY <1>1, <1>2, <2>2, <3>1 DEF ArgumentFound, KM!Ways
    <3>5. num = (IF g.empty THEN 0 ELSE g.arg) /\ (g.empty => way = "default")
      <4>1. g.arg = j /\ g.empty = StandsForDefault(j)
        OBVIOUS
      <4>2. num = IF StandsForDefault(j) THEN 0 ELSE j
        BY <1>2, <3>1, <3>2 DEF StandsForDefault
      <4>3. StandsForDefault(j) => way = "default"
        BY <3>1, <3>2 DEF StandsForDefault
      <4> HIDE DEF g
      <4> QED BY <4>1, <4>2, <4>3
    <3> HIDE DEF g
    <3>6. KM!Answers(k, way) = {IF g.empty THEN 0 ELSE g.arg}
      BY <1>2, <3>3, <3>5 DEF KM!Answers, KM!Default, GivenFor
    <3> QED BY <3>4, <3>5, <3>6
  <2> QED BY <2>1, <2>2
<1>5. Phase = "reading" /\ Phase' = "reading"
  BY DEF Phase
<1>6. KM!Lookup(k, way)
  BY <1>2, <1>3, <1>4, <1>5 DEF KM!Lookup, GivenFor
<1> QED BY <1>2, <1>4, <1>6

(* What leaves the arguments, the stage and the last lookup alone is       *)
(* nothing to the map.                                                     *)
LEMMA MapStutters ==
  ASSUME args' = args, route' = route, lookups' = lookups, last' = last,
         pc' = pc \/ {pc, pc'} \subseteq {"spell", "join", "match"}
  PROVE  UNCHANGED KM!vars
<1>1. Phase' = Phase /\ Answer' = Answer
  BY DEF Phase, Answer, LookedUp
<1> QED BY <1>1, SameGiven DEF KM!vars, GivenFor

(* The steps of composition.                                               *)
LEMMA CompositionMaps ==
  ASSUME PackOfArgsInv, PackOfArgsInv', pc \in {"spell", "join", "match"},
         pc' \in {"join", "match", "lookup", "rejected", "hard_error"},
         args' = args, route' = route, lookups' = lookups, last' = last
  PROVE  KM!Next \/ UNCHANGED KM!vars
<1>1. CASE pc' \in {"join", "match"}
  BY <1>1, MapStutters
<1>2. CASE pc' = "lookup"
  <2>1. PackInv' /\ ArgsInv'
    BY DEF PackOfArgsInv
  <2> QED BY <1>2, <2>1, ReadingOpens DEF KM!Next
<1>3. CASE pc' \in {"rejected", "hard_error"}
  BY <1>3, FailureRefuses DEF KM!Next
<1> QED BY <1>1, <1>2, <1>3

(* Every lookup, by keyword, with a default or with a lazy one, either     *)
(* returns or is refused.                                                  *)
LEMMA LookupOutcome ==
  ASSUME \/ \E k \in Keys : LookupKeyword(k)
         \/ \E k \in Keys, e \in Defaults : LookupDefault(k, e)
         \/ \E k \in Keys : LookupLazy(k)
  PROVE  /\ pc = "lookup" /\ args' = args /\ route' = route
         /\ \/ pc' = "lookup" /\ lookups' = lookups + 1
            \/ pc' \in {"rejected", "hard_error"}
<1>1. CanLookUp
  BY DEF LookupKeyword, LookupDefault, LookupLazy
<1> DEFINE Outcome ==
             \/ \E result : Lookup(result)
             \/ \E outcome \in {"rejected", "hard_error"} : \E attempt : Fail(outcome, attempt)
<1>2. Outcome
  <2>1. ASSUME NEW k \in Keys, LookupKeyword(k) PROVE Outcome
    BY <2>1 DEF LookupKeyword
  <2>2. ASSUME NEW k \in Keys, NEW e \in Defaults, LookupDefault(k, e) PROVE Outcome
    BY <2>2 DEF LookupDefault, LookupMaybe
  <2>3. ASSUME NEW k \in Keys, LookupLazy(k) PROVE Outcome
    BY <2>3 DEF LookupLazy
  <2> QED BY <2>1, <2>2, <2>3
<1> QED BY <1>1, <1>2 DEF CanLookUp, Lookup, Fail, callVars

(* Every step of an expression is one of the map, or none.                 *)
LEMMA MapStep ==
  PackOfArgsInv /\ PackOfArgsInv' /\ [Next]_vars => [KM!Next]_(KM!vars)
<1> SUFFICES ASSUME PackOfArgsInv, PackOfArgsInv', [Next]_vars
             PROVE  KM!Next \/ UNCHANGED KM!vars
  OBVIOUS
<1>1. CASE SpellNamed \/ SpellPositional
  <2>1. PICK k \in Keys : \E e, named, t : Spell(k, e, named, t)
    BY <1>1 DEF SpellNamed, SpellPositional
  <2> QED BY <2>1, SpellGives DEF KM!Next
<1>2. CASE UseAlone \/ JoinTagged \/ JoinNext \/ CallCompose \/ CallParameters
             \/ CallFunction \/ Match
  <2>1. /\ pc \in {"spell", "join", "match"}
        /\ pc' \in {"join", "match", "lookup", "rejected", "hard_error"}
        /\ args' = args /\ route' = route /\ lookups' = lookups /\ last' = last
    BY <1>2 DEF UseAlone, JoinTagged, JoinNext, Comma, CallCompose, CallParameters,
                CallFunction, Match, Compose, callVars
  <2> QED BY <2>1, CompositionMaps
<1>3. CASE \/ \E k \in Keys : LookupKeyword(k)
           \/ \E k \in Keys, e \in Defaults : LookupDefault(k, e)
           \/ \E k \in Keys : LookupLazy(k)
  <2>1. /\ pc = "lookup" /\ args' = args /\ route' = route
        /\ \/ pc' = "lookup" /\ lookups' = lookups + 1
           \/ pc' \in {"rejected", "hard_error"}
    BY <1>3, LookupOutcome
  <2>2. CASE pc' = "lookup" /\ lookups' = lookups + 1
    BY <2>1, <2>2, LookupAnswers DEF KM!Next
  <2>3. CASE pc' \in {"rejected", "hard_error"}
    BY <2>1, <2>3, FailureRefuses DEF KM!Next
  <2> QED BY <2>1, <2>2, <2>3
<1>4. CASE EndExpression
  <2>1. /\ pc = "lookup" /\ pc' = "end" /\ args' = args /\ route' = route
        /\ lookups' = lookups /\ last' = last
    BY <1>4 DEF EndExpression, callVars
  <2>2. Phase = "reading" /\ Phase' = "over" /\ Answer' = Answer
    BY <2>1 DEF Phase, Answer, LookedUp
  <2>3. KM!Close
    BY <2>1, <2>2, SameGiven DEF KM!Close, GivenFor
  <2> QED BY <2>3 DEF KM!Next
<1>5. CASE UNCHANGED vars
  <2>1. args' = args /\ route' = route /\ lookups' = lookups /\ last' = last /\ pc' = pc
    BY <1>5 DEF vars, callVars
  <2> QED BY <2>1, MapStutters
<1> QED BY <1>1, <1>2, <1>3, <1>4, <1>5 DEF Next

(* Whatever the keywords, the qualifiers, the expressions and the route,   *)
(* an argument pack is read as a map from keywords to the arguments of the *)
(* call.                                                                   *)
THEOREM PacksAreMaps == Spec => ImplementsKeywordMap
BY MapInit, MapStep, PackOfArgsInvariant, PTL DEF Spec, KM!Spec, ImplementsKeywordMap
=============================================================================
