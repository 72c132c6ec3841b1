----------------------------- MODULE Generator ------------------------------
(***************************************************************************)
(* The order in which tools/cmd/gen declares the types of the protocol.    *)
(* C++ wants an alias before it is used, and a structure before it is a    *)
(* base or a member by value of another; resolve.go sorts both.  What the  *)
(* meta model contains is chosen at the start: any graph of references, in *)
(* any order.                                                              *)
(***************************************************************************)
EXTENDS Naturals, FiniteSets, SequencesExt

CONSTANTS
    Aliases,     \* the names of the type aliases
    Structures,  \* the names of the structures
    Kinds        \* the ways in which a structure refers to another

(* A file has finitely many names. *)
ASSUME NamesAssumption == IsFiniteSet(Aliases) /\ IsFiniteSet(Structures)

(* A structure extends another, has a member of its type, has a member     *)
(* that points to it (Optional, OneOf, a vector or a map), has a nested    *)
(* structure with a member of its type, or mixes it in.                    *)
ASSUME KindsAssumption == Kinds \subseteq {"base", "value", "pointer", "nested", "mixin"}

None == "none"

VARIABLES
    declared,   \* the aliases in the order of the meta model
    uses,       \* the aliases that the type of an alias mentions
    refers,     \* how each structure refers to each
    phase,      \* the function that runs
    stack,      \* sortTypeAliases(): the aliases to look at
    seen,       \* the names that the function has come across
    aliases,    \* out.TypeAliases as sorted so far
    visiting,   \* sortStructures(): the structures whose visit() has not returned
    structures  \* out.Structures as sorted so far

model == <<declared, uses, refers>>
vars == <<declared, uses, refers, phase, stack, seen, aliases, visiting, structures>>

(* The orders in which the meta model, or RecursiveTypesOf(), may list S *)
Orders(S) == SetToSeqs(S)

GeneratorTypeOK ==
    /\ declared \in Seq(Aliases) /\ uses \in [Aliases -> SUBSET Aliases]
    /\ refers \in [Structures -> [Structures -> Kinds \cup {None}]]
    /\ phase \in {"aliases", "structures", "done"}
    /\ stack \in Seq(Aliases) /\ aliases \in Seq(Aliases)
    /\ seen \subseteq Aliases \cup Structures
    /\ visiting \in Seq(Structures) /\ structures \in Seq(Structures)

-----------------------------------------------------------------------------
(* References *)

By(s, kinds) == {d \in Structures : refers[s][d] \in kinds}
Bases(s) == By(s, {"base"})

(* What visit() follows: Extends and the types of the properties.  The     *)
(* members of a nested structure are not its own, and mixins are not       *)
(* looked at.                                                              *)
Follows(s) == By(s, {"base", "value", "pointer"})

(* What C++ wants complete where s is declared *)
Needs(s) == By(s, {"base", "value", "nested"})

follows == [s \in Structures |-> Follows(s)]
needs == [s \in Structures |-> Needs(s)]
bases == [s \in Structures |-> Bases(s)]

(* R leads from x to y, in one step or more: y is in every set that has    *)
(* R[x] and, with each element, what R gives for it.                       *)
Leads(R, x, y) ==
    \A T \in SUBSET DOMAIN R :
        R[x] \subseteq T /\ (\A z \in T : R[z] \subseteq T) => y \in T

(* A structure cannot contain itself. *)
WellFormed ==
    /\ \A s \in Structures : refers[s][s] \in {None, "pointer"}
    /\ \A s \in Structures : ~Leads(needs, s, s)

Init ==
    /\ declared \in Orders(Aliases)
    /\ uses \in [Aliases -> SUBSET Aliases]
    /\ refers \in [Structures -> [Structures -> Kinds \cup {None}]]
    /\ WellFormed
    /\ phase = "aliases"
    /\ stack = declared
    /\ seen = {}
    /\ aliases = <<>>
    /\ visiting = <<>>
    /\ structures = <<>>

-----------------------------------------------------------------------------
(* sortTypeAliases() *)

(* A variant of SortAlias: what was seen stays on the stack. *)
SortAliasStays ==
    /\ phase = "aliases"
    /\ stack # <<>>
    /\ LET alias == Last(stack)
       IN IF alias \in seen THEN UNCHANGED <<stack, seen, aliases>>
          ELSE \E deps \in Orders(uses[alias]) :
                  /\ stack' = Front(stack) \o deps
                  /\ seen' = seen \cup {alias}
                  /\ aliases' = Append(aliases, alias)
    /\ UNCHANGED <<model, phase, visiting, structures>>

(* A variant of SortAlias: an alias comes again. *)
SortAliasAgain ==
    /\ phase = "aliases"
    /\ stack # <<>>
    /\ LET alias == Last(stack)
       IN \E deps \in Orders(uses[alias] \ seen) :
            /\ stack' = Front(stack) \o deps
            /\ seen' = seen \cup {alias}
            /\ aliases' = Append(aliases, alias)
    /\ UNCHANGED <<model, phase, visiting, structures>>

(* A variant of SortAlias: the first alias is taken. *)
SortAliasFirst ==
    /\ phase = "aliases"
    /\ stack # <<>>
    /\ LET alias == Head(stack)
       IN IF alias \in seen THEN stack' = Tail(stack) /\ UNCHANGED <<seen, aliases>>
          ELSE \E deps \in Orders(uses[alias]) :
                  /\ stack' = Tail(stack) \o deps
                  /\ seen' = seen \cup {alias}
                  /\ aliases' = Append(aliases, alias)
    /\ UNCHANGED <<model, phase, visiting, structures>>

(* One turn of the loop.  The alias is appended when it is taken, and its  *)
(* dependencies, in the order that RecursiveTypesOf() finds them, are      *)
(* taken next.                                                             *)
SortAlias ==
    /\ phase = "aliases"
    /\ stack # <<>>
    /\ LET alias == Last(stack)
       IN IF alias \in seen THEN stack' = Front(stack) /\ UNCHANGED <<seen, aliases>>
          ELSE \E deps \in Orders(uses[alias]) :
                  /\ stack' = Front(stack) \o deps
                  /\ seen' = seen \cup {alias}
                  /\ aliases' = Append(aliases, alias)
    /\ UNCHANGED <<model, phase, visiting, structures>>

AliasesSorted ==
    /\ phase = "aliases"
    /\ stack = <<>>
    /\ phase' = "structures"
    /\ seen' = {}
    /\ UNCHANGED <<model, stack, aliases, visiting, structures>>

-----------------------------------------------------------------------------
(* sortStructures() *)

(* visit(s): the seen check is the guard of its callers here. *)
Enter(s) ==
    /\ s \notin seen
    /\ seen' = seen \cup {s}
    /\ visiting' = Append(visiting, s)

(* visit(s) from the loop over the structures *)
VisitNext ==
    /\ phase = "structures"
    /\ visiting = <<>>
    /\ \E s \in Structures : Enter(s)
    /\ UNCHANGED <<model, phase, stack, aliases, structures>>

(* visit() from visit(): the bases first, then what the properties refer   *)
(* to, in the order of the meta model.                                     *)
VisitReference ==
    /\ phase = "structures"
    /\ visiting # <<>>
    /\ LET s == Last(visiting)
       IN \E d \in Follows(s) : (Bases(s) \subseteq seen \/ d \in Bases(s)) /\ Enter(d)
    /\ UNCHANGED <<model, phase, stack, aliases, structures>>

(* A variant of Visited: the structure does not wait for its references. *)
VisitedEarly ==
    /\ phase = "structures"
    /\ visiting # <<>>
    /\ structures' = Append(structures, Last(visiting))
    /\ visiting' = Front(visiting)
    /\ UNCHANGED <<model, phase, stack, seen, aliases>>

(* The end of visit(s), which appends s *)
Visited ==
    /\ phase = "structures"
    /\ visiting # <<>>
    /\ Follows(Last(visiting)) \subseteq seen
    /\ structures' = Append(structures, Last(visiting))
    /\ visiting' = Front(visiting)
    /\ UNCHANGED <<model, phase, stack, seen, aliases>>

StructuresSorted ==
    /\ phase = "structures"
    /\ visiting = <<>>
    /\ Structures \subseteq seen
    /\ phase' = "done"
    /\ UNCHANGED <<model, stack, seen, aliases, visiting, structures>>

Next ==
    \/ SortAlias \/ AliasesSorted
    \/ VisitNext \/ VisitReference \/ Visited \/ StructuresSorted

Spec == Init /\ [][Next]_vars

(* The program runs until it is done. *)
FairSpec == Spec /\ WF_vars(Next)

-----------------------------------------------------------------------------
(* The templates, which emit what a structure extends and its properties.  *)

(* The structures whose properties are members of the C++ class s *)
Members(s) == {s} \cup {b \in Structures : Leads(bases, s, b)}

-----------------------------------------------------------------------------
(* Properties *)

Place(x, s) == CHOOSE i \in DOMAIN s : s[i] = x
Earlier(x, y, s) == x \in ToSet(s) /\ Place(x, s) < Place(y, s)

(* When the generator is done, every alias and every structure is declared *)
(* exactly once, whatever cycles their references make.                    *)
EachOnce ==
    phase = "done" =>
        /\ ToSet(aliases) = Aliases /\ Len(aliases) = Cardinality(Aliases)
        /\ ToSet(structures) = Structures /\ Len(structures) = Cardinality(Structures)

(* An alias is declared after an alias it uses, provided that the meta     *)
(* model has the used one after every alias that leads to the user, the    *)
(* user among them.  sortTypeAliases() reverses the meta model rather than *)
(* sorts it: it relies on a model that goes from the users to the used.    *)
AliasesInOrder ==
    \A a \in ToSet(aliases) : \A d \in uses[a] \ {a} :
        \/ Earlier(d, a, aliases)
        \/ \E r \in Aliases : (r = a \/ Leads(uses, r, a)) /\ Earlier(d, r, declared)

(* A structure is declared after every structure that it extends or has a  *)
(* member of, unless that one leads back to it.                            *)
StructuresInOrder ==
    \A s \in ToSet(structures) : \A d \in Needs(s) \cap Follows(s) :
        Earlier(d, s, structures) \/ Leads(follows, d, s)

(* The generator comes to an end for every meta model. *)
Terminates == <>(phase = "done")

(* The C++ class of a structure has the properties that its mixins have.   *)
MixinsCopied == \A s \in ToSet(structures) : By(s, {"mixin"}) \subseteq Members(s)

=============================================================================
