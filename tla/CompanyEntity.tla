--------------------------- MODULE CompanyEntity ---------------------------
(***************************************************************************)
(* The life of one in-memory company entity inside a request: it is built  *)
(* by NewWithID (or was, in the request that stored it) and is then        *)
(* patched once by ApplyPatch.  The module exists to compare the           *)
(* sequential, early-returning code with what a client expects of a patch. *)
(***************************************************************************)
EXTENDS CompanyDomain

CONSTANTS Inputs,   \* the creation inputs clients send
          Patches   \* the patches clients send

ASSUME InputAssumption == Inputs \subseteq Company /\ Patches \subseteq Patch

VARIABLES entity,   \* the company in memory, Nil before it is built
          built,    \* the company NewWithID returned
          patch,    \* the patch applied to it, Nil before that
          errors    \* the fields the last call reported

vars == <<entity, built, patch, errors>>

Init == /\ entity = Nil
        /\ built = Nil
        /\ patch = Nil
        /\ errors = {}

Create(input) ==
    /\ entity = Nil
    /\ entity' = NewWithID(input).company
    /\ built' = entity'
    /\ errors' = NewWithID(input).errors
    /\ UNCHANGED patch

Apply(p) ==
    /\ entity # Nil
    /\ patch = Nil
    /\ patch' = p
    /\ entity' = ApplyPatch(entity, p).company
    /\ errors' = ApplyPatch(entity, p).errors
    /\ UNCHANGED built

Next == \/ \E input \in Inputs : Create(input)
        \/ \E p \in Patches : Apply(p)

Spec == Init /\ [][Next]_vars

-----------------------------------------------------------------------------
\* Every variable stays in its range.
TypeOK == /\ entity \in Company \cup {Nil}
          /\ built \in Company \cup {Nil}
          /\ patch \in Patch \cup {Nil}
          /\ errors \subseteq {"patch", "id", "name", "description", "amount", "type"}

\* An entity that exists is valid and normalised, even when ApplyPatch gave up
\* half way (company.go:82, :92, :102, :114 return after earlier fields were
\* already assigned).
EntityStaysValid ==
    entity # Nil => /\ Validate(entity) = {}
                    /\ TrimSpace[entity.name] = entity.name
                    /\ TrimSpace[entity.description] = entity.description

\* Reference definition of a patch, field by field and independent of order:
\* it is accepted exactly when it has a field and each of its fields is
\* acceptable, and then every given field has its trimmed new value and every
\* absent one its old value (company.go:73-123).
Given(p, f) == p[f] # Nil
Wanted(p, f) == IF f \in {"name", "description"} THEN TrimSpace[p[f]] ELSE p[f]
Acceptable(p, f) ==
    Given(p, f) =>
      CASE f = "name"        -> Wanted(p, f) # EmptyString /\ RuneCount[Wanted(p, f)] <= MaxNameLength
        [] f = "description" -> RuneCount[Wanted(p, f)] <= MaxDescriptionLength
        [] f = "amount"      -> Wanted(p, f) \in Nat
        [] f = "registered"  -> TRUE
        [] f = "type"        -> Wanted(p, f) \in ValidTypes
PatchFields == {"name", "description", "amount", "registered", "type"}

PatchMatchesReference ==
    patch # Nil =>
      /\ errors = {} <=> /\ \E f \in PatchFields : Given(patch, f)
                         /\ \A f \in PatchFields : Acceptable(patch, f)
      /\ errors = {} => \A f \in PatchFields :
                          entity[f] = IF Given(patch, f) THEN Wanted(patch, f) ELSE built[f]
      /\ entity.id = built.id

\* A patch that was accepted can be applied again with the same result: a
\* client that lost the answer may retry it.
RetryIsIdempotent ==
    patch # Nil /\ errors = {} =>
      ApplyPatch(entity, patch) = [errors |-> {}, company |-> entity]

=============================================================================
