------------------------ MODULE CompanyEntityProofs ------------------------
(***************************************************************************)
(* Theorems about CompanyEntity, for any texts, limits, inputs and         *)
(* patches: DomainLemmas says what one call returns, and here it becomes   *)
(* what holds of an entity throughout its life.                            *)
(***************************************************************************)
EXTENDS CompanyEntity, DomainLemmas

-----------------------------------------------------------------------------
(***************************************************************************)
(* The inductive invariant: what is built is valid, and what is in memory  *)
(* is the built company, patched once or not at all.                       *)
(***************************************************************************)
BuiltIsNormal == built # Nil => Normal(built)

PatchedFromBuilt ==
    /\ patch = Nil => entity = built
    /\ patch # Nil => /\ built # Nil
                      /\ entity = ApplyPatch(built, patch).company
                      /\ errors = ApplyPatch(built, patch).errors

IInv == TypeOK /\ BuiltIsNormal /\ PatchedFromBuilt

\* A patched entity is a valid one.
LEMMA PatchedIsNormal ==
    ASSUME IInv, patch # Nil
    PROVE  /\ built \in Company /\ Normal(built)
           /\ patch \in Patch
           /\ entity = Overlay(built, patch)
           /\ entity \in Company /\ Normal(entity)
<1>1. built \in Company /\ Normal(built) /\ patch \in Patch
  BY DEF IInv, TypeOK, BuiltIsNormal, PatchedFromBuilt
<1>2. entity = Overlay(built, patch)
  BY DEF IInv, PatchedFromBuilt, ApplyPatch
<1> QED BY <1>1, <1>2, OverlayIsNormal

LEMMA CreateKeeps == ASSUME IInv, NEW i \in Inputs, Create(i) PROVE IInv'
<1> DEFINE new == NewWithID(i)
<1>1. /\ i \in Company
      /\ entity = Nil
      /\ entity' = new.company /\ built' = new.company /\ errors' = new.errors
      /\ patch' = patch
  BY InputAssumption DEF Create
<1>2. patch = Nil
  BY <1>1, PatchedIsNormal, NilAssumption
<1>3. CASE new.errors = {}
  <2>1. /\ new.company \in Company
        /\ Validate(new.company) = {}
        /\ new.company.name = TrimSpace[i.name]
        /\ new.company.description = TrimSpace[i.description]
    BY <1>1, <1>3, NewCompany, NewIsTrimmed
  <2>2. Normal(new.company)
    <3>1. i.name \in Strings /\ i.description \in Strings
      BY <1>1 DEF Company
    <3> QED BY <2>1, <3>1, TextAssumption DEF Normal
  <2> HIDE DEF new
  <2> QED BY <1>1, <1>2, <1>3, <2>1, <2>2 DEF IInv, TypeOK, BuiltIsNormal, PatchedFromBuilt
<1>4. CASE new.errors # {}
  <2>1. /\ new.errors \subseteq {"id", "name", "description", "amount", "type"}
        /\ new.company = Nil
    BY <1>1, <1>4, NewOrErrors
  <2> HIDE DEF new
  <2> QED BY <1>1, <1>2, <2>1 DEF IInv, TypeOK, BuiltIsNormal, PatchedFromBuilt
<1> QED BY <1>3, <1>4

LEMMA ApplyKeeps == ASSUME IInv, NEW p \in Patches, Apply(p) PROVE IInv'
<1>1. /\ p \in Patch /\ p # Nil
      /\ entity = built /\ built # Nil
      /\ patch' = p /\ built' = built
      /\ entity' = ApplyPatch(built, p).company
      /\ errors' = ApplyPatch(built, p).errors
  BY InputAssumption, NilAssumption DEF Apply, IInv, PatchedFromBuilt
<1>2. built \in Company /\ Normal(built)
  BY <1>1 DEF IInv, TypeOK, BuiltIsNormal
<1>3. entity' \in Company
  BY <1>1, <1>2, OverlayIsNormal DEF ApplyPatch
<1>4. errors' \subseteq {"patch", "id", "name", "description", "amount", "type"}
  BY <1>1, PatchErrors
<1> QED BY <1>1, <1>2, <1>3, <1>4 DEF IInv, TypeOK, BuiltIsNormal, PatchedFromBuilt

LEMMA EntityInvariance == Spec => []IInv
<1>1. Init => IInv
  BY DEF Init, IInv, TypeOK, BuiltIsNormal, PatchedFromBuilt
<1>2. IInv /\ [Next]_vars => IInv'
  <2> SUFFICES ASSUME IInv, [Next]_vars PROVE IInv'
    OBVIOUS
  <2>1. ASSUME NEW i \in Inputs, Create(i) PROVE IInv'
    BY <2>1, CreateKeeps
  <2>2. ASSUME NEW p \in Patches, Apply(p) PROVE IInv'
    BY <2>2, ApplyKeeps
  <2>3. CASE UNCHANGED vars
    BY <2>3 DEF vars, IInv, TypeOK, BuiltIsNormal, PatchedFromBuilt
  <2> QED BY <2>1, <2>2, <2>3 DEF Next
<1> QED BY <1>1, <1>2, PTL DEF Spec

-----------------------------------------------------------------------------
(***************************************************************************)
(* The theorems.                                                           *)
(***************************************************************************)
\* Every variable stays in its range.
THEOREM EntityTypeCorrect == Spec => []TypeOK
<1>1. IInv => TypeOK
  BY DEF IInv
<1> QED BY EntityInvariance, <1>1, PTL

\* An entity is valid and normalised at every moment of its life, also after a
\* patch that was rejected half way (company.go:82, :92, :102, :114).
THEOREM EntityIsValid == Spec => []EntityStaysValid
<1>1. IInv => EntityStaysValid
  <2> SUFFICES ASSUME IInv, entity # Nil PROVE Normal(entity)
    BY DEF EntityStaysValid, Normal
  <2>1. CASE patch = Nil
    BY <2>1 DEF IInv, BuiltIsNormal, PatchedFromBuilt
  <2>2. CASE patch # Nil
    BY <2>2, PatchedIsNormal
  <2> QED BY <2>1, <2>2
<1> QED BY EntityInvariance, <1>1, PTL

\* A field is acceptable to the reference exactly when ApplyPatch does not reject
\* it (company.go:79-117).
LEMMA OffendingIsUnacceptable ==
    ASSUME NEW p \in Patch
    PROVE  Offending(p) = {} <=> \A f \in PatchFields : Acceptable(p, f)
<1>1. "name" \notin Offending(p) <=> Acceptable(p, "name")
  <2>1. p.name \in Strings => TrimSpace[TrimSpace[p.name]] = TrimSpace[p.name]
    BY TextAssumption
  <2> QED BY <2>1 DEF Patch, Offending, Acceptable, Given, Wanted, ValidName
<1>2. "description" \notin Offending(p) <=> Acceptable(p, "description")
  BY DEF Offending, Acceptable, Given, Wanted, ValidDescription
<1>3. "amount" \notin Offending(p) <=> Acceptable(p, "amount")
  <2>1. p.amount # Nil => p.amount \in Int
    BY DEF Patch
  <2>2. p.amount # Nil => (ValidAmount(p.amount) <=> p.amount \in Nat)
    BY <2>1 DEF ValidAmount
  <2> QED BY <2>2 DEF Offending, Acceptable, Given, Wanted
<1>4. "type" \notin Offending(p) <=> Acceptable(p, "type")
  BY DEF Offending, Acceptable, Given, Wanted, IsValidType
<1>5. Acceptable(p, "registered") /\ Offending(p) \subseteq {"name", "description", "amount", "type"}
  BY DEF Offending, Acceptable
<1> QED BY <1>1, <1>2, <1>3, <1>4, <1>5 DEF PatchFields

\* ApplyPatch, with its sequence of checks and early returns, does what a client
\* expects of a patch, field by field and independent of order
\* (company.go:73-123).
THEOREM PatchIsAsExpected == Spec => []PatchMatchesReference
<1>1. IInv => PatchMatchesReference
  <2> SUFFICES ASSUME IInv, patch # Nil
               PROVE  /\ errors = {} <=> /\ \E f \in PatchFields : Given(patch, f)
                                         /\ \A f \in PatchFields : Acceptable(patch, f)
                      /\ errors = {} => \A f \in PatchFields :
                           entity[f] = IF Given(patch, f) THEN Wanted(patch, f) ELSE built[f]
                      /\ entity.id = built.id
    BY DEF PatchMatchesReference
  <2>1. /\ built \in Company /\ Normal(built)
        /\ patch \in Patch
        /\ entity = Overlay(built, patch)
        /\ errors = ApplyPatch(built, patch).errors
    BY PatchedIsNormal DEF IInv, PatchedFromBuilt
  <2>2. errors = {} <=> ~ IsEmpty(patch) /\ Offending(patch) = {}
    BY <2>1, AcceptedPatch
  <2>3. ~ IsEmpty(patch) <=> \E f \in PatchFields : Given(patch, f)
    BY DEF IsEmpty, PatchFields, Given
  <2>4. Offending(patch) = {} <=> \A f \in PatchFields : Acceptable(patch, f)
    BY <2>1, OffendingIsUnacceptable
  <2>5. ASSUME Offending(patch) = {}, NEW f \in PatchFields
        PROVE  entity[f] = IF Given(patch, f) THEN Wanted(patch, f) ELSE built[f]
    <3>1. \A g : Assigned(patch, g) <=> Given(patch, g)
      BY <2>5, WholePatch DEF Given
    <3> QED BY <2>1, <3>1 DEF Overlay, Wanted, PatchFields
  <2>6. entity.id = built.id
    BY <2>1 DEF Overlay
  <2> QED BY <2>2, <2>3, <2>4, <2>5, <2>6
<1> QED BY EntityInvariance, <1>1, PTL

\* A patch that was accepted can be sent again by a client that lost the answer:
\* it is accepted again and changes nothing (company.go:73-123).
THEOREM RetryChangesNothing == Spec => []RetryIsIdempotent
<1>1. IInv => RetryIsIdempotent
  <2> SUFFICES ASSUME IInv, patch # Nil, errors = {}
               PROVE  ApplyPatch(entity, patch) = [errors |-> {}, company |-> entity]
    BY DEF RetryIsIdempotent
  <2>1. /\ built \in Company /\ Normal(built)
        /\ patch \in Patch
        /\ entity = Overlay(built, patch)
        /\ errors = ApplyPatch(built, patch).errors
        /\ entity \in Company /\ Normal(entity)
    BY PatchedIsNormal DEF IInv, PatchedFromBuilt
  <2>2. ~ IsEmpty(patch) /\ Offending(patch) = {}
    BY <2>1, AcceptedPatch
  <2>3. ApplyPatch(entity, patch).errors = {}
    BY <2>1, <2>2, AcceptedPatch
  <2>4. Overlay(entity, patch) = entity
    BY <2>1 DEF Overlay
  <2>5. ApplyPatch(entity, patch) = [errors  |-> ApplyPatch(entity, patch).errors,
                                     company |-> Overlay(entity, patch)]
    BY DEF ApplyPatch
  <2> QED BY <2>3, <2>4, <2>5
<1> QED BY EntityInvariance, <1>1, PTL
=============================================================================
