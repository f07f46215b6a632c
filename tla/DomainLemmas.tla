---------------------------- MODULE DomainLemmas ----------------------------
(***************************************************************************)
(* Facts about the company entity (CompanyDomain) that the proofs about    *)
(* the service and about the entity alone need: what NewWithID and         *)
(* ApplyPatch return, for any texts, limits and patches.                   *)
(***************************************************************************)
EXTENDS CompanyDomain, TLAPS

-----------------------------------------------------------------------------
(***************************************************************************)
(* NewWithID.                                                              *)
(***************************************************************************)
\* A company NewWithID returns has its type, the id of the input, and is valid
\* (company.go:39-57).
LEMMA NewCompany ==
    ASSUME NEW i \in Company, NewWithID(i).errors = {}
    PROVE  /\ NewWithID(i).company \in Company
           /\ NewWithID(i).company.id = i.id
           /\ Validate(NewWithID(i).company) = {}
<1> DEFINE c == [i EXCEPT !.name = TrimSpace[i.name],
                          !.description = TrimSpace[i.description]]
<1>1. /\ c \in Company
      /\ c.id = i.id
  BY TextAssumption DEF Company
<1>2. /\ Validate(c) = {}
      /\ NewWithID(i).company = c
  <2> HIDE DEF c
  <2>1. NewWithID(i) = [errors |-> Validate(c), company |-> IF Validate(c) = {} THEN c ELSE Nil]
    BY DEF NewWithID, c
  <2> QED BY <2>1
<1> QED BY <1>1, <1>2

\* Its texts are the trimmed ones, everything else is the input.
LEMMA NewIsTrimmed ==
    ASSUME NEW i \in Company, NewWithID(i).errors = {}
    PROVE  LET c == NewWithID(i).company
           IN  /\ c.name = TrimSpace[i.name]
               /\ c.description = TrimSpace[i.description]
               /\ c.amount = i.amount
               /\ c.registered = i.registered
               /\ c.type = i.type
<1> DEFINE c == [i EXCEPT !.name = TrimSpace[i.name],
                          !.description = TrimSpace[i.description]]
<1>1. /\ c.name = TrimSpace[i.name]
      /\ c.description = TrimSpace[i.description]
      /\ c.amount = i.amount
      /\ c.registered = i.registered
      /\ c.type = i.type
  BY DEF Company
<1>2. NewWithID(i).company = c
  <2> HIDE DEF c
  <2>1. NewWithID(i) = [errors |-> Validate(c), company |-> IF Validate(c) = {} THEN c ELSE Nil]
    BY DEF NewWithID, c
  <2> QED BY <2>1
<1> HIDE DEF c
<1> QED BY <1>1, <1>2

\* It returns a company or reports a field, never both.
LEMMA NewOrErrors ==
    ASSUME NEW i \in Company
    PROVE  /\ NewWithID(i).errors \subseteq {"id", "name", "description", "amount", "type"}
           /\ NewWithID(i).errors # {} => NewWithID(i).company = Nil
<1> DEFINE c == [i EXCEPT !.name = TrimSpace[i.name],
                          !.description = TrimSpace[i.description]]
<1> HIDE DEF c
<1>1. NewWithID(i) = [errors |-> Validate(c), company |-> IF Validate(c) = {} THEN c ELSE Nil]
  BY DEF NewWithID, c
<1> QED BY <1>1 DEF Validate

-----------------------------------------------------------------------------
(***************************************************************************)
(* ApplyPatch.                                                             *)
(***************************************************************************)
\* The first rejected field of a patch exists when any is rejected.
LEMMA FirstOffence ==
    ASSUME NEW p, Offending(p) # {}
    PROVE  \E f \in Offending(p) : Offending(p) \cap UpTo(f) = {f}
<1>1. Offending(p) \subseteq {"name", "description", "amount", "type"}
  BY DEF Offending
<1>2. CASE "name" \in Offending(p)
  BY <1>2 DEF UpTo
<1>3. CASE "name" \notin Offending(p) /\ "description" \in Offending(p)
  BY <1>3 DEF UpTo
<1>4. CASE /\ "name" \notin Offending(p) /\ "description" \notin Offending(p)
           /\ "amount" \in Offending(p)
  BY <1>4 DEF UpTo
<1>5. CASE Offending(p) = {"type"}
  BY <1>5 DEF UpTo
<1> QED BY <1>1, <1>2, <1>3, <1>4, <1>5

\* A patch that is accepted leaves a valid company with the same id
\* (company.go:73-123).
LEMMA PatchedCompany ==
    ASSUME NEW c \in Company, NEW p \in Patch, ApplyPatch(c, p).errors = {}
    PROVE  /\ ApplyPatch(c, p).company \in Company
           /\ ApplyPatch(c, p).company.id = c.id
           /\ Validate(ApplyPatch(c, p).company) = {}
<1>1. ApplyPatch(c, p).company = Overlay(c, p)
  BY DEF ApplyPatch
<1>2. Overlay(c, p) \in Company
  BY TextAssumption DEF Overlay, Assigned, Company, Patch
<1>3. Overlay(c, p).id = c.id
  BY DEF Overlay
<1>4. Offending(p) = {}
  BY FirstOffence DEF ApplyPatch
<1>5. Validate(Overlay(c, p)) = {}
  BY <1>4 DEF ApplyPatch
<1> QED BY <1>1, <1>2, <1>3, <1>5

\* What it reports.
LEMMA PatchErrors ==
    ASSUME NEW c, NEW p
    PROVE  ApplyPatch(c, p).errors \subseteq {"patch", "id", "name", "description", "amount", "type"}
<1>1. Offending(p) \subseteq {"name", "description", "amount", "type"}
  BY DEF Offending
<1>2. Validate(Overlay(c, p)) \subseteq {"id", "name", "description", "amount", "type"}
  BY DEF Validate
<1> QED BY <1>1, <1>2 DEF ApplyPatch

\* c is valid and its texts are trimmed.
Normal(c) ==
    /\ Validate(c) = {}
    /\ TrimSpace[c.name] = c.name
    /\ TrimSpace[c.description] = c.description

\* A field is assigned only after it was found acceptable, so a patch that is
\* rejected half way leaves a company as good as it was (company.go:82, :92,
\* :102, :114).
LEMMA OverlayIsNormal ==
    ASSUME NEW c \in Company, NEW p \in Patch, Normal(c)
    PROVE  Overlay(c, p) \in Company /\ Normal(Overlay(c, p))
<1> DEFINE new == Overlay(c, p)
<1>1. new \in Company
  BY TextAssumption DEF Overlay, Assigned, Company, Patch
<1>2. new.id = c.id /\ c.id # NilId
  BY DEF Overlay, Normal, Validate
<1>3. ValidName(new.name) /\ TrimSpace[new.name] = new.name
  <2>1. CASE Assigned(p, "name")
    <3>1. new.name = TrimSpace[p.name] /\ p.name \in Strings
      BY <2>1 DEF Overlay, Assigned, Patch
    <3>2. ValidName(TrimSpace[p.name])
      BY <2>1 DEF Assigned, Offending, UpTo
    <3> QED BY <3>1, <3>2, TextAssumption
  <2>2. CASE ~ Assigned(p, "name")
    BY <2>2 DEF Overlay, Normal, Validate
  <2> QED BY <2>1, <2>2
<1>4. ValidDescription(new.description) /\ TrimSpace[new.description] = new.description
  <2>1. CASE Assigned(p, "description")
    <3>1. new.description = TrimSpace[p.description] /\ p.description \in Strings
      BY <2>1 DEF Overlay, Assigned, Patch
    <3>2. ValidDescription(TrimSpace[p.description])
      BY <2>1 DEF Assigned, Offending, UpTo
    <3> QED BY <3>1, <3>2, TextAssumption
  <2>2. CASE ~ Assigned(p, "description")
    BY <2>2 DEF Overlay, Normal, Validate
  <2> QED BY <2>1, <2>2
<1>5. ValidAmount(new.amount)
  <2>1. CASE Assigned(p, "amount")
    BY <2>1 DEF Overlay, Assigned, Offending, UpTo
  <2>2. CASE ~ Assigned(p, "amount")
    BY <2>2 DEF Overlay, Normal, Validate
  <2> QED BY <2>1, <2>2
<1>6. IsValidType(new.type)
  <2>1. CASE Assigned(p, "type")
    BY <2>1 DEF Overlay, Assigned, Offending, UpTo
  <2>2. CASE ~ Assigned(p, "type")
    BY <2>2 DEF Overlay, Normal, Validate
  <2> QED BY <2>1, <2>2
<1> HIDE DEF new
<1>7. Validate(new) = {}
  BY <1>2, <1>3, <1>4, <1>5, <1>6 DEF Validate
<1> QED BY <1>1, <1>3, <1>4, <1>7 DEF Normal, new

\* A valid company takes every patch that is not empty and offends nowhere: the
\* check of the whole at the end finds nothing more (company.go:119).
LEMMA AcceptedPatch ==
    ASSUME NEW c \in Company, NEW p \in Patch, Normal(c)
    PROVE  ApplyPatch(c, p).errors = {} <=> ~ IsEmpty(p) /\ Offending(p) = {}
<1>1. Validate(Overlay(c, p)) = {}
  BY OverlayIsNormal DEF Normal
<1>2. Offending(p) # {} => {f \in Offending(p) : Offending(p) \cap UpTo(f) = {f}} # {}
  BY FirstOffence
<1> QED BY <1>1, <1>2 DEF ApplyPatch

\* A patch that offends nowhere is assigned whole.
LEMMA WholePatch ==
    ASSUME NEW p, Offending(p) = {}
    PROVE  \A f : Assigned(p, f) <=> p[f] # Nil
BY DEF Assigned
=============================================================================
