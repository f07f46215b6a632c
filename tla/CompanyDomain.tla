--------------------------- MODULE CompanyDomain ---------------------------
(***************************************************************************)
(* The company entity and its validation rules                             *)
(* (internal/domain/company).  Everything here is a pure operator: the     *)
(* modules that own state EXTEND this one.                                 *)
(*                                                                         *)
(* Texts are opaque values; what the code computes from a text is given by *)
(* two tables, TrimSpace and RuneCount.  The timestamps CreatedAt and      *)
(* UpdatedAt of a company are left out: no decision of the code reads      *)
(* them.                                                                   *)
(***************************************************************************)
EXTENDS Integers

CONSTANTS
    Ids,                  \* the uuids in use
    NilId,                \* uuid.Nil
    Strings,              \* the texts a client may send
    EmptyString,          \* ""
    TrimSpace,            \* strings.TrimSpace, as a table over Strings
    RuneCount,            \* utf8.RuneCountInString, as a table over Strings
    MaxNameLength,        \* 15 in the code
    MaxDescriptionLength, \* 3000 in the code
    Types,                \* the type texts a client may send
    Nil                   \* Go's nil pointer: an absent patch field, a missing row

\* The members of the CompanyType enumeration.
ValidTypes == {"Corporations", "NonProfit", "Cooperative", "Sole Proprietorship"}

Company == [id : Ids \cup {NilId}, name : Strings, description : Strings,
            amount : Int, registered : BOOLEAN, type : Types]

\* A patch: every field is a pointer, Nil when the client left it out.
Patch == [name : Strings \cup {Nil}, description : Strings \cup {Nil},
          amount : Int \cup {Nil}, registered : BOOLEAN \cup {Nil},
          type : Types \cup {Nil}]

\* An event of the outbox: its OccurredAt stamp, stored as created_at, is "at".
EventTypes == {"created", "updated", "deleted"}

Event == [type : EventTypes, company : Company, at : Nat]

ASSUME TextAssumption ==
    /\ EmptyString \in Strings
    /\ TrimSpace \in [Strings -> Strings]
    /\ RuneCount \in [Strings -> Nat]
    /\ TrimSpace[EmptyString] = EmptyString
    /\ \A s \in Strings : TrimSpace[TrimSpace[s]] = TrimSpace[s]
    /\ MaxNameLength \in Nat
    /\ MaxDescriptionLength \in Nat

ASSUME TypeAssumption == ValidTypes \subseteq Types

\* Nil is no text, no number, no flag, no type, no company and no patch.
ASSUME NilAssumption ==
    /\ Nil \notin Strings
    /\ Nil \notin Int
    /\ Nil \notin BOOLEAN
    /\ Nil \notin Types
    /\ Nil \notin Company
    /\ Nil \notin Patch

-----------------------------------------------------------------------------
(***************************************************************************)
(* Validation of one field.                                                *)
(***************************************************************************)
ValidName(name) ==
    /\ TrimSpace[name] # EmptyString
    /\ RuneCount[name] <= MaxNameLength

ValidDescription(description) == RuneCount[description] <= MaxDescriptionLength

ValidAmount(amount) == amount >= 0

IsValidType(type) == type \in ValidTypes

(***************************************************************************)
(* The fields Validate reports; the empty set is a nil error.              *)
(***************************************************************************)
Validate(c) ==
    {f \in {"id"} : c.id = NilId}
      \cup {f \in {"name"} : ~ ValidName(c.name)}
      \cup {f \in {"description"} : ~ ValidDescription(c.description)}
      \cup {f \in {"amount"} : ~ ValidAmount(c.amount)}
      \cup {f \in {"type"} : ~ IsValidType(c.type)}

(***************************************************************************)
(* NewWithID: both texts are trimmed, then the whole company is validated; *)
(* the caller gets the company only when no field is reported.             *)
(***************************************************************************)
NewWithID(input) ==
    LET c == [input EXCEPT !.name = TrimSpace[input.name],
                           !.description = TrimSpace[input.description]]
    IN  [errors |-> Validate(c), company |-> IF Validate(c) = {} THEN c ELSE Nil]

-----------------------------------------------------------------------------
IsEmpty(p) == /\ p.name = Nil
              /\ p.description = Nil
              /\ p.amount = Nil
              /\ p.registered = Nil
              /\ p.type = Nil

\* Slip: the length limit applied to the text as sent, before it is trimmed.
OffendingUntrimmed(p) ==
    {f \in {"name"} : p.name # Nil /\ ~ ValidName(p.name)}
      \cup {f \in {"description"} :
              p.description # Nil /\ ~ ValidDescription(p.description)}
      \cup {f \in {"amount"} : p.amount # Nil /\ ~ ValidAmount(p.amount)}
      \cup {f \in {"type"} : p.type # Nil /\ ~ IsValidType(p.type)}

\* The fields whose new value ApplyPatch rejects, were it to reach all of them.
Offending(p) ==
    {f \in {"name"} : p.name # Nil /\ ~ ValidName(TrimSpace[p.name])}
      \cup {f \in {"description"} :
              p.description # Nil /\ ~ ValidDescription(TrimSpace[p.description])}
      \cup {f \in {"amount"} : p.amount # Nil /\ ~ ValidAmount(p.amount)}
      \cup {f \in {"type"} : p.type # Nil /\ ~ IsValidType(p.type)}

\* The fields ApplyPatch handles up to and including f: its order is name,
\* description, amount, registered, type.
UpTo(f) ==
    CASE f = "name"        -> {"name"}
      [] f = "description" -> {"name", "description"}
      [] f = "amount"      -> {"name", "description", "amount"}
      [] f = "registered"  -> {"name", "description", "amount", "registered"}
      [] f = "type"        -> {"name", "description", "amount", "registered", "type"}

\* Slip: fields assigned before they are validated.
AssignedUnchecked(p, f) == p[f] # Nil

\* f is assigned: it is in the patch and no field up to it is rejected.
Assigned(p, f) == p[f] # Nil /\ Offending(p) \cap UpTo(f) = {}

\* Slip: the amount pointer copied without a nil check.
OverlayNilAmount(c, p) == [c EXCEPT !.amount = p.amount]

\* The entity after the assignments ApplyPatch makes before it returns.  A
\* rejected field ends it, so the entity may be left half patched.
Overlay(c, p) ==
    [id          |-> c.id,
     name        |-> IF Assigned(p, "name") THEN TrimSpace[p.name] ELSE c.name,
     description |-> IF Assigned(p, "description")
                       THEN TrimSpace[p.description] ELSE c.description,
     amount      |-> IF Assigned(p, "amount") THEN p.amount ELSE c.amount,
     registered  |-> IF Assigned(p, "registered") THEN p.registered ELSE c.registered,
     type        |-> IF Assigned(p, "type") THEN p.type ELSE c.type]

\* Slip: a patch that changes nothing taken for an empty one.
ApplyPatchNoChange(c, p) ==
    [errors  |-> IF Overlay(c, p) = c THEN {"patch"} ELSE Validate(Overlay(c, p)),
     company |-> Overlay(c, p)]

(***************************************************************************)
(* ApplyPatch: an empty patch is refused; the first rejected field is      *)
(* reported alone; otherwise the whole entity is validated at the end.     *)
(***************************************************************************)
ApplyPatch(c, p) ==
    LET new == Overlay(c, p)
    IN  [errors  |-> IF IsEmpty(p) THEN {"patch"}
                     ELSE IF Offending(p) # {}
                       THEN {f \in Offending(p) : Offending(p) \cap UpTo(f) = {f}}
                     ELSE Validate(new),
         company |-> new]
=============================================================================
