----------------------------- MODULE CompanyLog -----------------------------
(***************************************************************************)
(* What the company service promises: a table of companies and a log of    *)
(* stamped events that change together, in one indivisible step.  A new    *)
(* event carries a later stamp than every event of the same company, so a  *)
(* reader who orders the log by stamp sees each company's changes in the   *)
(* order they took effect.                                                 *)
(*                                                                         *)
(* It says nothing of requests, transactions, locks or failures:           *)
(* CompanyStore is the service that keeps the promise.                     *)
(***************************************************************************)
EXTENDS CompanyDomain

CONSTANT Seed   \* the companies the table starts with, a function on Ids

VARIABLES rows,   \* the table: a company, or Nil, for each id
          outbox  \* the log: the set of events written so far

vars == <<rows, outbox>>

\* The events that describe the seed.
SeedEvents == {[type |-> "created", company |-> Seed[c], at |-> 0] :
                  c \in {d \in Ids : Seed[d] # Nil}}

Init == rows = Seed /\ outbox = SeedEvents

\* No row but c's carries this name.
NameFree(name, c) == \A d \in Ids : d # c /\ rows[d] # Nil => rows[d].name # name

\* The event is appended: its stamp is later than the company's earlier ones.
AppendEvent(e) ==
    /\ \A f \in outbox : f.company.id = e.company.id => f.at < e.at
    /\ outbox' = outbox \cup {e}

Create(e) ==
    LET c == e.company.id
    IN  /\ e.type = "created"
        /\ rows[c] = Nil
        /\ Validate(e.company) = {}
        /\ NameFree(e.company.name, c)
        /\ rows' = [rows EXCEPT ![c] = e.company]
        /\ AppendEvent(e)

Update(e) ==
    LET c == e.company.id
    IN  /\ e.type = "updated"
        /\ rows[c] # Nil
        /\ Validate(e.company) = {}
        /\ NameFree(e.company.name, c)
        /\ rows' = [rows EXCEPT ![c] = e.company]
        /\ AppendEvent(e)

\* The payload of a deletion is some company with that id, not necessarily
\* the last state of the row: DeleteCompany reads it before it locks the row.
Delete(e) ==
    LET c == e.company.id
    IN  /\ e.type = "deleted"
        /\ rows[c] # Nil
        /\ rows' = [rows EXCEPT ![c] = Nil]
        /\ AppendEvent(e)

\* One mutation is one step, and the step writes exactly one event.
Next == \E e \in outbox' \ outbox :
            /\ e \in Event
            /\ e.company.id \in Ids
            /\ Create(e) \/ Update(e) \/ Delete(e)

Spec == Init /\ [][Next]_vars
=============================================================================
