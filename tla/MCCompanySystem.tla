-------------------------- MODULE MCCompanySystem --------------------------
(***************************************************************************)
(* CompanySystem on one stored company that is changed, deleted and        *)
(* created again by two clients, and two publishers.                       *)
(***************************************************************************)
EXTENDS CompanySystem

CONSTANT c1   \* the id

MCIds == {c1}

MCStrings == {"", "A"}
MCTrimSpace == [s \in MCStrings |-> s]
MCRuneCount == [s \in MCStrings |-> IF s = "" THEN 0 ELSE 1]

MCCompany == [id |-> c1, name |-> "A", description |-> "", amount |-> 0,
              registered |-> FALSE, type |-> "NonProfit"]

AmountPatch == [name |-> Nil, description |-> Nil, amount |-> 1, registered |-> Nil,
                type |-> Nil]

\* The life of a company.
MCRequests == {[op |-> "create", id |-> c1, body |-> MCCompany],
               [op |-> "patch", id |-> c1, body |-> AmountPatch],
               [op |-> "delete", id |-> c1, body |-> Nil]}

MCSeed == [c \in MCIds |-> MCCompany]

MCStamps == 1..MaxRequests
=============================================================================
