--------------------------- MODULE MCCompanyStore ---------------------------
(***************************************************************************)
(* CompanyStore on two company ids and a few names.  Each .cfg picks the   *)
(* requests that can meet in the way it is about.                          *)
(***************************************************************************)
EXTENDS CompanyStore, TLC

CONSTANTS c1, c2   \* two ids

MCIds == {c1, c2}

\* " A " is sent by clients and trimmed, "zero" holds a zero byte; the others are stored.
MCStrings == {"", "A", " A ", "B", "X", "Y", "zero"}
MCUnstorable == {"zero"}
MCTrimSpace == [s \in MCStrings |-> IF s = " A " THEN "A" ELSE s]
MCRuneCount == [s \in MCStrings |-> CASE s = "" -> 0 [] s = " A " -> 3 [] OTHER -> 1]

\* Two amounts fit the column, 0 and 1; the third overflows it.
MCMaxInt4 == 1
Overflow == 2

MCCompany(c, name) ==
    [id |-> c, name |-> name, description |-> "", amount |-> 0,
     registered |-> FALSE, type |-> "NonProfit"]

NoPatch == [name |-> Nil, description |-> Nil, amount |-> Nil, registered |-> Nil, type |-> Nil]

CreateReq(c, name) == [op |-> "create", id |-> c, body |-> MCCompany(c, name)]
PatchReq(c, p) == [op |-> "patch", id |-> c, body |-> p]
RenameReq(c, name) == PatchReq(c, [NoPatch EXCEPT !.name = name])
AmountReq(c, n) == PatchReq(c, [NoPatch EXCEPT !.amount = n])
DeleteReq(c) == [op |-> "delete", id |-> c, body |-> Nil]
GetReq(c) == [op |-> "get", id |-> c, body |-> Nil]

\* c1 is stored under the name "A".
SeedOne == [c \in MCIds |-> IF c = c1 THEN MCCompany(c1, "A") ELSE Nil]
\* Both are stored.
SeedTwo == [c \in MCIds |-> MCCompany(c, IF c = c1 THEN "A" ELSE "X")]

\* Every operation and every refusal.
EveryRequest ==
    {CreateReq(c2, "B"), CreateReq(c1, "B"), CreateReq(c2, " A "), CreateReq(c2, ""),
     CreateReq(c2, "zero"), PatchReq(c1, [NoPatch EXCEPT !.description = "zero"]),
     RenameReq(c1, "B"), AmountReq(c1, 1), AmountReq(c1, Overflow), AmountReq(c1, -1),
     PatchReq(c1, NoPatch), DeleteReq(c1), GetReq(c1)}

\* Requests that race for one row and for one name.
RacingRequests ==
    {CreateReq(c2, "B"), CreateReq(c1, "A"), RenameReq(c1, "B"), AmountReq(c1, 1),
     DeleteReq(c1)}

\* Both companies, either of two free names.  Two renames that looked their
\* names up while they were free, and two later ones that gave each name to the
\* other company, leave the first two waiting for each other's row.
CrossingRenames == {RenameReq(c, name) : c \in MCIds, name \in {"B", "Y"}}

\* A creation and a deletion come in between.
CrossingRequests == CrossingRenames \cup {DeleteReq(c1), CreateReq(c1, "B")}

\* Two patches of different fields of one company, and a read of it.
OverlappingPatches == {RenameReq(c1, "B"), AmountReq(c1, 1), GetReq(c1)}

Symmetry == Permutations(Clients)
=============================================================================
