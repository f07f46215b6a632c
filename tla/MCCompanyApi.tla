---------------------------- MODULE MCCompanyApi ----------------------------
(***************************************************************************)
(* CompanyApi on the companies and names of MCCompanyStore.  The messages  *)
(* hold one that each layer refuses (token, path, body, required fields,   *)
(* patch, entity, Postgres) and requests that race for one row and one     *)
(* name.                                                                   *)
(***************************************************************************)
EXTENDS CompanyApi, TLC

CONSTANTS c1, c2

\* uuid.Nil is an id a client can send and no company can have.
MCIds == {c1, c2, NilId}

\* "zero" holds a zero byte.
MCStrings == {"", "A", "B", " B ", "zero"}
MCUnstorable == {"zero"}
MCTrimSpace == [s \in MCStrings |-> IF s = " B " THEN "B" ELSE s]
MCRuneCount == [s \in MCStrings |-> CASE s = "" -> 0 [] s = " B " -> 3 [] OTHER -> 1]
MCMaxInt4 == 1

MCSeed == [c \in MCIds |->
    IF c = c1 THEN [id |-> c1, name |-> "A", description |-> "", amount |-> 0,
                    registered |-> FALSE, type |-> "NonProfit"]
              ELSE Nil]

Good == [hs256 |-> TRUE, signed |-> TRUE, expiry |-> "future"]
Unexpiring == [Good EXCEPT !.expiry = "absent"]

Post(token, body) == [method |-> "POST", token |-> token, path |-> Nil, body |-> body]
PatchOf(c, body) == [method |-> "PATCH", token |-> Good, path |-> c, body |-> body]
DeleteOf(token, c) == [method |-> "DELETE", token |-> token, path |-> c, body |-> Nil]
Get(c) == [method |-> "GET", token |-> Nil, path |-> c, body |-> Nil]

Body(c, name) == [id |-> c, name |-> name, description |-> Nil, amount |-> 0,
                  registered |-> FALSE, type |-> "NonProfit"]
NoPatch == [name |-> Nil, description |-> Nil, amount |-> Nil, registered |-> Nil, type |-> Nil]

MCMessages ==
    {Post(Good, Body(c2, " B ")), Post(Unexpiring, Body(c2, "B")),
     Post(Good, Body(NilId, "B")), Post(Good, Body(c2, "zero")),
     Post(Good, Nil), Post(Good, [Body(c2, "B") EXCEPT !.amount = Nil]),
     PatchOf(c1, [NoPatch EXCEPT !.name = "B"]), PatchOf(c1, [NoPatch EXCEPT !.amount = 1]),
     PatchOf(c1, NoPatch),
     DeleteOf(Good, c1), Get(c1), Get(NotUuid)}

\* What those that are complete become.
To(op, c, body) == [op |-> op, id |-> c, body |-> body]
Create(c, name) == To("create", c, [Body(c, name) EXCEPT !.description = ""])

MCRequests ==
    {Create(c2, " B "), Create(c2, "B"), Create(NilId, "B"), Create(c2, "zero"),
     To("patch", c1, [NoPatch EXCEPT !.name = "B"]), To("patch", c1, [NoPatch EXCEPT !.amount = 1]),
     To("patch", c1, NoPatch), To("delete", c1, Nil), To("get", c1, Nil)}

Symmetry == Permutations(Clients)
=============================================================================
