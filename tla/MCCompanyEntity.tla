-------------------------- MODULE MCCompanyEntity --------------------------
(***************************************************************************)
(* CompanyEntity on a handful of texts: for the name and the description   *)
(* one text at the limit, the same text padded (longer than the limit      *)
(* until it is trimmed), one past the limit, a blank one and an empty one. *)
(***************************************************************************)
EXTENDS CompanyEntity

MCStrings == {"", " ", "fit15", " fit15 ", "over16", "fit3000", " fit3000 ", "over3001"}

MCTrimSpace == [s \in MCStrings |->
    CASE s = " "         -> ""
      [] s = " fit15 "   -> "fit15"
      [] s = " fit3000 " -> "fit3000"
      [] OTHER           -> s]

MCRuneCount == [s \in MCStrings |->
    CASE s = ""          -> 0
      [] s = " "         -> 1
      [] s = "fit15"     -> 15
      [] s = " fit15 "   -> 17
      [] s = "over16"    -> 16
      [] s = "fit3000"   -> 3000
      [] s = " fit3000 " -> 3002
      [] s = "over3001"  -> 3001]

MCTypes == ValidTypes \cup {"Partnership"}

MCNames == {"", " ", "fit15", " fit15 ", "over16"}
MCDescriptions == {"", " fit3000 ", "over3001"}

MCInputs == [id : Ids \cup {NilId}, name : MCNames, description : MCDescriptions,
             amount : {-1, 0}, registered : BOOLEAN,
             type : {"NonProfit", "Partnership"}]

MCPatches == [name : MCNames \cup {Nil}, description : MCDescriptions \cup {Nil},
              amount : {Nil, -1, 0, 7}, registered : BOOLEAN \cup {Nil},
              type : {Nil, "Cooperative", "Partnership"}]
=============================================================================
