--------------------------- MODULE MCShelvingSystem ---------------------------
(* Two trays for a robot whose tray has two slots, so that the second finds *)
(* none left (or one, if a placement failed early), and a restart between   *)
(* two books, after which the tray is sent again.                           *)
EXTENDS ShelvingSystem, TLC

MCJob == {"j1", "j2"}
MCBook == {"b1", "b2"}
MCShelf == {"s1"}
MCMessage == {"tray1", "tray2"}
MCJobIdOf == "tray1" :> "j1" @@ "tray2" :> "j2"
MCTasksOf == "tray1" :> <<[book |-> "b1", shelf |-> "s1"], [book |-> "b2", shelf |-> "s1"]>>
               @@ "tray2" :> <<[book |-> "b2", shelf |-> "s1"]>>
MCReportedCode == {401, 403, 404, 405, 406, 409, 410, 411, 412}
MCSlot == {0, 1}
MCMotion == <<"lift", "carry_rotate", "release">>
MCAssigned == <<>>
MCFickle == {"manipulation"}
===============================================================================
