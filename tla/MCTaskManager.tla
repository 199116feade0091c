----------------------------- MODULE MCTaskManager -----------------------------
(* Two plannable jobs, one with two books and one with a single book, the    *)
(* first one also published a second time, and a tray with a blank job_id.   *)
EXTENDS TaskManager, TLC

MCJob == {"j1", "j2"}
MCBook == {"b1", "b2"}
MCShelf == {"s1", "s2"}
MCMessage == {"tray1", "tray1again", "tray2", "bad"}
MCJobIdOf == "tray1" :> "j1" @@ "tray1again" :> "j1" @@ "tray2" :> "j2"
               @@ "bad" :> None
MCPlannable == {"tray1", "tray1again", "tray2"}
TwoBooks == <<[book |-> "b1", shelf |-> "s1"], [book |-> "b2", shelf |-> "s2"]>>
OneBook == <<[book |-> "b2", shelf |-> "s1"]>>
MCTasksOf == "tray1" :> TwoBooks @@ "tray1again" :> TwoBooks
               @@ "tray2" :> OneBook
MCReportedCode == {404}
===============================================================================
