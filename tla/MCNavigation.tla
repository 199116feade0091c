----------------------------- MODULE MCNavigation -----------------------------
(* Two drives that may overlap; the client of one of them changes its mind.   *)
EXTENDS NavigationDocs

MCGoal == {"g1", "g2"}
MCImpatient == {"g1"}
===============================================================================
