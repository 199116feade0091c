------------------------------- MODULE MCVision -------------------------------
(* Goals that may overlap, two slots to look at, and a client that cancels.   *)
EXTENDS VisionDocs

MCTwo == {"g1", "g2"}
MCCandidate == {0, 1}
MCImpatient == {"g1"}
===============================================================================
