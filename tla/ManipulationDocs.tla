--------------------------- MODULE ManipulationDocs ---------------------------
(* What documents, comments and tests of the repository say of the PlaceBook *)
(* server and its executor, and the code does not do.                        *)
EXTENDS MCManipulation

\* A second goal is refused while the first is worked on
\* (FSM_PLACEBOOK_SESSION.md:64).
OneGoalAtATime ==
  Cardinality({g \in Goal : stage[g] \notin {"new", "rejected", "done"}}) <= 1

\* A failed grasp (M405) leaves the book in the tray, and its slot may be
\* selected again (test_manipulation_node.py:159).
GraspFailureKeepsSlot ==
  \A g \in Goal : stage[g] = "done" /\ outcome[g] = 405 => slotOf[g] \notin used
===============================================================================
