---------------------------- MODULE NavigationDocs ----------------------------
(* What the interface documents say of drives and navigation_node.py does not *)
(* keep.                                                                      *)
EXTENDS Navigation

\* "When an action is cancelled, the motors are not just cut off: it returns its
\* result after going to a defined safe state" (docs/03_ros_interfaces.md:15):
\* the robot does not drive on for a goal that was to be cancelled and has ended.
CancelStopsTheRobot ==
  \A g \in Goal : g \in asked /\ stage[g] = "done" => nav2[g] # "driving"
===============================================================================
