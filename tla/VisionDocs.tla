------------------------------ MODULE VisionDocs ------------------------------
(* What comments in vision_manager.py say and its code does not do.           *)
EXTENDS Vision

\* "If it was an action request, the first empty shelf is returned as a
\* TargetSlot result" (vision_manager.py:619): a frame in which empty slots are
\* found gets as far as reporting them.
FoundSlotsAreReported ==
  [][frame # None /\ frame.step = "found" /\ frame.empty # {} =>
       \/ frame' = frame
       \/ frame' # None /\ frame'.step = "drawn"]_vars
===============================================================================
