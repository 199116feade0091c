---------------------------- MODULE MCManipulation ----------------------------
(* Two goals for a tray of two books: one takes the first free slot, the book *)
(* of the other is assigned that slot.  Where one goal is enough the second is *)
(* left out.                                                                   *)
EXTENDS Manipulation, TLC

MCGoal == {"g1", "g2"}
MCSlot == {0, 1}
MCMotion == <<"lift", "carry_rotate", "release">>
MCBookOf == "g1" :> "b1" @@ "g2" :> "b2"
MCBookOfOne == "g1" :> "b1"
MCAssigned == "b2" :> 0
MCImpatient == {"g1"}
===============================================================================
