----------------------------- MODULE SlotContract -----------------------------
(***************************************************************************)
(* What a TargetSlot says of a slot and what the arm wants of it:          *)
(* mock_perception_server.py and vision_manager.py fill it in,             *)
(* validate_goal of grasp_planner.py looks at it.                          *)
(*                                                                         *)
(* Lengths are whole tenths of a millimetre, directions whole degrees.  A  *)
(* comparison of two equal lengths goes as in exact arithmetic; in the     *)
(* program rounding decides it.                                            *)
(***************************************************************************)
EXTENDS Integers

\* What the goals for a book say of it: whether identifiers are filled in, the
\* sizes of its profile and the margin.
Book == [named : BOOLEAN, width : Nat, height : Nat, thickness : Nat, margin : Nat]
Sized(book) == book.width > 0 /\ book.height > 0 /\ book.thickness > 0
Positive(book) == Sized(book) /\ book.margin > 0

Larger(m, n) == IF m > n THEN m ELSE n
-------------------------------------------------------------------------------
(* Who offers a slot *)

MockX == [i \in 0 .. 3 |-> CASE i = 0 -> -3497 [] i = 1 -> -4297
                             [] i = 2 -> -5097 [] i = 3 -> -2697]

\* Mutant: the margin is left on one side only.
MockWidthOneSided(book) == Larger(800, book.thickness + book.margin)

MockWidth(book) == Larger(800, book.thickness + 2 * book.margin)

MockSlot(i, book) ==
  [frame |-> "arm_base_link", x |-> MockX[i], y |-> 5495, z |-> 3399,
   yaw |-> 90, tilt |-> 0,
   width |-> MockWidth(book), height |-> Larger(3000, book.height + book.margin)]

VisionSlot(x, y, z, book) ==
  [frame |-> "base_link", x |-> x, y |-> y, z |-> z, yaw |-> 90, tilt |-> 0,
   width |-> book.thickness + 2 * book.margin, height |-> book.height + book.margin]
-------------------------------------------------------------------------------
(* What the arm accepts *)

FingerThickness == 264
SideClearance == 50
HeightClearance == 200
MaxDimension == 5000
TurnTolerance == 5     \* degrees, of 0.10 rad

\* A book of plausible size; sizes that are all zero stand for the arm's own.
OwnBook == [width |-> 1631, height |-> 2374, thickness |-> 353]
Resolvable(book) ==
  LET sizes == {book.width, book.height, book.thickness}
  IN  sizes = {0} \/ \A d \in sizes : 0 < d /\ d <= MaxDimension
ResolveBook(book) ==
  IF {book.width, book.height, book.thickness} = {0} THEN OwnBook ELSE book

\* The closed gripper goes into the slot behind the book.
RequiredWidth(book) == Larger(book.thickness, 2 * FingerThickness) + 2 * SideClearance
RequiredHeight(book) == book.height + HeightClearance

Directed(slot) == /\ slot.yaw - 90 \in -TurnTolerance .. TurnTolerance
                  /\ slot.tilt \in -TurnTolerance .. TurnTolerance

\* Sizes are looked at whenever there are any, required or not.
Fits(slot, book) == slot.width > 0 \/ slot.height > 0 =>
                      /\ slot.width >= RequiredWidth(book)
                      /\ slot.height >= RequiredHeight(book)

InRegion(slot) == /\ -5600 <= slot.x /\ slot.x <= -2200
                  /\ 4500 <= slot.y /\ slot.y <= 6500
                  /\ 2500 <= slot.z /\ slot.z <= 4500

ValidateGoal(slot, book) == /\ slot.frame = "arm_base_link"
                            /\ Directed(slot) /\ Fits(slot, book) /\ InRegion(slot)

\* Whether the arm takes a goal with this slot for this book.
ArmTakes(slot, book) == /\ book.named /\ Resolvable(book)
                        /\ ValidateGoal(slot, ResolveBook(book))
===============================================================================
