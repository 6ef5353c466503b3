----------------------------- MODULE MCSocketLife -----------------------------
(* Three starts of kdesud on one display.  They are alike, but symmetry is   *)
(* not used: one of the properties is a liveness property.                   *)
EXTENDS SocketLife

CONSTANTS p1, p2, p3

TwoStarts == {p1, p2}
ThreeStarts == {p1, p2, p3}
===============================================================================
