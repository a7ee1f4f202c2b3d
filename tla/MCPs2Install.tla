---------------------------- MODULE MCPs2Install ----------------------------
(* The user types and moves from power on, or waits for the desktop.       *)
EXTENDS Ps2Install

AnyTime == {0, Len(Program) + 1}
=============================================================================
