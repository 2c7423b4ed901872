---------------------------- MODULE MCPinGuard ----------------------------
(* Instances of PinGuard for TLC: handlers are interchangeable.            *)
EXTENDS PinGuard, TLC

SlotSymmetry == Permutations(Slot)
=============================================================================
