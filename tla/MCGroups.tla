------------------------------ MODULE MCGroups ------------------------------
(***************************************************************************)
(* Symmetry: devices and request slots are interchangeable.                *)
(***************************************************************************)
EXTENDS GroupsHistory

MCSymmetry == Permutations(Device) \cup Permutations(Request)
=============================================================================
