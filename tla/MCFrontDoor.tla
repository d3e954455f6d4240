----------------------------- MODULE MCFrontDoor -----------------------------
(* Small instance of FrontDoor: two of each thing that may overlap. *)
EXTENDS FrontDoor

MCBackoff == <<1, 2>>
=============================================================================
