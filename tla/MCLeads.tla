------------------------------- MODULE MCLeads --------------------------------
(***************************************************************************)
(* Instances of Leads for TLC.                                             *)
(***************************************************************************)
EXTENDS Leads, TLC

\* A callback, an answer to be called back on, and a sale.
Agreed == {0, 12}

SlotSymmetry == Permutations(Slots)
===============================================================================
