------------------------------- MODULE MCIntake --------------------------------
(* Intake on two people, one service and one ticket.                       *)
EXTENDS Intake, TLC

CONSTANTS olga, rui

\* Request slots are interchangeable.
Symmetry == Permutations(Requests)
================================================================================
