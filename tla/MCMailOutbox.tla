----------------------------- MODULE MCMailOutbox ------------------------------
(* MailOutbox on two messages and two drainers.  Mishaps meet the first    *)
(* message twice, so that an overrun lease, a crash or a lost answer may   *)
(* follow one another; the second is what the drainers do besides.         *)
EXTENDS MailOutbox, TLC

CONSTANTS m1, m2

TwoOfTheFirst == (m1 :> 2) @@ (m2 :> 0)
================================================================================
