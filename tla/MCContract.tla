------------------------------ MODULE MCContract ------------------------------
(***************************************************************************)
(* A small instance of PasskeyContract: a payload or another field holds a *)
(* code that most operations declare, or a value that is not a string.     *)
(***************************************************************************)
EXTENDS PasskeyContract

CONSTANT number

CodeOrNumber == {"forbidden", number}
OnlyNumber == {number}
OneName == {"reason"}
=============================================================================
