----------------------------- MODULE MCLifecycle -----------------------------
(***************************************************************************)
(* A small instance of Lifecycle.                                          *)
(***************************************************************************)
EXTENDS Lifecycle

CONSTANT Runs  \* how often the Plugin may be activated

\* Activations are numbered in the order in which they are tried.
NumberedActivations == 1..Runs
=============================================================================
