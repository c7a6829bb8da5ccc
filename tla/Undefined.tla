----------------------------- MODULE Undefined -----------------------------
(* The value of what is not there: JavaScript's undefined and null.        *)
CONSTANT None
=============================================================================
