------------------------------- MODULE MCLogTail -------------------------------
(* A small instance of LogTail for TLC: everything may happen.              *)
EXTENDS LogTail

EndOrBeginning == BOOLEAN
Everything     == Happening
=============================================================================
