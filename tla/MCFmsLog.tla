------------------------------- MODULE MCFmsLog -------------------------------
(* Small instances of FmsLog for TLC.                                      *)
EXTENDS FmsLog, TLC

(* The threads that log are interchangeable.                               *)
PrinterSymmetry == Permutations(Printers)
=============================================================================
