-------------------------- MODULE MCOHttpListener --------------------------
(* Small instances of OHttpListener for TLC.                               *)
EXTENDS OHttpListener, TLC

(* Requests are interchangeable: only equality is asked of them.           *)
RequestSymmetry == Permutations(Requests)

(* The POSIX build while other network events keep reaching a blocked loop.*)
BusySpec == Spec /\ WF_vars(NetworkEvent)
=============================================================================
