------------------------------ MODULE MCRelay ------------------------------
(* Relay with a few interchangeable connections.                           *)
EXTENDS Relay
ConnSymmetry == Permutations(Handles)
=============================================================================
