----------------------------- MODULE MCCepHistory -----------------------------
(* CepHistory with the rules and events of MCCepEngine. *)
EXTENDS CepHistory, MCCepEngine
=============================================================================
