-------------------------- MODULE MCPaRingBuffer ----------------------------
(* Model-checking instances of PaRingBuffer and the mutants of its code.   *)
EXTENDS PaRingBuffer
=============================================================================
