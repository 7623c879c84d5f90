------------------------------ MODULE MCPaFront ------------------------------
(* Model-checking instances of PaFront: what three initialisers may deliver. *)
EXTENDS PaFront

HostApiWith(devices, input, output) ==
  [result |-> "paNoError", present |-> TRUE, deviceCount |-> devices,
   defaultInputDevice |-> input, defaultOutputDevice |-> output]
Nothing == [HostApiWith(0, -1, -1) EXCEPT !.present = FALSE]
Failure == [Nothing EXCEPT !.result = "error"]

\* In front a host API with two devices, neither a default, or none; in the
\* middle one without devices or failing; at last one with an input device.
ManyResults ==
  [n \in 0..InitializerCount-1 |->
     CASE n = 0 -> {HostApiWith(2, -1, -1), Nothing}
       [] n = 1 -> {HostApiWith(0, -1, -1), Failure}
       [] n = 2 -> {HostApiWith(1, 0, -1)}]
=============================================================================
