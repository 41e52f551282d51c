-------------------------- MODULE MCAnalyzerCommand --------------------------
(* An inventory with each kind of package that makes a difference. *)
EXTENDS AnalyzerCommand

Anywhere == Only({})
MCDependencies == {
  [development |-> FALSE, optional |-> FALSE, os |-> Anywhere, libc |-> Anywhere],
  [development |-> TRUE, optional |-> FALSE, os |-> Anywhere, libc |-> Anywhere],
  [development |-> FALSE, optional |-> TRUE, os |-> Anywhere, libc |-> Anywhere],
  [development |-> FALSE, optional |-> TRUE, os |-> Never({"linux"}), libc |-> Anywhere],
  [development |-> FALSE, optional |-> TRUE, os |-> Only({"linux"}), libc |-> Only({"musl"})]}
=============================================================================
