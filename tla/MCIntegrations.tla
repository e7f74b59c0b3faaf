--------------------------- MODULE MCIntegrations ---------------------------
(* Instances of Integrations for TLC. *)
EXTENDS Integrations, TLC

\* Installers are interchangeable.
Symmetric == Permutations(Installers)
=============================================================================
