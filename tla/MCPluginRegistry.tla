-------------------------- MODULE MCPluginRegistry --------------------------
(***************************************************************************)
(* An instance of PluginRegistry for TLC: a logged-in and the anonymous     *)
(* owner, two plugin names and two streams.                                 *)
(***************************************************************************)
EXTENDS PluginRegistry, TLC

CONSTANTS alice, c1, c2, n1, n2

TwoOwners == {Anonymous, alice}
TwoNames == {n1, n2}
TwoConns == {c1, c2}

Symmetry == Permutations({c1, c2}) \cup Permutations({n1, n2})
=============================================================================
