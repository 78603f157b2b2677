-------------------------- MODULE MCStatelessPort --------------------------
(* Small instances of StatelessPort: a stream is named after its kind.     *)
EXTENDS StatelessPort, TLC

KindOf == [s \in Streams |-> s]

\* The cores are told apart by nothing but their names.
CoreSymmetry == Permutations(Cores)
=============================================================================
