-------------------------------- MODULE MCWan --------------------------------
(* Model values of WanCollector for TLC. *)
EXTENDS WanCollector, TLC

\* Handlers are interchangeable.
Symmetry == Permutations(Requests)

==============================================================================
