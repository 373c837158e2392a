------------------------------- MODULE MCAdmin -------------------------------
(* Model values of AdminCollector for TLC. *)
EXTENDS AdminCollector, TLC

\* Handlers are interchangeable.
Symmetry == Permutations(Requests)

==============================================================================
