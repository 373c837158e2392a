------------------------------ MODULE MCHotspot ------------------------------
(* Model values of HotspotCollector for TLC. *)
EXTENDS HotspotCollector, TLC

\* Handlers are interchangeable, and so are stations.
Symmetry == Permutations(Requests) \cup Permutations(Macs)

==============================================================================
