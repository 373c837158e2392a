----------------------------- MODULE MCDashboard -----------------------------
(* Model values of Dashboard for TLC. *)
EXTENDS Dashboard, TLC

\* Polls are interchangeable, and so are operations.
Symmetry == Permutations(Polls) \cup Permutations(Clicks)

==============================================================================
