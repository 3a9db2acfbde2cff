----------------------------- MODULE MCAppLogic -----------------------------
(* Instances of AppLogic: what the environment may do, and symmetry.       *)
EXTENDS AppLogic, TLC

MCSymmetry == Permutations(Targets) \cup Permutations(Ids)

NoFaults    == {}
DialFaults  == {"dial"}
LinkFaults  == {"dial", "stream"}
============================================================================
