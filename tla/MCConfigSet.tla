---------------------------- MODULE MCConfigSet ----------------------------
(* Instances of ConfigSet: what can fail.                                  *)
EXTENDS ConfigSet, TLC

MCSymmetry  == Permutations(Metrics)

NoFaults    == {}
WriteFaults == {"write"}
============================================================================
