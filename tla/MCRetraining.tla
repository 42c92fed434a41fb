---------------------------- MODULE MCRetraining ----------------------------
(* TLC instances of Retraining: a ring of 4 vectors, a quota of 2, a retrain *)
(* after 2 new vectors.                                                      *)
EXTENDS Retraining, TLC

CONSTANTS ip1, ip2

MCIps == {ip1, ip2}
MCScores == {5, 7, 12}
IpSymmetry == Permutations(MCIps)
=============================================================================
