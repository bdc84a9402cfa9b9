-------------------------- MODULE MCLeaderElection --------------------------
EXTENDS LeaderElection
CONSTANTS c1, c2, l1, l2, l3
=============================================================================
