---------------------------- MODULE MCAuthRefresh ---------------------------
(* Two processes with one caller each.                                      *)
EXTENDS AuthRefresh, TLC
CONSTANTS p1, p2, c1, c2
\* Each fault alone, and a discard after a revocation that cannot be written.
MCScenarios == {{k} : k \in Kinds} \cup {{"revoke", "write"}}
MCOwner == c1 :> p1 @@ c2 :> p2
=============================================================================
