---------------------------- MODULE MCLaunchSession ----------------------------
(* Instances of LaunchSession for TLC. *)
EXTENDS LaunchSessionInv, TLC

\* Requests, ids and secrets are interchangeable.
Symmetry == Permutations(Requests) \cup Permutations(Txs) \cup
            Permutations(Tokens) \cup Permutations(Sessions)
AnyFaultPoint == Labels \ {"idle"}
NoFaultPoints == {}
===============================================================================
