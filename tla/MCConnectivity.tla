--------------------------- MODULE MCConnectivity ---------------------------
(* An instance of Connectivity: user agents of at most three tokens with the    *)
(* numbers 1 and 2, and three policies around these numbers.                    *)
EXTENDS Connectivity, FiniteSets

MCBrowsers ==
  UNION {[names -> {NoVersion, 1, 2}] : names \in {s \in SUBSET Tokens : Cardinality(s) <= 3}}

Policy(enabled, minimum) ==
  [version |-> 1, browsers |-> [f \in Families |->
     [enabled |-> f \in enabled, minimum |-> minimum]]]

MCPolicies ==
  {Policy(Families, 1), Policy(Families, 2), Policy({"safari", "ios_safari", "edge"}, 2)}
===============================================================================
