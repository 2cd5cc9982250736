--------------------------- MODULE MCPolicyEngine ---------------------------
(* An instance of PolicyEngine for TLC: "a" is limited to one call a        *)
(* second, to two steps, to one tool and to 256 tokens, "b" to two calls a  *)
(* second; "free" has no limits; nobody configured "stranger".              *)
EXTENDS PolicyEngine, TLC

LimitAB == [t \in Tenants |-> IF t = "a" THEN 1 ELSE IF t = "b" THEN 2 ELSE 0]
CapsA == [t \in Tenants |-> [f \in Fields |-> IF t = "a" THEN 2 ELSE 0]]
ToolsA == [t \in Tenants |-> IF t = "a" THEN {"search"} ELSE {}]
BudgetA == [t \in Tenants |-> IF t = "a" THEN 2 ELSE 0]

Plain == [agent |-> FALSE, declares |-> [f \in Fields |-> Absent], tools |-> {}, tokens |-> 256]
Agent(v, tools) ==
  [Plain EXCEPT !.agent = TRUE, !.declares = [f \in Fields |-> v], !.tools = tools]
FewAsks ==
  {Plain, [Plain EXCEPT !.tokens = 257],
   Agent(25, {"search"}), Agent(40, {}), Agent(Absent, {"search", "shell"})}

Symmetry == Permutations(Requests)
=============================================================================
