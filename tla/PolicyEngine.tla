---------------------------- MODULE PolicyEngine ----------------------------
(***************************************************************************)
(* BasicEngine.Evaluate of internal/policy/basic_engine.go: the checks     *)
(* that look at one request and its tenant only, and then the rate limit   *)
(* (RateLimiter), which is the one part with state.  Any number of         *)
(* handlers evaluate at once.                                              *)
(***************************************************************************)
EXTENDS RateLimiter

CONSTANTS
  Known,         \* the tenants of the configuration
  Tools,
  Fields,        \* the context fields a tenant may limit, as max_steps
  WholeFields,   \* those read through toInt, which cuts a fraction off
  Asks,          \* the requests that arrive: whether of type agent, the context
                 \* fields (in tenths, Absent when missing), the tools, max_tokens
  Absent,
  Caps,          \* Caps[t]: the limit of each field, 0 for none
  AllowedTools,  \* AllowedTools[t]: empty for no restriction
  Budget,        \* Budget[t]: budget_per_request, 0 for none
  AgentEnabled,  \* features.agent_enabled
  MaxInt         \* the greatest int

ASSUME PolicyAssumption ==
  /\ Known \subseteq Tenants
  /\ WholeFields \subseteq Fields
  /\ Asks \subseteq [agent : BOOLEAN, declares : [Fields -> Nat \cup {Absent}],
                     tools : SUBSET Tools, tokens : Nat \ {0}]
  /\ Absent \notin Nat
  /\ Caps \in [Tenants -> [Fields -> 0 .. MaxInt]]
  /\ AllowedTools \in [Tenants -> SUBSET Tools]
  /\ Budget \in [Tenants -> Nat]
  /\ AgentEnabled \in BOOLEAN
  /\ MaxInt \in Nat

VARIABLES
  ask,     \* the request of each call
  beyond   \* what int() makes of a float64 above every int

policyVars == <<vars, ask, beyond>>

(* Go leaves the conversion to the build: amd64 yields the least int, arm64 *)
(* the greatest.                                                            *)
PolicyInit ==
  /\ Init
  /\ ask \in [Requests -> Asks]
  /\ beyond \in {-MaxInt - 1, MaxInt}

(* A field as the check compares it, in tenths. *)
Overflows(f, v) == f \in WholeFields /\ v >= 10 * (MaxInt + 1)

Read(f, v) ==
  CASE f \notin WholeFields -> v
    [] Overflows(f, v) -> 10 * beyond
    [] f \in WholeFields /\ ~Overflows(f, v) -> 10 * (v \div 10)

Over(r, f) ==
  /\ Caps[tenant[r]][f] > 0
  /\ ask[r].declares[f] # Absent
  /\ Read(f, ask[r].declares[f]) > 10 * Caps[tenant[r]][f]

ForbiddenTools(r) ==
  IF AllowedTools[tenant[r]] = {} THEN {} ELSE ask[r].tools \ AllowedTools[tenant[r]]

(* validateAgentTenantLimits; without a context nothing is declared. *)
WithinLimitsOfFields(r) == ask[r].agent => \A f \in Fields : ~Over(r, f)
WithinLimits(r) ==
  ask[r].agent => (\A f \in Fields : ~Over(r, f)) /\ ForbiddenTools(r) = {}

(* estimateBudgetConsumption, in 256ths: one, and one per 256 tokens. *)
Consumption(r) == 256 + ask[r].tokens

WithinBudget(r) ==
  Budget[tenant[r]] > 0 => Consumption(r) <= 256 * Budget[tenant[r]]

Passes(r) ==
  /\ tenant[r] \in Known
  /\ ask[r].agent => AgentEnabled
  /\ WithinLimits(r)
  /\ WithinBudget(r)

Reject(r) ==
  /\ pc' = [pc EXCEPT ![r] = "rejected"]
  /\ UNCHANGED <<now, windowSecond, counts, tenant, stamp, granted, opened>>

(* Up to the call of allowByRateLimit, and its first lines. *)
BeginLimiterFirst(r) ==
  \/ Unlimited(r) \/ ReadClock(r)
  \/ pc[r] = "allowed" /\ ~Passes(r) /\ Reject(r)
Begin(r) ==
  \/ pc[r] = "idle" /\ ~Passes(r) /\ Reject(r)
  \/ Passes(r) /\ (Unlimited(r) \/ ReadClock(r))

PolicyNext ==
  /\ \/ Tick
     \/ \E r \in Requests : Begin(r) \/ Deny(r) \/ Allow(r)
  /\ UNCHANGED <<ask, beyond>>

PolicySpec == PolicyInit /\ [][PolicyNext]_policyVars

-----------------------------------------------------------------------------
(* Only what passes every other check comes to the rate limit: a request    *)
(* refused for its tenant, limits or budget is to the limiter one that      *)
(* never called, so all that is proved of RateLimiter holds of the engine.  *)
Limiter == INSTANCE RateLimiter WITH
  pc <- [r \in Requests |-> IF pc[r] = "rejected" THEN "idle" ELSE pc[r]]
LimiterKept == Limiter!Spec

(* The tenant's limits hold of what is let through, up to what toInt makes  *)
(* of a number: an agent allowed to run uses listed tools only, fits the    *)
(* tenant's budget, and stays below the next whole step of each limit,      *)
(* unless the number is above every int and the build's int() turns it into *)
(* one that keeps the limit.                                                *)
AllowedWithinTenant ==
  \A r \in Requests :
    pc[r] \in {"stamped", "allowed"} =>
      /\ tenant[r] \in Known
      /\ Budget[tenant[r]] > 0 => ask[r].tokens <= 256 * (Budget[tenant[r]] - 1)
      /\ ask[r].agent =>
           /\ AllowedTools[tenant[r]] # {} => ask[r].tools \subseteq AllowedTools[tenant[r]]
           /\ \A f \in Fields :
                Caps[tenant[r]][f] > 0 /\ ask[r].declares[f] # Absent =>
                  \/ ask[r].declares[f] < 10 * (Caps[tenant[r]][f] + 1)
                  \/ Overflows(f, ask[r].declares[f]) /\ beyond <= Caps[tenant[r]][f]
=============================================================================
