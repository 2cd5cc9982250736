------------------------------- MODULE Router -------------------------------
(***************************************************************************)
(* SelectRoute of internal/router/rule_router.go, with the cost estimate   *)
(* of internal/cost/simple_engine.go, over a configuration that            *)
(* config.Load accepted (ConfigLoad): the first matching rule whose        *)
(* backend is healthy, else the default backend, else the first healthy    *)
(* one in configuration order; then, unless load is being shed, a cheaper  *)
(* healthy backend that can do the task within the tenant's budget.  Then  *)
(* buildFallback of internal/server/server.go for the backend chosen.      *)
(*                                                                         *)
(* A behaviour is one call: Init ranges over files (a rule is whether it   *)
(* matches the request, matchesRule, and its backend), requests and health *)
(* snapshots, and the steps compute the answer the way the code does, the  *)
(* pass over the costs one backend at a time.  Backends are numbered in    *)
(* configuration order.  Costs are in thousandths of the unit of the       *)
(* configuration, since an estimate is the unit cost times                 *)
(* 1 + max_tokens/1000.                                                    *)
(***************************************************************************)
EXTENDS ConfigLoad

CONSTANTS
  Files,      \* the configuration files
  MaxTokens,  \* options.max_tokens of the request
  Budgets     \* the values of budget_per_request; none when not positive

ASSUME RouterAssumption ==
  /\ Files \subseteq File
  /\ MaxTokens \in Nat \ {0}
  /\ Budgets \subseteq Int

VARIABLES
  file,       \* the configuration file; backends[b].capable: b supports the
              \* request's task_type
  budget,     \* the tenant's budget_per_request
  degrade,    \* OverloadDegrade: the request was admitted at the limit
  healthy,    \* the health snapshot, by place in the file
  pc,
  turn,       \* the backend that optimizeByCost looks at next
  decision,   \* the backend chosen so far and its estimated_cost
  fallback    \* the candidates of buildFallback, by place of their rule

inputs == <<file, budget, degrade, healthy>>
vars == <<inputs, pc, turn, decision, fallback>>

Undecided == [backend |-> 0, cost |-> 0]

Init ==
  /\ file \in Files
  /\ budget \in Budgets
  /\ degrade \in BOOLEAN
  /\ healthy \in SUBSET DOMAIN file.backends
  /\ pc = "started"
  /\ turn = 1
  /\ decision = Undecided
  /\ fallback = {}

-----------------------------------------------------------------------------

conf == Load(file)

Unit(b) == file.backends[b].unit
Capable == {b \in DOMAIN file.backends : file.backends[b].capable}

At(b) == [backend |-> b, cost |-> 1000 * Unit(b)]

(* selectByRules, with firstHealthyBackend; Undecided for its errors.  A    *)
(* matching rule decides when its backend is healthy, or is not found, and  *)
(* the default is looked up only when no rule has decided.                  *)
UseOf(k) == BackendByName(conf, file.rules[k].use)
DecidingAny == {k \in DOMAIN file.rules : file.rules[k].matches}
Deciding ==
  {k \in DOMAIN file.rules : file.rules[k].matches /\ UseOf(k) \in healthy \cup {0}}

AtFound(b) == IF b = 0 THEN Undecided ELSE At(b)

Base ==
  IF Deciding # {} THEN AtFound(UseOf(LeastOf(Deciding)))
  ELSE LET default == BackendByName(conf, conf.default) IN
    IF default \in healthy \cup {0} THEN AtFound(default)
    ELSE IF healthy # {} THEN At(LeastOf(healthy))
    ELSE Undecided

(* SimpleEngine.Estimate. *)
Estimate(b) == (1000 + MaxTokens) * Unit(b)

Affordable(b) == budget <= 0 \/ Estimate(b) <= 1000 * budget

(* A round of optimizeByCost: the best so far, or b when it is cheaper.     *)
BetterLast(best, b) ==
  IF b \in healthy /\ b \in Capable /\ Affordable(b) /\ Estimate(b) <= best.cost
  THEN [backend |-> b, cost |-> Estimate(b)]
  ELSE best
Better(best, b) ==
  IF b \in healthy /\ b \in Capable /\ Affordable(b) /\ Estimate(b) < best.cost
  THEN [backend |-> b, cost |-> Estimate(b)]
  ELSE best

(* buildFallback. *)
Fallback(b) ==
  {j \in DOMAIN file.fallbacks :
     /\ file.fallbacks[j].from = file.backends[b].name
     /\ BackendByName(conf, file.fallbacks[j].to) \in healthy}

(* Load returns an error and the server does not start. *)
Refuse ==
  /\ pc = "started"
  /\ ~Accepted(file)
  /\ pc' = "refused"
  /\ UNCHANGED <<inputs, turn, decision, fallback>>

SelectByRules ==
  /\ pc = "started"
  /\ Accepted(file)
  /\ IF Base = Undecided
     THEN pc' = "route_error" /\ UNCHANGED decision
     ELSE pc' = "optimizing" /\ decision' = Base
  /\ UNCHANGED <<inputs, turn, fallback>>

(* optimizeByCost goes through the backends in configuration order, unless  *)
(* load is being shed.  The base decision enters with its unit cost, not    *)
(* its estimate.                                                            *)
Consider ==
  /\ pc = "optimizing"
  /\ ~degrade /\ turn <= Len(file.backends)
  /\ decision' = Better(decision, turn)
  /\ turn' = turn + 1
  /\ UNCHANGED <<inputs, pc, fallback>>

(* The decision is made, and Run asks for the candidates of its fallback.   *)
Return ==
  /\ pc = "optimizing"
  /\ degrade \/ turn > Len(file.backends)
  /\ pc' = "routed"
  /\ fallback' = Fallback(decision.backend)
  /\ UNCHANGED <<inputs, turn, decision>>

Next == Refuse \/ SelectByRules \/ Consider \/ Return

Spec == Init /\ [][Next]_vars

-----------------------------------------------------------------------------

Routed == pc = "routed"

(* Rules that name the backend chosen and a healthy target, as a reader of  *)
(* the file takes them.                                                     *)
Names(text, b) == Trimmed(text) = Trimmed(file.backends[b].name)
Meant ==
  {j \in DOMAIN file.fallbacks :
     /\ Names(file.fallbacks[j].from, decision.backend)
     /\ \E b \in healthy : Names(file.fallbacks[j].to, b)}

(* README.md:302 says that validation covers the references; a file that    *)
(* passes it works: rules, default, order and cost lead to a healthy        *)
(* backend and never elsewhere, an error means that none is healthy, the    *)
(* chain handed to the fallback loop has every rule meant for the chosen    *)
(* backend whose target is healthy, and the server has an adapter for every *)
(* backend, a retriever for every knowledge base and its ledger.  The one   *)
(* exception is a backend written with spaces around its name, which        *)
(* validate finds and BackendByName does not.  Whether the loop ever comes  *)
(* to a rule of the chain depends on its triggers and fallback_enabled.     *)
AcceptedConfigWorks ==
  /\ Routed => decision.backend \in healthy
  /\ pc = "route_error" => healthy = {} \/ Padded(file)
  /\ Routed => fallback = Meant \/ Padded(file)
  /\ pc \in {"routed", "route_error"} =>
       /\ \A i \in DOMAIN conf.backends : HasAdapter(conf.backends[i])
       /\ \A i \in DOMAIN conf.knowledge : HasRetrieval(conf.knowledge[i])
       /\ conf.ledger.enabled => HasLedger(conf)

(* What the pass computes, said at once: the base decision, unless some     *)
(* eligible backend's whole estimate is under the base's unit cost; then    *)
(* the cheapest of those, the first in order among equals.                  *)
Eligible == {b \in healthy \cap Capable : Affordable(b) /\ Estimate(b) < Base.cost}

OptimizesToCheapest ==
  Routed =>
    IF degrade \/ Eligible = {}
    THEN decision = Base
    ELSE decision.backend =
           LeastOf({b \in Eligible : \A c \in Eligible : Unit(b) <= Unit(c)})
=============================================================================
