------------------------------ MODULE MCRouter ------------------------------
(* The files for TLC: all that differ in costs, capabilities, default and a *)
(* rule over three backends, and all with two rules and fixed costs; small  *)
(* ones with every way to write a name; correct files with one part changed.*)
EXTENDS Router

CONSTANTS N, MaxRules, UnitCosts

Backend(name, unit, capable) ==
  [name |-> name, type |-> "mock", given |-> {}, unit |-> unit, capable |-> capable]

Plainly ==
  [backends |-> [b \in 1 .. 2 |-> Backend(Plain(b), 1, TRUE)], default |-> Plain(1),
   rules |-> <<>>, fallbacks |-> <<>>, tenants |-> <<Plain(1)>>,
   queueLimit |-> 0, action |-> "", exporter |-> "", otlpEndpoint |-> FALSE,
   ledger |-> [enabled |-> TRUE, type |-> "", given |-> {}], knowledge |-> <<>>,
   httpTimeouts |-> {0}]

Rule(k, matches, use) == [name |-> Plain(k), matches |-> matches, use |-> use]

UpTo(S, n) == UNION {[1 .. k -> S] : k \in 0 .. n}

RoutingFile(unit, capable, default, rules) ==
  [Plainly EXCEPT
     !.backends = [b \in 1 .. N |-> Backend(Plain(b), unit[b], capable[b])],
     !.default = Plain(default),
     !.rules = [k \in DOMAIN rules |-> Rule(k, rules[k].matches, Plain(rules[k].use))]]

Rules(n) == UpTo([matches : BOOLEAN, use : 1 .. N], n)

RoutingFiles ==
  {RoutingFile(unit, capable, default, rules) :
     unit \in [1 .. N -> UnitCosts], capable \in [1 .. N -> BOOLEAN], default \in 1 .. N,
     rules \in Rules(1)}
  \cup {RoutingFile([b \in 1 .. N |-> b], [b \in 1 .. N |-> TRUE], default, rules) :
          default \in 1 .. N, rules \in Rules(MaxRules)}

Written == {Empty} \cup [word : 1 .. 2, padded : BOOLEAN]

NamedFile(names, default, use, links) ==
  [Plainly EXCEPT
     !.backends = [b \in DOMAIN names |-> Backend(names[b], 1, TRUE)],
     !.default = default,
     !.rules = [k \in DOMAIN use |-> Rule(k, TRUE, use[k])],
     !.fallbacks = [k \in DOMAIN links |-> [from |-> links[k][1], to |-> links[k][2],
                                            on |-> {"timeout"}]]]

NamedFiles ==
  {NamedFile(names, default, use, <<>>) :
     names \in UpTo(Written, 2), default \in Written, use \in UpTo(Written \ {Empty}, 1)}
  \cup {NamedFile(names, default, <<>>, links) :
          names \in UpTo(Written, 2), default \in Written,
          links \in UpTo(Written \X Written, 1)}

Params == {"endpoint", "default_model", "api_key", "aws_region", "vertex_project",
           "vertex_location"}

TypedFiles ==
  {[Plainly EXCEPT !.backends[1].type = type, !.backends[1].given = given] :
     type \in DOMAIN BackendNeeds \cup {"other"}, given \in SUBSET Params}

KnowledgeFiles ==
  {[Plainly EXCEPT !.knowledge = <<[name |-> name, type |-> type, given |-> given]>>] :
     name \in {Empty, Plain(1)}, type \in DOMAIN KnowledgeNeeds \cup {"other"},
     given \in SUBSET {"path", "endpoint", "index", "api_key"}}

LedgerFiles ==
  {[Plainly EXCEPT !.ledger = ledger] :
     ledger \in [enabled : BOOLEAN, type : DOMAIN LedgerNeeds \cup {"", "other"},
                 given : SUBSET {"path", "dsn"}]}

OtherFiles ==
  {[Plainly EXCEPT !.exporter = exporter, !.otlpEndpoint = endpoint] :
     exporter \in Exporters \cup {"", "other"}, endpoint \in BOOLEAN}
  \cup {[Plainly EXCEPT !.action = action, !.queueLimit = limit, !.httpTimeouts = timeouts] :
          action \in {"", "reject", "degrade", "other"}, limit \in {-1, 5},
          timeouts \in {{0}, {-1, 0}, {86400000, 0}, {86400001, 0}}}
  \cup {[Plainly EXCEPT !.tenants = ids] : ids \in UpTo(Written, 2)}
  \cup {[Plainly EXCEPT !.rules = <<Rule(1, TRUE, Plain(1)), Rule(k, TRUE, Plain(2))>>] :
          k \in 0 .. 2}
  \cup {[Plainly EXCEPT !.fallbacks = <<[from |-> Plain(1), to |-> Plain(2), on |-> on]>>] :
          on \in SUBSET {"timeout", "other"}}

AllFiles ==
  RoutingFiles \cup NamedFiles \cup TypedFiles \cup KnowledgeFiles \cup LedgerFiles
    \cup OtherFiles
=============================================================================
