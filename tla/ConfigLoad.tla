----------------------------- MODULE ConfigLoad -----------------------------
(***************************************************************************)
(* config.Load of internal/config/config.go: the defaults it fills in and  *)
(* validate(), as functions of the file.  The rest of the program looks    *)
(* names up with BackendByName, which compares the text as written, while  *)
(* validate collects backend names with the spaces around them trimmed.    *)
(*                                                                         *)
(* A text is the word in it (0 for none) and whether spaces surround it.   *)
(* A parameter that must be given (an endpoint, an API key) is in "given"  *)
(* when it is not blank.  Texts that are compared regardless of case and   *)
(* spaces everywhere (drivers, kinds of knowledge base, the overload       *)
(* action) are plain strings.                                              *)
(***************************************************************************)
EXTENDS Integers, Sequences

Texts == [word : Nat, padded : BOOLEAN]
Text(word, padded) == [word |-> word, padded |-> padded]
Plain(word) == Text(word, FALSE)
Empty == Plain(0)

Blank(text) == text.word = 0
Trimmed(text) == Plain(text.word)

(* A configuration file, as far as validation or a lookup looks at it.  A   *)
(* rule of the router has the outcome of matchesRule for the request in     *)
(* question, a backend whether it can do the request's task.                *)
File ==
  [backends : Seq([name : Texts, type : STRING, given : SUBSET STRING, unit : Int,
                   capable : BOOLEAN]),
   default : Texts,
   rules : Seq([name : Texts, matches : BOOLEAN, use : Texts]),
   fallbacks : Seq([from : Texts, to : Texts, on : SUBSET STRING]),
   tenants : Seq(Texts),
   queueLimit : Int, action : STRING, exporter : STRING, otlpEndpoint : BOOLEAN,
   ledger : [enabled : BOOLEAN, type : STRING, given : SUBSET STRING],
   knowledge : Seq([name : Texts, type : STRING, given : SUBSET STRING]),
   httpTimeouts : SUBSET Int]

(* What each type of backend needs. *)
BackendNeeds ==
  [mock |-> {},
   vllm |-> {"endpoint"}, openai |-> {"endpoint"}, openai_compatible |-> {"endpoint"},
   azure_openai |-> {"endpoint", "default_model"},
   anthropic |-> {"api_key", "default_model"},
   bedrock |-> {"aws_region", "default_model"},
   gemini |-> {"api_key", "default_model"},
   gemini_vertex |-> {"vertex_project", "vertex_location", "api_key", "default_model"}]

(* And each type of knowledge base. *)
KnowledgeNeeds ==
  [file |-> {"path"}, http |-> {"endpoint"},
   opensearch |-> {"endpoint", "index"}, elasticsearch |-> {"endpoint", "index"},
   meilisearch |-> {"endpoint", "index", "api_key"}]

LedgerNeeds == [memory |-> {}, sqlite |-> {"path"}, postgres |-> {"dsn"}]

Exporters == {"log", "otlp-http-stub", "otlp-http", "otlp-http-json"}
NeedEndpoint == {"otlp-http", "otlp-http-json"}

ValidTriggers ==
  {"timeout", "backend_unhealthy", "upstream_4xx", "upstream_5xx", "backend_error"}

MaxHttpTimeout == 86400000

Meets(needs, part) == part.type \in DOMAIN needs /\ needs[part.type] \subseteq part.given

-----------------------------------------------------------------------------
(* Load: the defaults. *)

DefaultExporter(file) == IF file.otlpEndpoint THEN "otlp-http" ELSE "log"

Load(file) ==
  [file EXCEPT
     !.exporter = IF @ = "" THEN DefaultExporter(file) ELSE @,
     !.default = IF @ = Empty /\ file.backends # <<>> THEN file.backends[1].name ELSE @,
     !.queueLimit = IF @ <= 0 THEN 200 ELSE @,
     !.action = IF @ = "" THEN "degrade" ELSE @,
     !.ledger.type = IF @ = "" THEN "memory" ELSE @]

-----------------------------------------------------------------------------
(* validate, one operator for each part of the file. *)

Distinct(texts) ==
  \A i, j \in DOMAIN texts : Trimmed(texts[i]) = Trimmed(texts[j]) => i = j

BackendTexts(conf) == [i \in DOMAIN conf.backends |-> conf.backends[i].name]

(* The keys of backendNames. *)
BackendNames(conf) == {Trimmed(conf.backends[i].name) : i \in DOMAIN conf.backends}

HttpTimeoutsValid(conf) == conf.httpTimeouts \subseteq 0 .. MaxHttpTimeout

BackendsValid(conf) ==
  /\ conf.backends # <<>>
  /\ Distinct(BackendTexts(conf))
  /\ \A i \in DOMAIN conf.backends :
       ~Blank(conf.backends[i].name) /\ Meets(BackendNeeds, conf.backends[i])

TenantsValid(conf) ==
  Distinct(conf.tenants) /\ \A i \in DOMAIN conf.tenants : ~Blank(conf.tenants[i])

DefaultValid(conf) == conf.default \in BackendNames(conf)

RulesValid(conf) ==
  /\ \A i \in DOMAIN conf.rules :
       ~Blank(conf.rules[i].name) /\ conf.rules[i].use \in BackendNames(conf)
  /\ \A i, j \in DOMAIN conf.rules : conf.rules[i].name = conf.rules[j].name => i = j

FallbacksValidTriggersOnly(conf) ==
  \A i \in DOMAIN conf.fallbacks : conf.fallbacks[i].on # {} /\ conf.fallbacks[i].on \subseteq ValidTriggers
FallbacksValid(conf) ==
  \A i \in DOMAIN conf.fallbacks :
    /\ {conf.fallbacks[i].from, conf.fallbacks[i].to} \subseteq BackendNames(conf)
    /\ conf.fallbacks[i].on # {} /\ conf.fallbacks[i].on \subseteq ValidTriggers

TelemetryValid(conf) ==
  /\ conf.exporter \in Exporters
  /\ conf.exporter \in NeedEndpoint => conf.otlpEndpoint

LedgerValid(conf) ==
  /\ conf.ledger.type \in DOMAIN LedgerNeeds
  /\ conf.ledger.enabled => Meets(LedgerNeeds, conf.ledger)

KnowledgeValid(conf) ==
  \A i \in DOMAIN conf.knowledge :
    ~Blank(conf.knowledge[i].name) /\ Meets(KnowledgeNeeds, conf.knowledge[i])

Valid(conf) ==
  /\ HttpTimeoutsValid(conf) /\ BackendsValid(conf) /\ TenantsValid(conf)
  /\ DefaultValid(conf) /\ RulesValid(conf)
  /\ conf.action \in {"reject", "degrade"}
  /\ FallbacksValid(conf) /\ TelemetryValid(conf) /\ LedgerValid(conf) /\ KnowledgeValid(conf)

Accepted(file) == Valid(Load(file))

-----------------------------------------------------------------------------
(* What the program built from the configuration finds and has. *)

(* The first place of those found. *)
LeastOf(S) == CHOOSE n \in S : \A m \in S : n <= m

(* BackendByName: the place of the backend, 0 when there is none. *)
BackendByName(conf, name) ==
  LET found == {i \in DOMAIN conf.backends : conf.backends[i].name = name}
  IN IF found = {} THEN 0 ELSE LeastOf(found)

(* adapters.NewBackend and retrieval.FromConfig leave out what they cannot  *)
(* build, and a ledger that cannot be opened is left out too.               *)
AdapterTypes ==
  {"mock", "vllm", "openai", "openai_compatible", "azure_openai", "anthropic", "bedrock",
   "gemini", "gemini_vertex"}

HasAdapter(backend) == backend.type \in AdapterTypes

RetrievalNeeds ==
  [file |-> {}, http |-> {"endpoint"}, opensearch |-> {"endpoint", "index"},
   elasticsearch |-> {"endpoint", "index"}, meilisearch |-> {"endpoint", "index", "api_key"}]

HasRetrieval(kb) == Meets(RetrievalNeeds, kb)

HasLedger(conf) == conf.ledger.enabled /\ Meets(LedgerNeeds, conf.ledger)

Padded(conf) == \E i \in DOMAIN conf.backends : conf.backends[i].name.padded
=============================================================================
