--------------------------- MODULE InferPipeline ---------------------------
(***************************************************************************)
(* The life of a POST /infer request: Server.infer of                      *)
(* internal/server/server.go and Orchestrator.Run of                       *)
(* internal/inferexec/orchestrator.go, with the RAG stages of              *)
(* internal/server/infer_rag.go, the step writer of                        *)
(* internal/execution/steps.go and the fallback loop of                    *)
(* internal/reliability/manager.go.  Each request is a goroutine; requests *)
(* meet at the admission gate (AdmissionGate) and at the request ledger    *)
(* (LedgerStore).  The request's context may end at any point: its budget  *)
(* runs out (server.request_timeout_ms) or its client disconnects.         *)
(*                                                                         *)
(* What the policy, the health probes, the router, the knowledge base and  *)
(* the backends answer is a choice among everything they can answer.       *)
(***************************************************************************)
EXTENDS AdmissionGate, Sequences

CONSTANTS
  Backends,
  None,             \* an empty string or absent value
  SqlStore,         \* the ledger's driver is sqlite or postgres, not memory
  StoreFaults,      \* a write to it may fail under a live context too
  Kinds,            \* the request types that arrive
  Rules,            \* reliability.fallback_rules, in order
  FallbackEnabled,  \* reliability.fallback_enabled
  DeadlineErrors,   \* DeadlineErrors[b]: what b's adapter makes of a deadline
  Replies           \* Replies[b]: the errors b's adapter reports otherwise,
                    \* "timeout" among them when a connection is not made in time

(* An adapter reports a deadline as context.DeadlineExceeded itself         *)
(* ("raw_deadline", mock), as an upstream error of kind timeout that does   *)
(* not wrap it ("timeout": the HTTP adapters), or as a plain backend error  *)
(* (bedrock, a broken stream).                                              *)
ErrorKinds ==
  {"raw_deadline", "timeout", "upstream_4xx", "upstream_5xx", "backend_error"}

Triggers == {"timeout", "upstream_4xx", "upstream_5xx", "backend_error", "backend_unhealthy"}

(* The result names of the infer_request trace and of error.code; "invalid" *)
(* stands for the six rejections of a POST by Server.infer's validation.    *)
Code == [method_not_allowed |-> 405, invalid |-> 400, policy_rejected |-> 429, agent_not_implemented |-> 501,
         overload |-> 503, route_error |-> 500, gateway_timeout |-> 504,
         rag_not_configured |-> 400, retrieve_failed |-> 502, rerank_failed |-> 502,
         execution_failed |-> 502, success |-> 200]
Results == DOMAIN Code
Rejections == {"method_not_allowed", "invalid"}

(* Two causes are resolved only when the failure is reported. *)
Causes == Results \cup {"route_ctx", "call"}

VARIABLES
  pc,       \* the stage each request is in
  kind,     \* its request_type
  ctx,      \* its context: "live", "expired" (budget) or "canceled" (client)
  snap,     \* the backends healthy in the snapshot it was given
  primary,  \* the backend the router chose
  at,       \* fallback loop: 0 for the primary, j for the target of rule j
  err,      \* the last error of the fallback loop
  served,   \* the backend whose answer is returned
  ran,      \* the steps run so far, each with its status (OnStep's trace)
  lost,     \* requests of which some ledger write failed
  cause,    \* how the request ends
  late,     \* requests that failed because the budget had run out
  noted,    \* requests counted by noteTimeoutForScaling
  traces,   \* the infer_request traces emitted for each request
  reply,    \* the HTTP status answered, 0 before that
  rows,     \* the request ledger (LedgerStore)
  steps

INSTANCE LedgerStore

ledgerVars == <<rows, steps>>

ASSUME PipelineAssumption ==
  /\ LedgerConstants
  /\ Kinds \subseteq {"inference", "rag", "agent"}
  /\ Rules \in Seq([from : Backends, to : Backends, on : SUBSET Triggers])
  /\ FallbackEnabled \in BOOLEAN
  /\ DeadlineErrors \in
       [Backends -> (SUBSET {"raw_deadline", "timeout", "backend_error"}) \ {{}}]
  /\ Replies \in [Backends -> SUBSET {"timeout", "upstream_4xx", "upstream_5xx", "backend_error"}]
  /\ None \notin ErrorKinds \cup Causes

runVars == <<kind, ctx>>
routeVars == <<snap, primary>>
callVars == <<at, err, served>>
stepVars == <<ran, lost>>
endVars == <<cause, late, noted, traces, reply>>
vars == <<pc, runVars, routeVars, callVars, stepVars, endVars, gateVars, ledgerVars>>

Before == {"idle", "create", "normalize", "policy", "agent", "admit"}
Inside == {"admission", "health", "route", "routeStep", "snapshot", "rag",
           "rerank", "invoke", "callStep", "finalize", "mark", "release"}
Ending == {"fail", "emit", "reply", "done"}

Ran == [type : StepTypes, status : {"success", "failed"}]

PipelineTypeOK ==
  /\ GateTypeOK
  /\ LedgerTypeOK
  /\ pc \in [Requests -> Before \cup Inside \cup Ending]
  /\ kind \in [Requests -> {"inference", "rag", "agent"}]
  /\ ctx \in [Requests -> {"live", "expired", "canceled"}]
  /\ snap \in [Requests -> SUBSET Backends]
  /\ primary \in [Requests -> Backends \cup {None}]
  /\ at \in [Requests -> 0 .. Len(Rules)]
  /\ err \in [Requests -> ErrorKinds \cup {None}]
  /\ served \in [Requests -> Backends \cup {None}]
  /\ ran \in [Requests -> Seq(Ran)]
  /\ lost \subseteq Requests
  /\ cause \in [Requests -> Causes \cup {None}]
  /\ late \subseteq Requests
  /\ noted \subseteq Requests
  /\ traces \in [Requests -> Seq(Results)]
  /\ reply \in [Requests -> Nat]

Init ==
  /\ GateInit
  /\ LedgerInit
  /\ pc = [r \in Requests |-> "idle"]
  /\ kind = [r \in Requests |-> "inference"]
  /\ ctx = [r \in Requests |-> "live"]
  /\ snap = [r \in Requests |-> {}]
  /\ primary = [r \in Requests |-> None]
  /\ at = [r \in Requests |-> 0]
  /\ err = [r \in Requests |-> None]
  /\ served = [r \in Requests |-> None]
  /\ ran = [r \in Requests |-> <<>>]
  /\ lost = {}
  /\ cause = [r \in Requests |-> None]
  /\ late = {}
  /\ noted = {}
  /\ traces = [r \in Requests |-> <<>>]
  /\ reply = [r \in Requests |-> 0]

-----------------------------------------------------------------------------
(* Building blocks. *)

Live(r) == ctx[r] = "live"
Expired(r) == ctx[r] = "expired"

At(r, here, there) == pc[r] = here /\ pc' = [pc EXCEPT ![r] = there]

(* One ledger write of request r under its context, with result ok. *)
Writes(r, ok) ==
  /\ ok \in WriteResults(Live(r))
  /\ lost' = IF ok THEN lost ELSE lost \cup {r}

(* StepWriter.next counts the steps run, not the steps written. *)
StepIndexOfWritten(r) == Len(steps[r])
StepIndexBelow(r) == Len(ran[r]) - 1
StepIndex(r) == Len(ran[r])

RunStep(r, type, status) ==
  \E ok \in BOOLEAN :
    /\ Writes(r, ok)
    /\ AppendStep(r, [index |-> StepIndex(r), type |-> type, status |-> status], ok)
    /\ ran' = [ran EXCEPT ![r] = Append(@, [type |-> type, status |-> status])]

(* The handler gives up, for a reason that Report resolves. *)
Fails(r, why) == cause' = [cause EXCEPT ![r] = why]

(* The rows that UpdatePolicy, failLedger and markLedgerSuccess leave; a    *)
(* patch of a failure never names a backend.                                *)
RoutedRow(r) == [rows[r] EXCEPT !.selected = primary[r], !.snapshot = primary[r]]
FailedRow(r) == [rows[r] EXCEPT !.status = "failed"]
SuccessRowOfPrimary(r) == [rows[r] EXCEPT !.status = "success", !.selected = primary[r]]
SuccessRow(r) == [rows[r] EXCEPT !.status = "success", !.selected = served[r]]

(* buildFallback: the rules of the primary whose target the snapshot calls  *)
(* healthy.  Candidate 0 is the primary itself.                             *)
Candidates(r) ==
  {0} \cup {j \in DOMAIN Rules : Rules[j].from = primary[r] /\ Rules[j].to \in snap[r]}

Target(r, j) == IF j = 0 THEN primary[r] ELSE Rules[j].to

Remaining(r) == {j \in Candidates(r) : j > at[r]}

(* classifyError and shouldFallback: any rule of the backend that failed    *)
(* counts, whatever its target.                                             *)
Trigger(e) == IF e = "raw_deadline" THEN "timeout" ELSE e

ShouldFallback(b, e) ==
  /\ FallbackEnabled
  /\ \E j \in DOMAIN Rules : Rules[j].from = b /\ Trigger(e) \in Rules[j].on

(* What a call of backend b may report, given how r's context stands: its   *)
(* own timeout_ms may fire while the request's context still runs.          *)
Errors(r, b) ==
  CASE ctx[r] = "live" -> Replies[b] \cup DeadlineErrors[b]
    [] ctx[r] = "expired" -> DeadlineErrors[b]
    [] ctx[r] = "canceled" -> {"backend_error"}

(* noteTimeoutForScaling. *)
Counts(e) == e \in {"raw_deadline", "timeout"}

(* InferBudgetHTTPStatus and the result each failure is reported with.  The *)
(* context is read only now, after the ledger was told.                     *)
DeadlineSeen(r) ==
  \/ cause[r] = "route_ctx"
  \/ cause[r] = "call" /\ err[r] = "raw_deadline"
(* What each unresolved cause is reported as when it is no 504. *)
Plainly == [route_ctx |-> "route_error", call |-> "execution_failed"]

VerdictOfError(r) ==
  IF DeadlineSeen(r) THEN "gateway_timeout"
  ELSE IF cause[r] \in DOMAIN Plainly THEN Plainly[cause[r]] ELSE cause[r]
Verdict(r) ==
  IF DeadlineSeen(r) /\ Expired(r) THEN "gateway_timeout"
  ELSE IF cause[r] \in DOMAIN Plainly THEN Plainly[cause[r]] ELSE cause[r]

-----------------------------------------------------------------------------
(* Before the gate. *)

(* Server.infer's own checks, of the method and then of the body: traced    *)
(* and answered, nothing recorded.                                          *)
Invalid(r) ==
  /\ At(r, "idle", "done")
  /\ \E why \in Rejections :
       /\ traces' = [traces EXCEPT ![r] = Append(@, why)]
       /\ reply' = [reply EXCEPT ![r] = Code[why]]
  /\ UNCHANGED <<runVars, routeVars, callVars, stepVars, cause, late, noted,
                 gateVars, ledgerVars>>

Arrive(r) ==
  /\ At(r, "idle", "create")
  /\ \E k \in Kinds : kind' = [kind EXCEPT ![r] = k]
  /\ UNCHANGED <<ctx, routeVars, callVars, stepVars, endVars, gateVars, ledgerVars>>

CreateRow(r) ==
  /\ At(r, "create", "normalize")
  /\ \E ok \in BOOLEAN : Writes(r, ok) /\ CreateRequest(r, ok)
  /\ UNCHANGED <<runVars, routeVars, callVars, ran, endVars, gateVars>>

Normalize(r) ==
  /\ At(r, "normalize", "policy")
  /\ RunStep(r, "normalize", "success")
  /\ UNCHANGED <<runVars, routeVars, callVars, endVars, gateVars>>

(* Policy.Evaluate never errs (internal/policy/basic_engine.go), so the     *)
(* error branch behind it is never taken.                                   *)
PolicyAllow(r) ==
  /\ At(r, "policy", IF kind[r] = "agent" THEN "agent" ELSE "admit")
  /\ RunStep(r, "policy_check", "success")
  /\ UNCHANGED <<runVars, routeVars, callVars, endVars, gateVars>>

PolicyRejectGoesOn(r) ==
  /\ At(r, "policy", "admit")
  /\ RunStep(r, "policy_check", "failed")
  /\ UNCHANGED <<runVars, routeVars, callVars, endVars, gateVars>>
PolicyReject(r) ==
  /\ At(r, "policy", "fail")
  /\ RunStep(r, "policy_check", "failed")
  /\ Fails(r, "policy_rejected")
  /\ UNCHANGED <<runVars, routeVars, callVars, late, noted, traces, reply, gateVars>>

AgentStub(r) ==
  /\ At(r, "agent", "fail")
  /\ RunStep(r, "agent_stub", "failed")
  /\ Fails(r, "agent_not_implemented")
  /\ UNCHANGED <<runVars, routeVars, callVars, late, noted, traces, reply, gateVars>>

(* beginInferLoad: a slot, or a failure that is recorded. *)
PassGateUnrecorded(r) ==
  /\ IF setting.reject /\ Full
     THEN At(r, "admit", "emit") /\ Refuse(r) /\ Fails(r, "overload")
     ELSE At(r, "admit", "admission") /\ Admit(r) /\ UNCHANGED cause
  /\ UNCHANGED <<runVars, routeVars, callVars, stepVars, late, noted, traces, reply,
                 ledgerVars>>
PassGate(r) ==
  /\ IF setting.reject /\ Full
     THEN At(r, "admit", "fail") /\ Refuse(r) /\ Fails(r, "overload")
     ELSE At(r, "admit", "admission") /\ Admit(r) /\ UNCHANGED cause
  /\ UNCHANGED <<runVars, routeVars, callVars, stepVars, late, noted, traces, reply,
                 ledgerVars>>

-----------------------------------------------------------------------------
(* Behind the gate: admission, health, route, RAG. *)

AdmissionStep(r) ==
  /\ At(r, "admission", "health")
  /\ RunStep(r, "admission", "success")
  /\ UNCHANGED <<runVars, routeVars, callVars, endVars, gateVars>>

(* cachedBackendHealth ignores the request's context. *)
ReadHealth(r) ==
  /\ At(r, "health", "route")
  /\ \E healthy \in SUBSET Backends : snap' = [snap EXCEPT ![r] = healthy]
  /\ UNCHANGED <<runVars, primary, callVars, stepVars, endVars, gateVars, ledgerVars>>

(* SelectRoute answers a backend its snapshot calls healthy, if there is one. *)
RouteOk(r) ==
  /\ At(r, "route", "routeStep")
  /\ Live(r)
  /\ \E b \in snap[r] : primary' = [primary EXCEPT ![r] = b]
  /\ UNCHANGED <<runVars, snap, callVars, stepVars, endVars, gateVars, ledgerVars>>

RouteNone(r) ==
  /\ At(r, "route", "fail")
  /\ Live(r) /\ snap[r] = {}
  /\ Fails(r, "route_error")
  /\ UNCHANGED <<runVars, routeVars, callVars, stepVars, late, noted, traces, reply,
                 gateVars, ledgerVars>>

(* SelectRoute refuses a context that has ended. *)
RouteDead(r) ==
  /\ At(r, "route", "fail")
  /\ ~Live(r)
  /\ Fails(r, "route_ctx")
  /\ late' = IF Expired(r) THEN late \cup {r} ELSE late
  /\ UNCHANGED <<runVars, routeVars, callVars, stepVars, noted, traces, reply,
                 gateVars, ledgerVars>>

RouteStep(r) ==
  /\ At(r, "routeStep", "snapshot")
  /\ RunStep(r, "route", "success")
  /\ UNCHANGED <<runVars, routeVars, callVars, endVars, gateVars>>

(* Ledger.UpdatePolicy: the row names the primary before it is called. *)
SavePolicy(r) ==
  /\ At(r, "snapshot", IF kind[r] = "rag" THEN "rag" ELSE "invoke")
  /\ \E ok \in BOOLEAN :
       /\ Writes(r, ok)
       /\ UpdateRequest(r, RoutedRow(r), ok)
  /\ UNCHANGED <<runVars, routeVars, callVars, ran, endVars, gateVars>>

(* No knowledge base, an unknown one, or no query: before any step. *)
RagUnconfigured(r) ==
  /\ At(r, "rag", "fail")
  /\ Fails(r, "rag_not_configured")
  /\ UNCHANGED <<runVars, routeVars, callVars, stepVars, late, noted, traces, reply,
                 gateVars, ledgerVars>>

(* A stage of the RAG pipeline.  Not every adapter looks at the context, so *)
(* a stage may succeed under one that has ended.                            *)
StageOk(r, here, there, type) ==
  /\ At(r, here, there)
  /\ RunStep(r, type, "success")
  /\ UNCHANGED <<runVars, routeVars, callVars, endVars, gateVars>>

StageFails(r, here, type, why) ==
  /\ At(r, here, "fail")
  /\ RunStep(r, type, "failed")
  /\ Fails(r, why)
  /\ \E deadline \in {d \in BOOLEAN : d => Expired(r)} :
       late' = IF deadline THEN late \cup {r} ELSE late
  /\ UNCHANGED <<runVars, routeVars, callVars, noted, traces, reply, gateVars>>

Retrieve(r) ==
  \/ StageOk(r, "rag", "rerank", "retrieve")
  \/ StageFails(r, "rag", "retrieve", "retrieve_failed")

Rerank(r) ==
  \/ StageOk(r, "rerank", "invoke", "rerank")
  \/ StageFails(r, "rerank", "rerank", "rerank_failed")

-----------------------------------------------------------------------------
(* The backend call: ExecuteWithFallback, one attempt per action, then the  *)
(* backend_call step around all of them.                                    *)

InvokeOk(r) ==
  /\ At(r, "invoke", "callStep")
  /\ Live(r)
  /\ served' = [served EXCEPT ![r] = Target(r, at[r])]
  /\ err' = [err EXCEPT ![r] = None]
  /\ UNCHANGED <<runVars, routeVars, at, stepVars, endVars, gateVars, ledgerVars>>

(* The attempt fails with e and the next candidate is tried. *)
FallBack(r) ==
  /\ pc[r] = "invoke"
  /\ \E e \in Errors(r, Target(r, at[r])), j \in Remaining(r) :
       /\ ShouldFallback(Target(r, at[r]), e)
       /\ \A i \in Remaining(r) : j <= i
       /\ err' = [err EXCEPT ![r] = e]
       /\ at' = [at EXCEPT ![r] = j]
  /\ UNCHANGED <<pc, runVars, routeVars, served, stepVars, endVars, gateVars, ledgerVars>>

(* The attempt fails and the loop ends with its error. *)
GiveUpUntriggered(r) ==
  /\ At(r, "invoke", "callStep")
  /\ \E e \in Errors(r, Target(r, at[r])) :
       /\ ~ShouldFallback(Target(r, at[r]), e)
       /\ err' = [err EXCEPT ![r] = e]
       /\ late' = IF Expired(r) THEN late \cup {r} ELSE late
  /\ UNCHANGED <<runVars, routeVars, at, served, stepVars, cause, noted, traces, reply,
                 gateVars, ledgerVars>>
GiveUp(r) ==
  /\ At(r, "invoke", "callStep")
  /\ \E e \in Errors(r, Target(r, at[r])) :
       /\ ShouldFallback(Target(r, at[r]), e) => Remaining(r) = {}
       /\ err' = [err EXCEPT ![r] = e]
       /\ late' = IF Expired(r) THEN late \cup {r} ELSE late
  /\ UNCHANGED <<runVars, routeVars, at, served, stepVars, cause, noted, traces, reply,
                 gateVars, ledgerVars>>

CallReturns(r) ==
  /\ At(r, "callStep", "finalize")
  /\ err[r] = None
  /\ RunStep(r, "backend_call", "success")
  /\ UNCHANGED <<runVars, routeVars, callVars, endVars, gateVars>>

(* The step, then NoteTimeout. *)
CallFails(r) ==
  /\ At(r, "callStep", "fail")
  /\ err[r] # None
  /\ RunStep(r, "backend_call", "failed")
  /\ Fails(r, "call")
  /\ noted' = IF Counts(err[r]) THEN noted \cup {r} ELSE noted
  /\ UNCHANGED <<runVars, routeVars, callVars, late, traces, reply, gateVars>>

-----------------------------------------------------------------------------
(* How it ends. *)

(* failLedger, under the same context the request failed with. *)
FailRowGoesOn(r) ==
  /\ At(r, "fail", IF cause[r] = "retrieve_failed" THEN "rerank" ELSE "emit")
  /\ \E ok \in BOOLEAN : Writes(r, ok) /\ UpdateRequest(r, FailedRow(r), ok)
  /\ UNCHANGED <<runVars, routeVars, callVars, ran, endVars, gateVars>>
FailRow(r) ==
  /\ At(r, "fail", "emit")
  /\ \E ok \in BOOLEAN : Writes(r, ok) /\ UpdateRequest(r, FailedRow(r), ok)
  /\ UNCHANGED <<runVars, routeVars, callVars, ran, endVars, gateVars>>

(* InferBudgetHTTPStatus reads the context; the trace is emitted; Run       *)
(* returns its failure.                                                     *)
Report(r) ==
  /\ At(r, "emit", IF r \in holders THEN "release" ELSE "reply")
  /\ Fails(r, Verdict(r))
  /\ noted' = IF cause[r] = "route_ctx" /\ Expired(r) THEN noted \cup {r} ELSE noted
  /\ traces' = [traces EXCEPT ![r] = Append(@, Verdict(r))]
  /\ UNCHANGED <<runVars, routeVars, callVars, stepVars, late, reply, gateVars, ledgerVars>>

Finalize(r) ==
  /\ At(r, "finalize", "mark")
  /\ RunStep(r, "finalize", "success")
  /\ UNCHANGED <<runVars, routeVars, callVars, endVars, gateVars>>

MarkSuccess(r) ==
  /\ At(r, "mark", "release")
  /\ \E ok \in BOOLEAN : Writes(r, ok) /\ UpdateRequest(r, SuccessRow(r), ok)
  /\ Fails(r, "success")
  /\ UNCHANGED <<runVars, routeVars, callVars, ran, late, noted, traces, reply, gateVars>>

(* The deferred release() of Run. *)
ReleaseSuccessOnly(r) ==
  /\ At(r, "release", "reply")
  /\ IF cause[r] = "success" THEN Leave(r) ELSE UNCHANGED gateVars
  /\ UNCHANGED <<runVars, routeVars, callVars, stepVars, endVars, ledgerVars>>
Release(r) ==
  /\ At(r, "release", "reply")
  /\ Leave(r)
  /\ UNCHANGED <<runVars, routeVars, callVars, stepVars, endVars, ledgerVars>>

(* writeError, or writeAIResponse, which traces the success itself. *)
AnswerTracesAll(r) ==
  /\ At(r, "reply", "done")
  /\ traces' = [traces EXCEPT ![r] = Append(@, cause[r])]
  /\ reply' = [reply EXCEPT ![r] = Code[cause[r]]]
  /\ UNCHANGED <<runVars, routeVars, callVars, stepVars, cause, late, noted, gateVars,
                 ledgerVars>>
Answer(r) ==
  /\ At(r, "reply", "done")
  /\ traces' = IF cause[r] = "success" THEN [traces EXCEPT ![r] = Append(@, "success")]
               ELSE traces
  /\ reply' = [reply EXCEPT ![r] = Code[cause[r]]]
  /\ UNCHANGED <<runVars, routeVars, callVars, stepVars, cause, late, noted, gateVars,
                 ledgerVars>>

(* The context of a request under way ends: its budget or its client. *)
ContextEnds(r) ==
  /\ pc[r] \notin {"idle", "release", "reply", "done"}
  /\ Live(r)
  /\ \E why \in {"expired", "canceled"} : ctx' = [ctx EXCEPT ![r] = why]
  /\ UNCHANGED <<pc, kind, routeVars, callVars, stepVars, endVars, gateVars, ledgerVars>>

Receive(r) == Invalid(r) \/ Arrive(r)

(* What the handler of an accepted request does. *)
Handle(r) ==
  \/ CreateRow(r) \/ Normalize(r)
  \/ PolicyAllow(r) \/ PolicyReject(r) \/ AgentStub(r) \/ PassGate(r)
  \/ AdmissionStep(r) \/ ReadHealth(r) \/ RouteOk(r) \/ RouteNone(r) \/ RouteDead(r)
  \/ RouteStep(r) \/ SavePolicy(r) \/ RagUnconfigured(r) \/ Retrieve(r) \/ Rerank(r)
  \/ InvokeOk(r) \/ FallBack(r) \/ GiveUp(r) \/ CallReturns(r) \/ CallFails(r)
  \/ FailRow(r) \/ Report(r) \/ Finalize(r) \/ MarkSuccess(r) \/ Release(r) \/ Answer(r)

Next == \E r \in Requests : Receive(r) \/ Handle(r) \/ ContextEnds(r)

(* A goroutine that can run does; nothing makes a request arrive or a       *)
(* context end.                                                             *)
Spec == Init /\ [][Next]_vars /\ \A r \in Requests : WF_vars(Handle(r))

-----------------------------------------------------------------------------
(* Properties. *)

Answered(r) == reply[r] # 0
Recorded(r) == Present(r) /\ r \notin lost

(* A row is written from one end of a request and answered from another:    *)
(* when no write was lost, the row and the HTTP answer tell the same story, *)
(* and the row of a success names the backend whose text was returned.      *)
RowTellsOutcome ==
  \A r \in Requests :
    /\ Answered(r) /\ Recorded(r) =>
         rows[r].status = IF reply[r] = 200 THEN "success" ELSE "failed"
    /\ rows[r].status = "success" =>
         /\ rows[r].selected = served[r]
         /\ reply[r] \in {0, 200}
    /\ rows[r].status = "failed" => reply[r] # 200

(* Failures are traced inside Run and successes in writeAIResponse: every   *)
(* answered request leaves exactly one infer_request trace, of the result   *)
(* the client was told.                                                     *)
OneVerdict ==
  \A r \in Requests :
    Answered(r) => Len(traces[r]) = 1 /\ Code[traces[r][1]] = reply[r]

(* internal/inferexec/plan.go states the phases of each request type; Run   *)
(* executes its own hard-coded order and ignores the plan.  The steps run   *)
(* are a prefix of the plan, only the last may have failed, and a 200 ran   *)
(* the whole of it.                                                         *)
ExecutionPlan(k) ==
  CASE k = "agent" -> <<"normalize", "policy_check", "agent_stub">>
    [] k = "rag" -> <<"normalize", "policy_check", "admission", "route", "retrieve",
                      "rerank", "backend_call", "finalize">>
    [] k = "inference" -> <<"normalize", "policy_check", "admission", "route",
                            "backend_call", "finalize">>
StepsFollowPlan ==
  \A r \in Requests :
    /\ Len(ran[r]) <= Len(ExecutionPlan(kind[r]))
    /\ \A i \in DOMAIN ran[r] :
         /\ ran[r][i].type = ExecutionPlan(kind[r])[i]
         /\ ran[r][i].status = "failed" => i = Len(ran[r])
    /\ reply[r] = 200 => Len(ran[r]) = Len(ExecutionPlan(kind[r]))

(* The step rows of a request are the steps that ran, at their own indexes: *)
(* writes that are lost leave gaps but never shift, repeat or reorder a     *)
(* step, which is what `infercore trace` and replay read back.              *)
LedgerReplaysRun ==
  \A r \in Requests :
    /\ \A i \in DOMAIN steps[r] :
         /\ steps[r][i].index < Len(ran[r])
         /\ [type |-> steps[r][i].type, status |-> steps[r][i].status]
              = ran[r][steps[r][i].index + 1]
         /\ i > 1 => steps[r][i - 1].index < steps[r][i].index
    /\ Recorded(r) => Len(steps[r]) = Len(ran[r])

(* A slot of the gate is held exactly while a request is between its        *)
(* admission and the deferred release, on every way out of Run.             *)
SlotHeldInside ==
  \A r \in Requests :
    /\ pc[r] \in Inside => r \in holders
    /\ pc[r] \in Before \cup {"reply", "done"} => r \notin holders

(* "inference concurrency limit exceeded" is said only while queue_limit    *)
(* other requests really are between their admission and their release: no  *)
(* way out of Run leaks the slot that a later request would miss.           *)
Running(r) ==
  \/ pc[r] \in Inside
  \/ /\ pc[r] \in {"fail", "emit"}
     /\ cause[r] \notin {"policy_rejected", "agent_not_implemented", "overload"}
OverloadIsReal ==
  [][\A r \in Requests :
       pc[r] = "admit" /\ pc'[r] = "fail" =>
         Cardinality({q \in Requests \ {r} : Running(q)}) >= setting.limit]_vars

(* 504 means the request's own budget ran out, and such a timeout was       *)
(* counted for the scaling signal (InferBudgetHTTPStatus, NoteTimeout).     *)
Answer504Justified ==
  \A r \in Requests : reply[r] = 504 => Expired(r) /\ r \in noted

(* The handler writes the ledger from nine places under a context that may  *)
(* end between any two of them, and each write may fail on its own: a       *)
(* reader still sees a ledger that keeps the promises of RequestLedger.     *)
Ledger == INSTANCE RequestLedger
LedgerKept == Ledger!LedgerSpec

(* Every accepted request is answered, however its context fares. *)
EveryRequestAnswered ==
  \A r \in Requests : pc[r] = "create" ~> Answered(r)

-----------------------------------------------------------------------------
(* A statement of the documentation that the code does not keep.            *)

(* README.md:309 and docs/observability.md:15: when request_timeout_ms      *)
(* fires, in routing, retrieval, reranking or the backend call, the answer  *)
(* is 504 gateway_timeout.                                                  *)
BudgetAnswers504 ==
  \A r \in late : Answered(r) => reply[r] = 504
=============================================================================
