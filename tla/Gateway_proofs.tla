--------------------------- MODULE Gateway_proofs ---------------------------
(***************************************************************************)
(* Proofs about the gateway: the life of a request (InferPipeline), what   *)
(* the readers of the ledger get (Replay), and the life of the process     *)
(* (Gateway).  For any finite set of requests, any backends, fallback      *)
(* rules and error classes, either kind of ledger driver and any loss of   *)
(* writes, any number of starts and deaths.                                *)
(***************************************************************************)
EXTENDS Gateway, Replay, FiniteSetTheorems, SequenceTheorems, TLAPS

-----------------------------------------------------------------------------
(* Types. *)

(* A request moves from one stage of its handler to another, alone. *)
LEMMA AtMoves ==
  ASSUME pc \in [Requests -> Before \cup Inside \cup Ending],
         NEW r \in Requests, NEW here, NEW there \in Before \cup Inside \cup Ending,
         At(r, here, there)
  PROVE  /\ pc' \in [Requests -> Before \cup Inside \cup Ending]
         /\ pc[r] = here /\ pc'[r] = there
         /\ \A q \in Requests \ {r} : pc'[q] = pc[q]
BY DEF At

(* One ledger write keeps the ledger's types, whatever its result. *)
LEMMA RunStepTypes ==
  ASSUME LedgerTypeOK, ran \in [Requests -> Seq(Ran)], lost \subseteq Requests,
         NEW r \in Requests, NEW type \in StepTypes, NEW status \in {"success", "failed"},
         RunStep(r, type, status)
  PROVE  LedgerTypeOK' /\ ran' \in [Requests -> Seq(Ran)] /\ lost' \subseteq Requests
<1>1. StepIndex(r) \in Nat
  BY LenProperties DEF StepIndex
<1>2. [index |-> StepIndex(r), type |-> type, status |-> status] \in StepRow
  BY <1>1 DEF StepRow
<1>3. [type |-> type, status |-> status] \in Ran
  BY DEF Ran
<1>4. Append(ran[r], [type |-> type, status |-> status]) \in Seq(Ran)
  BY <1>3, AppendProperties
<1>5. Append(steps[r], [index |-> StepIndex(r), type |-> type, status |-> status])
        \in Seq(StepRow)
  BY <1>2, AppendProperties DEF LedgerTypeOK
<1>6. ran' \in [Requests -> Seq(Ran)]
  BY <1>4 DEF RunStep
<1>7. lost' \subseteq Requests
  BY DEF RunStep, Writes
<1>8. LedgerTypeOK'
  BY <1>5 DEF RunStep, AppendStep, LedgerTypeOK
<1> QED
  BY <1>6, <1>7, <1>8

(* A write of the row leaves a row, given the row it writes. *)
LEMMA RowWriteTypes ==
  ASSUME LedgerTypeOK, lost \subseteq Requests, NEW r \in Requests, NEW ok \in BOOLEAN,
         Writes(r, ok), NEW row \in Row, CreateRequest(r, ok) \/ UpdateRequest(r, row, ok)
  PROVE  LedgerTypeOK' /\ lost' \subseteq Requests
<1>1. lost' \subseteq Requests
  BY DEF Writes
<1>2. [NoRow EXCEPT !.status = "running"] \in Row
  BY DEF NoRow, Row
<1>3. rows' \in [Requests -> Row] /\ steps' = steps
  BY <1>2 DEF CreateRequest, UpdateRequest, LedgerTypeOK
<1> QED
  BY <1>1, <1>3 DEF LedgerTypeOK

(* The rows that the handler writes are rows of the ledger. *)
LEMMA RowsWritten ==
  ASSUME PipelineTypeOK, NEW r \in Requests
  PROVE  RoutedRow(r) \in Row /\ FailedRow(r) \in Row /\ SuccessRow(r) \in Row
<1>1. /\ rows[r] \in Row /\ primary[r] \in Backends \cup {None}
      /\ served[r] \in Backends \cup {None}
  BY DEF PipelineTypeOK, LedgerTypeOK
<1>2. RoutedRow(r) \in Row
  BY <1>1 DEF RoutedRow, Row
<1>3. FailedRow(r) \in Row /\ SuccessRow(r) \in Row
  BY <1>1 DEF FailedRow, SuccessRow, Row, Settled
<1> QED
  BY <1>2, <1>3

(* What a failure is reported as is a result of the trace once the two      *)
(* unresolved causes are told apart.                                        *)
LEMMA VerdictIsResult ==
  ASSUME PipelineTypeOK, NEW r \in Requests
  PROVE  /\ Verdict(r) \in Results \cup {None}
         /\ cause[r] # None => Verdict(r) \in Results
<1>1. cause[r] \in Results \cup {"route_ctx", "call", None}
  BY DEF PipelineTypeOK, Causes
<1>2. DOMAIN Plainly = {"route_ctx", "call"}
      /\ Plainly["route_ctx"] = "route_error" /\ Plainly["call"] = "execution_failed"
  BY DEF Plainly
<1>3. {"gateway_timeout", "route_error", "execution_failed"} \subseteq Results
  BY DEF Results, Code
<1> QED
  BY <1>1, <1>2, <1>3 DEF Verdict

-----------------------------------------------------------------------------
(* The inductive invariant: where each request stands, told by every piece  *)
(* of its state.                                                            *)

(* How far a request has come. *)
Working(r) == pc[r] \in (Before \cup Inside) \ {"release"}
Failing(r) == pc[r] \in {"fail", "emit"}
Over(r) == pc[r] \in {"release", "reply", "done"}

FailCauses == {"policy_rejected", "agent_not_implemented", "overload", "route_error",
               "route_ctx", "rag_not_configured", "retrieve_failed", "rerank_failed", "call"}
Outside == {"policy_rejected", "agent_not_implemented", "overload"}
Verdicts == Results \ Rejections

(* Why a request ends is known only once it fails, and is resolved by       *)
(* Report; until then nothing is traced, and nothing is answered before the *)
(* last step.                                                               *)
CauseInv(r) ==
  /\ Working(r) => cause[r] = None
  /\ Failing(r) => cause[r] \in FailCauses
  /\ pc[r] \in {"release", "reply"} => cause[r] \in Verdicts
  /\ pc[r] = "done" => cause[r] \in Verdicts \cup {None}

(* A request rejected before Run has no cause; its trace tells why.         *)
Outcome(r) ==
  IF cause[r] # None THEN cause[r]
  ELSE IF traces[r] = <<"invalid">> THEN "invalid" ELSE "method_not_allowed"

AnswerInv(r) ==
  /\ reply[r] = IF pc[r] = "done" THEN Code[Outcome(r)] ELSE 0
  /\ traces[r] = IF pc[r] = "done" \/ (Over(r) /\ cause[r] # "success")
                 THEN <<Outcome(r)>> ELSE <<>>

SlotInv(r) ==
  r \in holders <=> pc[r] \in Inside \/ (Failing(r) /\ cause[r] \notin Outside)

(* The number of steps a request has run when it gets to a stage. *)
StepsAt(p, k) ==
  CASE p \in {"idle", "create", "normalize"} -> 0
    [] p = "policy" -> 1
    [] p \in {"agent", "admit", "admission"} -> 2
    [] p \in {"health", "route", "routeStep"} -> 3
    [] p \in {"snapshot", "rag"} -> 4
    [] p = "rerank" -> 5
    [] p \in {"invoke", "callStep"} -> IF k = "rag" THEN 6 ELSE 4
    [] p = "finalize" -> IF k = "rag" THEN 7 ELSE 5
    [] p = "mark" -> IF k = "rag" THEN 8 ELSE 6
    [] OTHER -> 0

KindInv(r) ==
  /\ pc[r] = "agent" => kind[r] = "agent"
  /\ pc[r] \in {"admit"} \cup Inside \/ r \in holders => kind[r] # "agent"
  /\ pc[r] \in {"rag", "rerank"} => kind[r] = "rag"

PlanInv(r) ==
  /\ Len(ran[r]) <= Len(ExecutionPlan(kind[r]))
  /\ \A i \in 1 .. Len(ran[r]) :
       /\ ran[r][i].type = ExecutionPlan(kind[r])[i]
       /\ ran[r][i].status = "failed" => i = Len(ran[r])
  /\ Working(r) =>
       /\ Len(ran[r]) = StepsAt(pc[r], kind[r])
       /\ \A i \in 1 .. Len(ran[r]) : ran[r][i].status = "success"
  /\ Over(r) /\ cause[r] = "success" => Len(ran[r]) = Len(ExecutionPlan(kind[r]))
  /\ pc[r] = "done" /\ cause[r] = None => Len(ran[r]) = 0

LogInv(r) ==
  /\ \A i \in 1 .. Len(steps[r]) :
       /\ steps[r][i].index < Len(ran[r])
       /\ [type |-> steps[r][i].type, status |-> steps[r][i].status]
            = ran[r][steps[r][i].index + 1]
       /\ i > 1 => steps[r][i - 1].index < steps[r][i].index
  /\ Recorded(r) => Len(steps[r]) = Len(ran[r])

RowInv(r) ==
  /\ pc[r] \in {"idle", "create"} => rows[r] = NoRow /\ Len(steps[r]) = 0
  /\ rows[r].status = "success" => Over(r) /\ cause[r] = "success"
  /\ rows[r].status = "failed" =>
       \/ pc[r] = "emit"
       \/ Over(r) /\ cause[r] \notin {"success", None}
  /\ Recorded(r) =>
       /\ pc[r] = "emit" => rows[r].status = "failed"
       /\ Over(r) => rows[r].status = IF cause[r] = "success" THEN "success" ELSE "failed"
       /\ pc[r] = "done" => cause[r] # None

(* UpdatePolicy has been called. *)
Saved(r) == Len(ran[r]) >= 4 /\ pc[r] # "snapshot"

RouteInv(r) ==
  /\ primary[r] # None <=> pc[r] = "routeStep" \/ Len(ran[r]) >= 4
  /\ rows[r].snapshot \in {None, primary[r]}
  /\ ~Saved(r) => rows[r].snapshot = None /\ rows[r].selected = None
  /\ rows[r].status # "success" => rows[r].selected \in {None, primary[r]}
  /\ rows[r].status = "success" => rows[r].selected = served[r]
  /\ Recorded(r) /\ Saved(r) => rows[r].snapshot = primary[r]
  /\ Recorded(r) /\ Saved(r) /\ rows[r].status # "success" => rows[r].selected = primary[r]
  /\ pc[r] = "callStep" /\ err[r] = None => served[r] # None
  /\ pc[r] \in {"finalize", "mark"} => served[r] # None
  /\ Over(r) /\ cause[r] = "success" => served[r] # None

DeadlineInv(r) ==
  /\ Failing(r) /\ cause[r] = "call" => err[r] # None
  /\ Failing(r) /\ cause[r] = "call" /\ err[r] = "raw_deadline" => r \in noted
  /\ cause[r] = "gateway_timeout" => Expired(r) /\ r \in noted

LocalInv(r) ==
  /\ CauseInv(r) /\ AnswerInv(r) /\ SlotInv(r) /\ KindInv(r) /\ PlanInv(r)
  /\ LogInv(r) /\ RowInv(r) /\ RouteInv(r) /\ DeadlineInv(r)

IInv == PipelineTypeOK /\ \A r \in Requests : LocalInv(r)

-----------------------------------------------------------------------------
(* A step of one request touches nothing of another. *)

Same(r) ==
  /\ pc'[r] = pc[r] /\ kind'[r] = kind[r] /\ ctx'[r] = ctx[r]
  /\ primary'[r] = primary[r] /\ err'[r] = err[r] /\ served'[r] = served[r]
  /\ ran'[r] = ran[r] /\ cause'[r] = cause[r] /\ traces'[r] = traces[r]
  /\ reply'[r] = reply[r] /\ rows'[r] = rows[r] /\ steps'[r] = steps[r]
  /\ (r \in lost') = (r \in lost)
  /\ (r \in noted') = (r \in noted)
  /\ (r \in holders') = (r \in holders)

(* The requests are goroutines of their own: what they share is the gate    *)
(* and the ledger, of which each owns its slot, its row and its steps.      *)
LEMMA OthersUnchanged ==
  ASSUME PipelineTypeOK, NEW q \in Requests, NEW r \in Requests, q # r,
         Receive(q) \/ Handle(q) \/ ContextEnds(q)
  PROVE  Same(r)
<1> USE DEF PipelineTypeOK, GateTypeOK, LedgerTypeOK, Same, gateVars, ledgerVars, runVars,
            routeVars, callVars, stepVars, endVars
<1>1. ASSUME Invalid(q) PROVE Same(r)
  BY <1>1 DEF Invalid, At
<1>2. ASSUME Arrive(q) PROVE Same(r)
  BY <1>2 DEF Arrive, At
<1>3. ASSUME CreateRow(q) PROVE Same(r)
  BY <1>3 DEF CreateRow, At, Writes, CreateRequest
<1>4. ASSUME Normalize(q) PROVE Same(r)
  BY <1>4 DEF Normalize, At, RunStep, Writes, AppendStep
<1>5. ASSUME PolicyAllow(q) PROVE Same(r)
  BY <1>5 DEF PolicyAllow, At, RunStep, Writes, AppendStep
<1>6. ASSUME PolicyReject(q) PROVE Same(r)
  BY <1>6 DEF PolicyReject, At, Fails, RunStep, Writes, AppendStep
<1>7. ASSUME AgentStub(q) PROVE Same(r)
  BY <1>7 DEF AgentStub, At, Fails, RunStep, Writes, AppendStep
<1>8. ASSUME PassGate(q) PROVE Same(r)
  BY <1>8 DEF PassGate, At, Fails, Refuse, Admit
<1>9. ASSUME AdmissionStep(q) PROVE Same(r)
  BY <1>9 DEF AdmissionStep, At, RunStep, Writes, AppendStep
<1>10. ASSUME ReadHealth(q) PROVE Same(r)
  BY <1>10 DEF ReadHealth, At
<1>11. ASSUME RouteOk(q) PROVE Same(r)
  BY <1>11 DEF RouteOk, At
<1>12. ASSUME RouteNone(q) PROVE Same(r)
  BY <1>12 DEF RouteNone, At, Fails
<1>13. ASSUME RouteDead(q) PROVE Same(r)
  BY <1>13 DEF RouteDead, At, Fails
<1>14. ASSUME RouteStep(q) PROVE Same(r)
  BY <1>14 DEF RouteStep, At, RunStep, Writes, AppendStep
<1>15. ASSUME SavePolicy(q) PROVE Same(r)
  BY <1>15 DEF SavePolicy, At, Writes, UpdateRequest
<1>16. ASSUME RagUnconfigured(q) PROVE Same(r)
  BY <1>16 DEF RagUnconfigured, At, Fails
<1>17. ASSUME Retrieve(q) PROVE Same(r)
  BY <1>17 DEF Retrieve, StageOk, StageFails, At, Fails, RunStep, Writes, AppendStep
<1>18. ASSUME Rerank(q) PROVE Same(r)
  BY <1>18 DEF Rerank, StageOk, StageFails, At, Fails, RunStep, Writes, AppendStep
<1>19. ASSUME InvokeOk(q) PROVE Same(r)
  BY <1>19 DEF InvokeOk, At
<1>20. ASSUME FallBack(q) PROVE Same(r)
  BY <1>20 DEF FallBack
<1>21. ASSUME GiveUp(q) PROVE Same(r)
  BY <1>21 DEF GiveUp, At
<1>22. ASSUME CallReturns(q) PROVE Same(r)
  BY <1>22 DEF CallReturns, At, RunStep, Writes, AppendStep
<1>23. ASSUME CallFails(q) PROVE Same(r)
  BY <1>23 DEF CallFails, At, Fails, RunStep, Writes, AppendStep
<1>24. ASSUME FailRow(q) PROVE Same(r)
  BY <1>24 DEF FailRow, At, Writes, UpdateRequest
<1>25. ASSUME Report(q) PROVE Same(r)
  BY <1>25 DEF Report, At, Fails
<1>26. ASSUME Finalize(q) PROVE Same(r)
  BY <1>26 DEF Finalize, At, RunStep, Writes, AppendStep
<1>27. ASSUME MarkSuccess(q) PROVE Same(r)
  BY <1>27 DEF MarkSuccess, At, Fails, Writes, UpdateRequest
<1>28. ASSUME Release(q) PROVE Same(r)
  BY <1>28 DEF Release, At, Leave
<1>29. ASSUME Answer(q) PROVE Same(r)
  BY <1>29 DEF Answer, At
<1>30. ASSUME ContextEnds(q) PROVE Same(r)
  BY <1>30 DEF ContextEnds
<1> QED
  BY <1>1, <1>2, <1>3, <1>4, <1>5, <1>6, <1>7, <1>8, <1>9, <1>10, <1>11, <1>12, <1>13,
     <1>14, <1>15, <1>16, <1>17, <1>18, <1>19, <1>20, <1>21, <1>22, <1>23, <1>24, <1>25,
     <1>26, <1>27, <1>28, <1>29, <1>30 DEF Receive, Handle

(* Each part of the invariant speaks of one request alone.                  *)
LEMMA LocalInvKept ==
  ASSUME NEW r \in Requests, LocalInv(r), Same(r)
  PROVE  LocalInv(r)'
<1>1. CauseInv(r)' /\ KindInv(r)' /\ AnswerInv(r)'
  BY DEF LocalInv, Same, CauseInv, KindInv, AnswerInv, Outcome, Working, Failing, Over
<1>2. SlotInv(r)' /\ DeadlineInv(r)'
  BY DEF LocalInv, Same, SlotInv, DeadlineInv, Failing, Expired
<1>3. PlanInv(r)' /\ LogInv(r)'
  BY DEF LocalInv, Same, PlanInv, LogInv, Recorded, Present, Working, Over
<1>4. RowInv(r)' /\ RouteInv(r)'
  BY DEF LocalInv, Same, RowInv, RouteInv, Recorded, Present, Saved, Over
<1> QED
  BY <1>1, <1>2, <1>3, <1>4 DEF LocalInv

(* Every reason for a failure, and every result, is a cause; no name is     *)
(* empty.                                                                   *)
LEMMA NoneIsNoCause ==
  /\ FailCauses \subseteq Causes /\ Verdicts \subseteq Results /\ Results \subseteq Causes
  /\ None \notin Causes
BY PipelineAssumption DEF Causes, FailCauses, Verdicts, Results, Code

(* The stage of a request tells which steps it has run and that its backend *)
(* is chosen; a backend that is called is one of the configuration, and     *)
(* what it reports is an error of the adapters.                             *)
LEMMA CalledBackend ==
  ASSUME PipelineTypeOK, NEW r \in Requests, PlanInv(r), RouteInv(r), pc[r] = "invoke"
  PROVE  /\ Target(r, at[r]) \in Backends
         /\ Errors(r, Target(r, at[r])) \subseteq ErrorKinds
<1>1. Len(ran[r]) = IF kind[r] = "rag" THEN 6 ELSE 4
  BY DEF PlanInv, Working, StepsAt, Before, Inside
<1>2. primary[r] \in Backends
  BY <1>1 DEF RouteInv, PipelineTypeOK
<1>3. \A j \in DOMAIN Rules : Rules[j].to \in Backends
  <2>1. DOMAIN Rules = 1 .. Len(Rules)
        /\ \A j \in 1 .. Len(Rules) :
              Rules[j] \in [from : Backends, to : Backends, on : SUBSET Triggers]
    BY PipelineAssumption, LenProperties, ElementOfSeq
  <2> QED
    BY <2>1
<1>4. at[r] \in 0 .. Len(Rules) /\ DOMAIN Rules = 1 .. Len(Rules)
  BY PipelineAssumption, LenProperties DEF PipelineTypeOK
<1>5. Target(r, at[r]) \in Backends
  BY <1>2, <1>3, <1>4 DEF Target
<1>6. ctx[r] \in {"live", "expired", "canceled"}
  BY DEF PipelineTypeOK
<1>7. ASSUME NEW b \in Backends PROVE Errors(r, b) \subseteq ErrorKinds
  <2>1. Replies[b] \subseteq ErrorKinds /\ DeadlineErrors[b] \subseteq ErrorKinds
    BY <1>7, PipelineAssumption DEF ErrorKinds
  <2> QED
    BY <1>6, <2>1 DEF Errors, ErrorKinds
<1> QED
  BY <1>5, <1>7

(* No step takes a variable out of its type; Report and Answer need to know *)
(* that a request which fails has a cause.                                  *)
LEMMA TypesStep ==
  ASSUME PipelineTypeOK, NEW r \in Requests, LocalInv(r),
         Receive(r) \/ Handle(r) \/ ContextEnds(r)
  PROVE  PipelineTypeOK'
<1> USE DEF gateVars, ledgerVars, runVars, routeVars, callVars, stepVars, endVars
<1>1. ASSUME Invalid(r) PROVE PipelineTypeOK'
  <2>0. PICK why \in Rejections : /\ traces' = [traces EXCEPT ![r] = Append(@, why)]
                                  /\ reply' = [reply EXCEPT ![r] = Code[why]]
    BY <1>1 DEF Invalid
  <2>1. why \in Results /\ Code[why] \in Nat
    BY DEF Rejections, Results, Code
  <2>2. Append(traces[r], why) \in Seq(Results)
    BY <2>1, AppendProperties DEF PipelineTypeOK
  <2> QED
    BY <1>1, <2>0, <2>1, <2>2 DEF Invalid, At, PipelineTypeOK, GateTypeOK, LedgerTypeOK, Before,
       Inside, Ending
<1>2. ASSUME Arrive(r) PROVE PipelineTypeOK'
  BY <1>2, PipelineAssumption DEF Arrive, At, PipelineTypeOK, GateTypeOK, LedgerTypeOK,
     Before, Inside, Ending
<1>3. ASSUME CreateRow(r) PROVE PipelineTypeOK'
  <2>1. LedgerTypeOK' /\ lost' \subseteq Requests
    BY <1>3, RowWriteTypes, RowsWritten DEF CreateRow, PipelineTypeOK
  <2> QED
    BY <1>3, <2>1 DEF CreateRow, At, PipelineTypeOK, GateTypeOK, Before, Inside, Ending
<1>4. ASSUME Normalize(r) PROVE PipelineTypeOK'
  <2>1. LedgerTypeOK' /\ ran' \in [Requests -> Seq(Ran)] /\ lost' \subseteq Requests
    BY <1>4, RunStepTypes DEF Normalize, StepTypes, PipelineTypeOK
  <2> QED
    BY <1>4, <2>1 DEF Normalize, At, PipelineTypeOK, GateTypeOK, Before, Inside, Ending
<1>5. ASSUME PolicyAllow(r) PROVE PipelineTypeOK'
  <2>1. LedgerTypeOK' /\ ran' \in [Requests -> Seq(Ran)] /\ lost' \subseteq Requests
    BY <1>5, RunStepTypes DEF PolicyAllow, StepTypes, PipelineTypeOK
  <2> QED
    BY <1>5, <2>1 DEF PolicyAllow, At, PipelineTypeOK, GateTypeOK, Before, Inside, Ending
<1>6. ASSUME PolicyReject(r) PROVE PipelineTypeOK'
  <2>1. LedgerTypeOK' /\ ran' \in [Requests -> Seq(Ran)] /\ lost' \subseteq Requests
    BY <1>6, RunStepTypes DEF PolicyReject, StepTypes, PipelineTypeOK
  <2> QED
    BY <1>6, <2>1 DEF PolicyReject, At, Fails, PipelineTypeOK, GateTypeOK, Before, Inside,
       Ending, Causes, Results, Code
<1>7. ASSUME AgentStub(r) PROVE PipelineTypeOK'
  <2>1. LedgerTypeOK' /\ ran' \in [Requests -> Seq(Ran)] /\ lost' \subseteq Requests
    BY <1>7, RunStepTypes DEF AgentStub, StepTypes, PipelineTypeOK
  <2> QED
    BY <1>7, <2>1 DEF AgentStub, At, Fails, PipelineTypeOK, GateTypeOK, Before, Inside,
       Ending, Causes, Results, Code
<1>8. ASSUME PassGate(r) PROVE PipelineTypeOK'
  <2>1. \/ At(r, "admit", "fail") /\ Refuse(r) /\ Fails(r, "overload")
        \/ At(r, "admit", "admission") /\ Admit(r) /\ UNCHANGED cause
    BY <1>8 DEF PassGate
  <2>2. /\ setting' = setting
        /\ holders' \subseteq Requests /\ shed' \subseteq Requests /\ refused' \subseteq Requests
    BY <2>1 DEF Refuse, Admit, PipelineTypeOK, GateTypeOK
  <2>3. pc' \in [Requests -> Before \cup Inside \cup Ending]
    BY <2>1 DEF At, PipelineTypeOK, Before, Inside, Ending
  <2>4. cause' \in [Requests -> Causes \cup {None}]
    BY <2>1, NoneIsNoCause DEF Fails, FailCauses, PipelineTypeOK
  <2> QED
    BY <1>8, <2>2, <2>3, <2>4 DEF PassGate, PipelineTypeOK, GateTypeOK, LedgerTypeOK
<1>9. ASSUME AdmissionStep(r) PROVE PipelineTypeOK'
  <2>1. LedgerTypeOK' /\ ran' \in [Requests -> Seq(Ran)] /\ lost' \subseteq Requests
    BY <1>9, RunStepTypes DEF AdmissionStep, StepTypes, PipelineTypeOK
  <2> QED
    BY <1>9, <2>1 DEF AdmissionStep, At, PipelineTypeOK, GateTypeOK, Before, Inside,
       Ending
<1>10. ASSUME ReadHealth(r) PROVE PipelineTypeOK'
  BY <1>10 DEF ReadHealth, At, PipelineTypeOK, GateTypeOK, LedgerTypeOK, Before, Inside,
     Ending
<1>11. ASSUME RouteOk(r) PROVE PipelineTypeOK'
  BY <1>11 DEF RouteOk, At, PipelineTypeOK, GateTypeOK, LedgerTypeOK, Before, Inside,
     Ending
<1>12. ASSUME RouteNone(r) PROVE PipelineTypeOK'
  BY <1>12 DEF RouteNone, At, Fails, PipelineTypeOK, GateTypeOK, LedgerTypeOK, Before,
     Inside, Ending, Causes, Results, Code
<1>13. ASSUME RouteDead(r) PROVE PipelineTypeOK'
  BY <1>13 DEF RouteDead, At, Fails, PipelineTypeOK, GateTypeOK, LedgerTypeOK, Before,
     Inside, Ending, Causes, Results, Code
<1>14. ASSUME RouteStep(r) PROVE PipelineTypeOK'
  <2>1. LedgerTypeOK' /\ ran' \in [Requests -> Seq(Ran)] /\ lost' \subseteq Requests
    BY <1>14, RunStepTypes DEF RouteStep, StepTypes, PipelineTypeOK
  <2> QED
    BY <1>14, <2>1 DEF RouteStep, At, PipelineTypeOK, GateTypeOK, Before, Inside, Ending
<1>15. ASSUME SavePolicy(r) PROVE PipelineTypeOK'
  <2>1. LedgerTypeOK' /\ lost' \subseteq Requests
    BY <1>15, RowWriteTypes, RowsWritten DEF SavePolicy, PipelineTypeOK
  <2> QED
    BY <1>15, <2>1 DEF SavePolicy, At, PipelineTypeOK, GateTypeOK, Before, Inside, Ending
<1>16. ASSUME RagUnconfigured(r) PROVE PipelineTypeOK'
  BY <1>16 DEF RagUnconfigured, At, Fails, PipelineTypeOK, GateTypeOK, LedgerTypeOK,
     Before, Inside, Ending, Causes, Results, Code
<1>17. ASSUME Retrieve(r) PROVE PipelineTypeOK'
  <2>1. LedgerTypeOK' /\ ran' \in [Requests -> Seq(Ran)] /\ lost' \subseteq Requests
    BY <1>17, RunStepTypes DEF Retrieve, StageOk, StageFails, StepTypes, PipelineTypeOK
  <2>2. CASE StageOk(r, "rag", "rerank", "retrieve")
    BY <2>1, <2>2 DEF StageOk, At, PipelineTypeOK, GateTypeOK, LedgerTypeOK, Before,
       Inside, Ending
  <2>3. CASE StageFails(r, "rag", "retrieve", "retrieve_failed")
    BY <2>1, <2>3 DEF StageFails, At, Fails, Causes, Results, Code, PipelineTypeOK,
       GateTypeOK, LedgerTypeOK, Before, Inside, Ending
  <2> QED
    BY <1>17, <2>2, <2>3 DEF Retrieve
<1>18. ASSUME Rerank(r) PROVE PipelineTypeOK'
  <2>1. LedgerTypeOK' /\ ran' \in [Requests -> Seq(Ran)] /\ lost' \subseteq Requests
    BY <1>18, RunStepTypes DEF Rerank, StageOk, StageFails, StepTypes, PipelineTypeOK
  <2>2. CASE StageOk(r, "rerank", "invoke", "rerank")
    BY <2>1, <2>2 DEF StageOk, At, PipelineTypeOK, GateTypeOK, LedgerTypeOK, Before,
       Inside, Ending
  <2>3. CASE StageFails(r, "rerank", "rerank", "rerank_failed")
    BY <2>1, <2>3 DEF StageFails, At, Fails, Causes, Results, Code, PipelineTypeOK,
       GateTypeOK, LedgerTypeOK, Before, Inside, Ending
  <2> QED
    BY <1>18, <2>2, <2>3 DEF Rerank
<1>19. ASSUME InvokeOk(r) PROVE PipelineTypeOK'
  <2>1. Target(r, at[r]) \in Backends
    BY <1>19, CalledBackend DEF InvokeOk, At, LocalInv
  <2> QED
    BY <1>19, <2>1 DEF InvokeOk, At, PipelineTypeOK, GateTypeOK, LedgerTypeOK, Before,
       Inside, Ending
<1>20. ASSUME FallBack(r) PROVE PipelineTypeOK'
  <2>1. Errors(r, Target(r, at[r])) \subseteq ErrorKinds
    BY <1>20, CalledBackend DEF FallBack, LocalInv
  <2>2. Remaining(r) \subseteq 0 .. Len(Rules)
    <3>1. DOMAIN Rules = 1 .. Len(Rules) /\ Len(Rules) \in Nat
      BY PipelineAssumption, LenProperties
    <3> QED
      BY <3>1 DEF Remaining, Candidates
  <2> QED
    BY <1>20, <2>1, <2>2 DEF FallBack, PipelineTypeOK, GateTypeOK, LedgerTypeOK, Before,
       Inside, Ending
<1>21. ASSUME GiveUp(r) PROVE PipelineTypeOK'
  <2>1. Errors(r, Target(r, at[r])) \subseteq ErrorKinds
    BY <1>21, CalledBackend DEF GiveUp, At, LocalInv
  <2> QED
    BY <1>21, <2>1 DEF GiveUp, At, PipelineTypeOK, GateTypeOK, LedgerTypeOK, Before,
       Inside, Ending
<1>22. ASSUME CallReturns(r) PROVE PipelineTypeOK'
  <2>1. LedgerTypeOK' /\ ran' \in [Requests -> Seq(Ran)] /\ lost' \subseteq Requests
    BY <1>22, RunStepTypes DEF CallReturns, StepTypes, PipelineTypeOK
  <2> QED
    BY <1>22, <2>1 DEF CallReturns, At, PipelineTypeOK, GateTypeOK, Before, Inside, Ending
<1>23. ASSUME CallFails(r) PROVE PipelineTypeOK'
  <2>1. LedgerTypeOK' /\ ran' \in [Requests -> Seq(Ran)] /\ lost' \subseteq Requests
    BY <1>23, RunStepTypes DEF CallFails, StepTypes, PipelineTypeOK
  <2> QED
    BY <1>23, <2>1 DEF CallFails, At, Fails, PipelineTypeOK, GateTypeOK, Before, Inside,
       Ending, Causes, Results, Code
<1>24. ASSUME FailRow(r) PROVE PipelineTypeOK'
  <2>1. LedgerTypeOK' /\ lost' \subseteq Requests
    BY <1>24, RowWriteTypes, RowsWritten DEF FailRow, PipelineTypeOK
  <2> QED
    BY <1>24, <2>1 DEF FailRow, At, PipelineTypeOK, GateTypeOK, Before, Inside, Ending
<1>25. ASSUME Report(r) PROVE PipelineTypeOK'
  <2>1. cause[r] # None
    BY <1>25, NoneIsNoCause DEF Report, At, LocalInv, CauseInv, Failing
  <2>2. Verdict(r) \in Results
    BY <2>1, VerdictIsResult
  <2>3. Append(traces[r], Verdict(r)) \in Seq(Results)
    BY <2>2, AppendProperties DEF PipelineTypeOK
  <2> QED
    BY <1>25, <2>2, <2>3 DEF Report, At, Fails, Causes, PipelineTypeOK, GateTypeOK,
       LedgerTypeOK, Before, Inside, Ending
<1>26. ASSUME Finalize(r) PROVE PipelineTypeOK'
  <2>1. LedgerTypeOK' /\ ran' \in [Requests -> Seq(Ran)] /\ lost' \subseteq Requests
    BY <1>26, RunStepTypes DEF Finalize, StepTypes, PipelineTypeOK
  <2> QED
    BY <1>26, <2>1 DEF Finalize, At, PipelineTypeOK, GateTypeOK, Before, Inside, Ending
<1>27. ASSUME MarkSuccess(r) PROVE PipelineTypeOK'
  <2>1. LedgerTypeOK' /\ lost' \subseteq Requests
    BY <1>27, RowWriteTypes, RowsWritten DEF MarkSuccess, PipelineTypeOK
  <2> QED
    BY <1>27, <2>1 DEF MarkSuccess, At, Fails, PipelineTypeOK, GateTypeOK, Before, Inside,
       Ending, Causes, Results, Code
<1>28. ASSUME Release(r) PROVE PipelineTypeOK'
  BY <1>28 DEF Release, At, Leave, PipelineTypeOK, GateTypeOK, LedgerTypeOK, Before,
     Inside, Ending
<1>29. ASSUME Answer(r) PROVE PipelineTypeOK'
  <2>1. cause[r] \in Results /\ Code[cause[r]] \in Nat
    <3>1. cause[r] \in Results
      BY <1>29 DEF Answer, At, LocalInv, CauseInv, Verdicts
    <3> QED
      BY <3>1 DEF Results, Code
  <2>2. Append(traces[r], "success") \in Seq(Results) 
    BY AppendProperties DEF PipelineTypeOK, Results, Code
  <2> QED
    BY <1>29, <2>1, <2>2 DEF Answer, At, PipelineTypeOK, GateTypeOK, LedgerTypeOK, Before,
       Inside, Ending
<1>30. ASSUME ContextEnds(r) PROVE PipelineTypeOK'
  BY <1>30 DEF ContextEnds, PipelineTypeOK, GateTypeOK, LedgerTypeOK, Before, Inside,
     Ending
<1> QED
  BY <1>1, <1>2, <1>3, <1>4, <1>5, <1>6, <1>7, <1>8, <1>9, <1>10, <1>11, <1>12, <1>13,
     <1>14, <1>15, <1>16, <1>17, <1>18, <1>19, <1>20, <1>21, <1>22, <1>23, <1>24, <1>25,
     <1>26, <1>27, <1>28, <1>29, <1>30 DEF Receive, Handle

-----------------------------------------------------------------------------
(* A step keeps what the invariant says of the control of its request. *)

(* Appending to the empty sequence: the one trace of a request. *)
LEMMA OneElement ==
  ASSUME NEW x
  PROVE  Append(<<>>, x) = <<x>>
OBVIOUS

(* A failure is reported as a result of the trace, never as a success; one   *)
(* outside the gate as itself; and as gateway_timeout only when the budget  *)
(* has run out and the error says so.                                       *)
LEMMA VerdictOfFailure ==
  ASSUME NEW r \in Requests, cause[r] \in FailCauses
  PROVE  /\ Verdict(r) \in Verdicts \ {"success"}
         /\ Verdict(r) \in Outside <=> cause[r] \in Outside
         /\ Verdict(r) = "gateway_timeout" =>
              /\ Expired(r)
              /\ cause[r] = "route_ctx" \/ (cause[r] = "call" /\ err[r] = "raw_deadline")
<1>1. DOMAIN Plainly = {"route_ctx", "call"}
      /\ Plainly["route_ctx"] = "route_error" /\ Plainly["call"] = "execution_failed"
  BY DEF Plainly
<1>2. Verdicts = {"policy_rejected", "agent_not_implemented", "overload", "route_error",
                  "gateway_timeout", "rag_not_configured", "retrieve_failed",
                  "rerank_failed", "execution_failed", "success"}
  BY DEF Verdicts, Rejections, Results, Code
<1>3. CASE DeadlineSeen(r) /\ Expired(r)
  <2>1. Verdict(r) = "gateway_timeout"
    BY <1>3 DEF Verdict
  <2> QED
    BY <1>2, <1>3, <2>1 DEF DeadlineSeen, Outside
<1>4. CASE ~(DeadlineSeen(r) /\ Expired(r))
  <2>1. Verdict(r) = IF cause[r] \in DOMAIN Plainly THEN Plainly[cause[r]] ELSE cause[r]
    BY <1>4 DEF Verdict
  <2> QED
    BY <1>1, <1>2, <2>1 DEF FailCauses, Outside
<1> QED
  BY <1>3, <1>4

(* A cause is set when a request starts to fail or has succeeded, and is    *)
(* resolved only by Report.                                                 *)
LEMMA CauseStep ==
  ASSUME PipelineTypeOK, NEW r \in Requests, LocalInv(r),
         Receive(r) \/ Handle(r) \/ ContextEnds(r)
  PROVE  CauseInv(r)'
<1> USE DEF PipelineTypeOK, LocalInv, CauseInv, Working, Failing, Over, FailCauses,
        Before, Inside, Ending, runVars, endVars
<1>1. ASSUME Invalid(r) PROVE CauseInv(r)'
  BY <1>1 DEF Invalid, At
<1>2. ASSUME Arrive(r) PROVE CauseInv(r)'
  BY <1>2 DEF Arrive, At
<1>3. ASSUME CreateRow(r) PROVE CauseInv(r)'
  BY <1>3 DEF CreateRow, At
<1>4. ASSUME Normalize(r) PROVE CauseInv(r)'
  BY <1>4 DEF Normalize, At
<1>5. ASSUME PolicyAllow(r) PROVE CauseInv(r)'
  BY <1>5 DEF PolicyAllow, At
<1>6. ASSUME PolicyReject(r) PROVE CauseInv(r)'
  BY <1>6 DEF PolicyReject, At, Fails
<1>7. ASSUME AgentStub(r) PROVE CauseInv(r)'
  BY <1>7 DEF AgentStub, At, Fails
<1>8. ASSUME PassGate(r) PROVE CauseInv(r)'
  BY <1>8 DEF PassGate, At, Fails, Refuse, Admit
<1>9. ASSUME AdmissionStep(r) PROVE CauseInv(r)'
  BY <1>9 DEF AdmissionStep, At
<1>10. ASSUME ReadHealth(r) PROVE CauseInv(r)'
  BY <1>10 DEF ReadHealth, At
<1>11. ASSUME RouteOk(r) PROVE CauseInv(r)'
  BY <1>11 DEF RouteOk, At
<1>12. ASSUME RouteNone(r) PROVE CauseInv(r)'
  BY <1>12 DEF RouteNone, At, Fails
<1>13. ASSUME RouteDead(r) PROVE CauseInv(r)'
  BY <1>13 DEF RouteDead, At, Fails
<1>14. ASSUME RouteStep(r) PROVE CauseInv(r)'
  BY <1>14 DEF RouteStep, At
<1>15. ASSUME SavePolicy(r) PROVE CauseInv(r)'
  BY <1>15 DEF SavePolicy, At
<1>16. ASSUME RagUnconfigured(r) PROVE CauseInv(r)'
  BY <1>16 DEF RagUnconfigured, At, Fails
<1>17. ASSUME Retrieve(r) PROVE CauseInv(r)'
  BY <1>17 DEF Retrieve, StageOk, StageFails, At, Fails
<1>18. ASSUME Rerank(r) PROVE CauseInv(r)'
  BY <1>18 DEF Rerank, StageOk, StageFails, At, Fails
<1>19. ASSUME InvokeOk(r) PROVE CauseInv(r)'
  BY <1>19 DEF InvokeOk, At
<1>20. ASSUME FallBack(r) PROVE CauseInv(r)'
  BY <1>20 DEF FallBack
<1>21. ASSUME GiveUp(r) PROVE CauseInv(r)'
  BY <1>21 DEF GiveUp, At
<1>22. ASSUME CallReturns(r) PROVE CauseInv(r)'
  BY <1>22 DEF CallReturns, At
<1>23. ASSUME CallFails(r) PROVE CauseInv(r)'
  BY <1>23 DEF CallFails, At, Fails
<1>24. ASSUME FailRow(r) PROVE CauseInv(r)'
  BY <1>24 DEF FailRow, At
<1>25. ASSUME Report(r) PROVE CauseInv(r)'
  <2>1. cause[r] \in FailCauses
    BY <1>25 DEF Report, At, LocalInv, CauseInv, Failing
  <2> QED
    BY <1>25, <2>1, VerdictOfFailure DEF Report, At, Fails
<1>26. ASSUME Finalize(r) PROVE CauseInv(r)'
  BY <1>26 DEF Finalize, At
<1>27. ASSUME MarkSuccess(r) PROVE CauseInv(r)'
  <2>1. "success" \in Verdicts
    BY DEF Verdicts, Rejections, Results, Code
  <2> QED
    BY <1>27, <2>1 DEF MarkSuccess, At, Fails
<1>28. ASSUME Release(r) PROVE CauseInv(r)'
  BY <1>28 DEF Release, At, Leave
<1>29. ASSUME Answer(r) PROVE CauseInv(r)'
  BY <1>29 DEF Answer, At
<1>30. ASSUME ContextEnds(r) PROVE CauseInv(r)'
  BY <1>30 DEF ContextEnds
<1> QED
  BY <1>1, <1>2, <1>3, <1>4, <1>5, <1>6, <1>7, <1>8, <1>9, <1>10, <1>11, <1>12, <1>13,
     <1>14, <1>15, <1>16, <1>17, <1>18, <1>19, <1>20, <1>21, <1>22, <1>23, <1>24, <1>25,
     <1>26, <1>27, <1>28, <1>29, <1>30 DEF Receive, Handle

(* An agent request goes no further than the stub, and only rag requests    *)
(* reach the stages of retrieval.                                           *)
LEMMA KindStep ==
  ASSUME PipelineTypeOK, NEW r \in Requests, LocalInv(r),
         Receive(r) \/ Handle(r) \/ ContextEnds(r)
  PROVE  KindInv(r)'
<1> USE DEF PipelineTypeOK, GateTypeOK, LocalInv, KindInv, Inside, runVars, gateVars
<1>1. ASSUME Invalid(r) PROVE KindInv(r)'
  BY <1>1 DEF Invalid, At
<1>2. ASSUME Arrive(r) PROVE KindInv(r)'
  <2>1. r \notin holders
    BY <1>2 DEF Arrive, At, SlotInv, Failing
  <2> QED
    BY <1>2, <2>1 DEF Arrive, At
<1>3. ASSUME CreateRow(r) PROVE KindInv(r)'
  BY <1>3 DEF CreateRow, At
<1>4. ASSUME Normalize(r) PROVE KindInv(r)'
  BY <1>4 DEF Normalize, At
<1>5. ASSUME PolicyAllow(r) PROVE KindInv(r)'
  BY <1>5 DEF PolicyAllow, At
<1>6. ASSUME PolicyReject(r) PROVE KindInv(r)'
  BY <1>6 DEF PolicyReject, At, Fails
<1>7. ASSUME AgentStub(r) PROVE KindInv(r)'
  BY <1>7 DEF AgentStub, At, Fails
<1>8. ASSUME PassGate(r) PROVE KindInv(r)'
  BY <1>8 DEF PassGate, At, Fails, Refuse, Admit
<1>9. ASSUME AdmissionStep(r) PROVE KindInv(r)'
  BY <1>9 DEF AdmissionStep, At
<1>10. ASSUME ReadHealth(r) PROVE KindInv(r)'
  BY <1>10 DEF ReadHealth, At
<1>11. ASSUME RouteOk(r) PROVE KindInv(r)'
  BY <1>11 DEF RouteOk, At
<1>12. ASSUME RouteNone(r) PROVE KindInv(r)'
  BY <1>12 DEF RouteNone, At, Fails
<1>13. ASSUME RouteDead(r) PROVE KindInv(r)'
  BY <1>13 DEF RouteDead, At, Fails
<1>14. ASSUME RouteStep(r) PROVE KindInv(r)'
  BY <1>14 DEF RouteStep, At
<1>15. ASSUME SavePolicy(r) PROVE KindInv(r)'
  BY <1>15 DEF SavePolicy, At
<1>16. ASSUME RagUnconfigured(r) PROVE KindInv(r)'
  BY <1>16 DEF RagUnconfigured, At, Fails
<1>17. ASSUME Retrieve(r) PROVE KindInv(r)'
  BY <1>17 DEF Retrieve, StageOk, StageFails, At, Fails
<1>18. ASSUME Rerank(r) PROVE KindInv(r)'
  BY <1>18 DEF Rerank, StageOk, StageFails, At, Fails
<1>19. ASSUME InvokeOk(r) PROVE KindInv(r)'
  BY <1>19 DEF InvokeOk, At
<1>20. ASSUME FallBack(r) PROVE KindInv(r)'
  BY <1>20 DEF FallBack
<1>21. ASSUME GiveUp(r) PROVE KindInv(r)'
  BY <1>21 DEF GiveUp, At
<1>22. ASSUME CallReturns(r) PROVE KindInv(r)'
  BY <1>22 DEF CallReturns, At
<1>23. ASSUME CallFails(r) PROVE KindInv(r)'
  BY <1>23 DEF CallFails, At, Fails
<1>24. ASSUME FailRow(r) PROVE KindInv(r)'
  BY <1>24 DEF FailRow, At
<1>25. ASSUME Report(r) PROVE KindInv(r)'
  BY <1>25 DEF Report, At, Fails
<1>26. ASSUME Finalize(r) PROVE KindInv(r)'
  BY <1>26 DEF Finalize, At
<1>27. ASSUME MarkSuccess(r) PROVE KindInv(r)'
  BY <1>27 DEF MarkSuccess, At, Fails
<1>28. ASSUME Release(r) PROVE KindInv(r)'
  BY <1>28 DEF Release, At, Leave
<1>29. ASSUME Answer(r) PROVE KindInv(r)'
  BY <1>29 DEF Answer, At
<1>30. ASSUME ContextEnds(r) PROVE KindInv(r)'
  BY <1>30 DEF ContextEnds
<1> QED
  BY <1>1, <1>2, <1>3, <1>4, <1>5, <1>6, <1>7, <1>8, <1>9, <1>10, <1>11, <1>12, <1>13,
     <1>14, <1>15, <1>16, <1>17, <1>18, <1>19, <1>20, <1>21, <1>22, <1>23, <1>24, <1>25,
     <1>26, <1>27, <1>28, <1>29, <1>30 DEF Receive, Handle

(* A slot is taken by PassGate and given back by Release alone: FailRow and *)
(* Report keep it.                                                          *)
LEMMA SlotStep ==
  ASSUME PipelineTypeOK, NEW r \in Requests, LocalInv(r),
         Receive(r) \/ Handle(r) \/ ContextEnds(r)
  PROVE  SlotInv(r)'
<1> USE DEF PipelineTypeOK, GateTypeOK, LocalInv, SlotInv, CauseInv, Failing, Outside,
        Inside, gateVars, endVars
<1>1. ASSUME Invalid(r) PROVE SlotInv(r)'
  BY <1>1 DEF Invalid, At
<1>2. ASSUME Arrive(r) PROVE SlotInv(r)'
  BY <1>2 DEF Arrive, At
<1>3. ASSUME CreateRow(r) PROVE SlotInv(r)'
  BY <1>3 DEF CreateRow, At
<1>4. ASSUME Normalize(r) PROVE SlotInv(r)'
  BY <1>4 DEF Normalize, At
<1>5. ASSUME PolicyAllow(r) PROVE SlotInv(r)'
  BY <1>5 DEF PolicyAllow, At
<1>6. ASSUME PolicyReject(r) PROVE SlotInv(r)'
  BY <1>6 DEF PolicyReject, At, Fails
<1>7. ASSUME AgentStub(r) PROVE SlotInv(r)'
  BY <1>7 DEF AgentStub, At, Fails
<1>8. ASSUME PassGate(r) PROVE SlotInv(r)'
  BY <1>8 DEF PassGate, At, Fails, Refuse, Admit
<1>9. ASSUME AdmissionStep(r) PROVE SlotInv(r)'
  BY <1>9 DEF AdmissionStep, At
<1>10. ASSUME ReadHealth(r) PROVE SlotInv(r)'
  BY <1>10 DEF ReadHealth, At
<1>11. ASSUME RouteOk(r) PROVE SlotInv(r)'
  BY <1>11 DEF RouteOk, At
<1>12. ASSUME RouteNone(r) PROVE SlotInv(r)'
  BY <1>12 DEF RouteNone, At, Fails
<1>13. ASSUME RouteDead(r) PROVE SlotInv(r)'
  BY <1>13 DEF RouteDead, At, Fails
<1>14. ASSUME RouteStep(r) PROVE SlotInv(r)'
  BY <1>14 DEF RouteStep, At
<1>15. ASSUME SavePolicy(r) PROVE SlotInv(r)'
  BY <1>15 DEF SavePolicy, At
<1>16. ASSUME RagUnconfigured(r) PROVE SlotInv(r)'
  BY <1>16 DEF RagUnconfigured, At, Fails
<1>17. ASSUME Retrieve(r) PROVE SlotInv(r)'
  BY <1>17 DEF Retrieve, StageOk, StageFails, At, Fails
<1>18. ASSUME Rerank(r) PROVE SlotInv(r)'
  BY <1>18 DEF Rerank, StageOk, StageFails, At, Fails
<1>19. ASSUME InvokeOk(r) PROVE SlotInv(r)'
  BY <1>19 DEF InvokeOk, At
<1>20. ASSUME FallBack(r) PROVE SlotInv(r)'
  BY <1>20 DEF FallBack
<1>21. ASSUME GiveUp(r) PROVE SlotInv(r)'
  BY <1>21 DEF GiveUp, At
<1>22. ASSUME CallReturns(r) PROVE SlotInv(r)'
  BY <1>22 DEF CallReturns, At
<1>23. ASSUME CallFails(r) PROVE SlotInv(r)'
  BY <1>23 DEF CallFails, At, Fails
<1>24. ASSUME FailRow(r) PROVE SlotInv(r)'
  BY <1>24 DEF FailRow, At
<1>25. ASSUME Report(r) PROVE SlotInv(r)'
  <2>1. cause[r] \in FailCauses
    BY <1>25 DEF Report, At, LocalInv, CauseInv, Failing
  <2> QED
    BY <1>25, <2>1, VerdictOfFailure DEF Report, At, Fails
<1>26. ASSUME Finalize(r) PROVE SlotInv(r)'
  BY <1>26 DEF Finalize, At
<1>27. ASSUME MarkSuccess(r) PROVE SlotInv(r)'
  BY <1>27 DEF MarkSuccess, At, Fails
<1>28. ASSUME Release(r) PROVE SlotInv(r)'
  BY <1>28 DEF Release, At, Leave
<1>29. ASSUME Answer(r) PROVE SlotInv(r)'
  BY <1>29 DEF Answer, At
<1>30. ASSUME ContextEnds(r) PROVE SlotInv(r)'
  BY <1>30 DEF ContextEnds
<1> QED
  BY <1>1, <1>2, <1>3, <1>4, <1>5, <1>6, <1>7, <1>8, <1>9, <1>10, <1>11, <1>12, <1>13,
     <1>14, <1>15, <1>16, <1>17, <1>18, <1>19, <1>20, <1>21, <1>22, <1>23, <1>24, <1>25,
     <1>26, <1>27, <1>28, <1>29, <1>30 DEF Receive, Handle

(* One trace and one answer: Report traces a failure, Answer a success.     *)
LEMMA AnswerStep ==
  ASSUME PipelineTypeOK, NEW r \in Requests, LocalInv(r),
         Receive(r) \/ Handle(r) \/ ContextEnds(r)
  PROVE  AnswerInv(r)'
<1> USE DEF PipelineTypeOK, LocalInv, AnswerInv, Outcome, CauseInv, Working, Failing,
        Over, endVars
<1>1. ASSUME Invalid(r) PROVE AnswerInv(r)'
  <2>1. cause[r] = None /\ traces[r] = <<>> /\ cause'[r] = cause[r]
    BY <1>1 DEF Invalid, At, Before
  <2>2. PICK why \in Rejections : /\ traces' = [traces EXCEPT ![r] = Append(@, why)]
                                  /\ reply' = [reply EXCEPT ![r] = Code[why]]
    BY <1>1 DEF Invalid
  <2>3. Append(traces[r], why) = <<why>>
    BY <2>1, OneElement
  <2>4. traces'[r] = <<why>> /\ reply'[r] = Code[why]
    BY <2>2, <2>3
  <2>5. Outcome(r)' = why
    BY <2>1, <2>4 DEF Rejections
  <2> QED
    BY <1>1, <2>1, <2>4, <2>5 DEF Invalid, At
<1>2. ASSUME Arrive(r) PROVE AnswerInv(r)'
  BY <1>2 DEF Arrive, At
<1>3. ASSUME CreateRow(r) PROVE AnswerInv(r)'
  BY <1>3 DEF CreateRow, At
<1>4. ASSUME Normalize(r) PROVE AnswerInv(r)'
  BY <1>4 DEF Normalize, At
<1>5. ASSUME PolicyAllow(r) PROVE AnswerInv(r)'
  BY <1>5 DEF PolicyAllow, At
<1>6. ASSUME PolicyReject(r) PROVE AnswerInv(r)'
  BY <1>6 DEF PolicyReject, At, Fails
<1>7. ASSUME AgentStub(r) PROVE AnswerInv(r)'
  BY <1>7 DEF AgentStub, At, Fails
<1>8. ASSUME PassGate(r) PROVE AnswerInv(r)'
  BY <1>8 DEF PassGate, At, Fails, Refuse, Admit
<1>9. ASSUME AdmissionStep(r) PROVE AnswerInv(r)'
  BY <1>9 DEF AdmissionStep, At
<1>10. ASSUME ReadHealth(r) PROVE AnswerInv(r)'
  BY <1>10 DEF ReadHealth, At
<1>11. ASSUME RouteOk(r) PROVE AnswerInv(r)'
  BY <1>11 DEF RouteOk, At
<1>12. ASSUME RouteNone(r) PROVE AnswerInv(r)'
  BY <1>12 DEF RouteNone, At, Fails
<1>13. ASSUME RouteDead(r) PROVE AnswerInv(r)'
  BY <1>13 DEF RouteDead, At, Fails
<1>14. ASSUME RouteStep(r) PROVE AnswerInv(r)'
  BY <1>14 DEF RouteStep, At
<1>15. ASSUME SavePolicy(r) PROVE AnswerInv(r)'
  BY <1>15 DEF SavePolicy, At
<1>16. ASSUME RagUnconfigured(r) PROVE AnswerInv(r)'
  BY <1>16 DEF RagUnconfigured, At, Fails
<1>17. ASSUME Retrieve(r) PROVE AnswerInv(r)'
  BY <1>17 DEF Retrieve, StageOk, StageFails, At, Fails
<1>18. ASSUME Rerank(r) PROVE AnswerInv(r)'
  BY <1>18 DEF Rerank, StageOk, StageFails, At, Fails
<1>19. ASSUME InvokeOk(r) PROVE AnswerInv(r)'
  BY <1>19 DEF InvokeOk, At
<1>20. ASSUME FallBack(r) PROVE AnswerInv(r)'
  BY <1>20 DEF FallBack
<1>21. ASSUME GiveUp(r) PROVE AnswerInv(r)'
  BY <1>21 DEF GiveUp, At
<1>22. ASSUME CallReturns(r) PROVE AnswerInv(r)'
  BY <1>22 DEF CallReturns, At
<1>23. ASSUME CallFails(r) PROVE AnswerInv(r)'
  BY <1>23 DEF CallFails, At, Fails
<1>24. ASSUME FailRow(r) PROVE AnswerInv(r)'
  BY <1>24 DEF FailRow, At
<1>25. ASSUME Report(r) PROVE AnswerInv(r)'
  <2>1. cause[r] \in FailCauses
    BY <1>25 DEF Report, At, LocalInv, CauseInv, Failing
  <2>2. traces[r] = <<>> /\ reply[r] = 0 /\ reply'[r] = reply[r]
    BY <1>25, <2>1 DEF Report, At, FailCauses
  <2>3. cause'[r] = Verdict(r) /\ Verdict(r) # None /\ Verdict(r) # "success"
    BY <1>25, <2>1, VerdictOfFailure, NoneIsNoCause DEF Report, Fails
  <2>4. Append(traces[r], Verdict(r)) = <<Verdict(r)>>
    BY <2>2, OneElement
  <2>5. traces'[r] = <<Verdict(r)>>
    BY <1>25, <2>4 DEF Report
  <2>6. pc'[r] \in {"release", "reply"}
    BY <1>25 DEF Report, At
  <2> QED
    BY <2>2, <2>3, <2>5, <2>6
<1>26. ASSUME Finalize(r) PROVE AnswerInv(r)'
  BY <1>26 DEF Finalize, At
<1>27. ASSUME MarkSuccess(r) PROVE AnswerInv(r)'
  BY <1>27 DEF MarkSuccess, At, Fails
<1>28. ASSUME Release(r) PROVE AnswerInv(r)'
  BY <1>28 DEF Release, At, Leave
<1>29. ASSUME Answer(r) PROVE AnswerInv(r)'
  <2>1. cause[r] \in Verdicts /\ cause[r] # None /\ cause'[r] = cause[r]
    BY <1>29, NoneIsNoCause DEF Answer, At
  <2>2. traces'[r] = <<cause[r]>>
    <3>1. CASE cause[r] = "success"
      BY <1>29, <3>1 DEF Answer, At
    <3>2. CASE cause[r] # "success"
      BY <1>29, <2>1, <3>2 DEF Answer, At
    <3> QED
      BY <3>1, <3>2
  <2>3. reply'[r] = Code[cause[r]] /\ pc'[r] = "done"
    BY <1>29 DEF Answer, At
  <2> QED
    BY <2>1, <2>2, <2>3
<1>30. ASSUME ContextEnds(r) PROVE AnswerInv(r)'
  BY <1>30 DEF ContextEnds
<1> QED
  BY <1>1, <1>2, <1>3, <1>4, <1>5, <1>6, <1>7, <1>8, <1>9, <1>10, <1>11, <1>12, <1>13,
     <1>14, <1>15, <1>16, <1>17, <1>18, <1>19, <1>20, <1>21, <1>22, <1>23, <1>24, <1>25,
     <1>26, <1>27, <1>28, <1>29, <1>30 DEF Receive, Handle

(* A deadline that a failure is reported with has been counted: by          *)
(* CallFails for the backend call, by Report for routing.                   *)
LEMMA DeadlineStep ==
  ASSUME PipelineTypeOK, NEW r \in Requests, LocalInv(r),
         Receive(r) \/ Handle(r) \/ ContextEnds(r)
  PROVE  DeadlineInv(r)'
<1> USE DEF PipelineTypeOK, LocalInv, DeadlineInv, CauseInv, Working, Failing, Over,
        endVars, callVars, runVars, Expired, Live
<1>1. ASSUME Invalid(r) PROVE DeadlineInv(r)'
  BY <1>1 DEF Invalid, At
<1>2. ASSUME Arrive(r) PROVE DeadlineInv(r)'
  BY <1>2 DEF Arrive, At
<1>3. ASSUME CreateRow(r) PROVE DeadlineInv(r)'
  BY <1>3 DEF CreateRow, At
<1>4. ASSUME Normalize(r) PROVE DeadlineInv(r)'
  BY <1>4 DEF Normalize, At
<1>5. ASSUME PolicyAllow(r) PROVE DeadlineInv(r)'
  BY <1>5 DEF PolicyAllow, At
<1>6. ASSUME PolicyReject(r) PROVE DeadlineInv(r)'
  BY <1>6 DEF PolicyReject, At, Fails
<1>7. ASSUME AgentStub(r) PROVE DeadlineInv(r)'
  BY <1>7 DEF AgentStub, At, Fails
<1>8. ASSUME PassGate(r) PROVE DeadlineInv(r)'
  BY <1>8 DEF PassGate, At, Fails, Refuse, Admit
<1>9. ASSUME AdmissionStep(r) PROVE DeadlineInv(r)'
  BY <1>9 DEF AdmissionStep, At
<1>10. ASSUME ReadHealth(r) PROVE DeadlineInv(r)'
  BY <1>10 DEF ReadHealth, At
<1>11. ASSUME RouteOk(r) PROVE DeadlineInv(r)'
  BY <1>11 DEF RouteOk, At
<1>12. ASSUME RouteNone(r) PROVE DeadlineInv(r)'
  BY <1>12 DEF RouteNone, At, Fails
<1>13. ASSUME RouteDead(r) PROVE DeadlineInv(r)'
  BY <1>13 DEF RouteDead, At, Fails
<1>14. ASSUME RouteStep(r) PROVE DeadlineInv(r)'
  BY <1>14 DEF RouteStep, At
<1>15. ASSUME SavePolicy(r) PROVE DeadlineInv(r)'
  BY <1>15 DEF SavePolicy, At
<1>16. ASSUME RagUnconfigured(r) PROVE DeadlineInv(r)'
  BY <1>16 DEF RagUnconfigured, At, Fails
<1>17. ASSUME Retrieve(r) PROVE DeadlineInv(r)'
  BY <1>17 DEF Retrieve, StageOk, StageFails, At, Fails
<1>18. ASSUME Rerank(r) PROVE DeadlineInv(r)'
  BY <1>18 DEF Rerank, StageOk, StageFails, At, Fails
<1>19. ASSUME InvokeOk(r) PROVE DeadlineInv(r)'
  BY <1>19 DEF InvokeOk, At
<1>20. ASSUME FallBack(r) PROVE DeadlineInv(r)'
  BY <1>20 DEF FallBack
<1>21. ASSUME GiveUp(r) PROVE DeadlineInv(r)'
  BY <1>21 DEF GiveUp, At
<1>22. ASSUME CallReturns(r) PROVE DeadlineInv(r)'
  BY <1>22 DEF CallReturns, At
<1>23. ASSUME CallFails(r) PROVE DeadlineInv(r)'
  <2>1. pc'[r] = "fail" /\ cause'[r] = "call" /\ err'[r] = err[r] /\ err[r] # None
    BY <1>23 DEF CallFails, At, Fails
  <2>2. err[r] = "raw_deadline" => r \in noted'
    BY <1>23 DEF CallFails, Counts
  <2> QED
    BY <2>1, <2>2
<1>24. ASSUME FailRow(r) PROVE DeadlineInv(r)'
  BY <1>24 DEF FailRow, At
<1>25. ASSUME Report(r) PROVE DeadlineInv(r)'
  <2>1. cause[r] \in FailCauses
    BY <1>25 DEF Report, At, LocalInv, CauseInv, Failing
  <2> QED
    BY <1>25, <2>1, VerdictOfFailure DEF Report, At, Fails, Counts
<1>26. ASSUME Finalize(r) PROVE DeadlineInv(r)'
  BY <1>26 DEF Finalize, At
<1>27. ASSUME MarkSuccess(r) PROVE DeadlineInv(r)'
  BY <1>27 DEF MarkSuccess, At, Fails
<1>28. ASSUME Release(r) PROVE DeadlineInv(r)'
  BY <1>28 DEF Release, At, Leave
<1>29. ASSUME Answer(r) PROVE DeadlineInv(r)'
  BY <1>29 DEF Answer, At
<1>30. ASSUME ContextEnds(r) PROVE DeadlineInv(r)'
  BY <1>30 DEF ContextEnds
<1> QED
  BY <1>1, <1>2, <1>3, <1>4, <1>5, <1>6, <1>7, <1>8, <1>9, <1>10, <1>11, <1>12, <1>13,
     <1>14, <1>15, <1>16, <1>17, <1>18, <1>19, <1>20, <1>21, <1>22, <1>23, <1>24, <1>25,
     <1>26, <1>27, <1>28, <1>29, <1>30 DEF Receive, Handle

-----------------------------------------------------------------------------
(* The steps a request runs and the steps its ledger keeps. *)

(* The plans of internal/inferexec/plan.go, phase by phase. *)
LEMMA PlanOf ==
  ASSUME NEW k \in {"inference", "rag", "agent"}
  PROVE  /\ Len(ExecutionPlan(k)) = IF k = "agent" THEN 3 ELSE IF k = "rag" THEN 8 ELSE 6
         /\ ExecutionPlan(k)[1] = "normalize" /\ ExecutionPlan(k)[2] = "policy_check"
         /\ k = "agent" => ExecutionPlan(k)[3] = "agent_stub"
         /\ k # "agent" => /\ ExecutionPlan(k)[3] = "admission"
                           /\ ExecutionPlan(k)[4] = "route"
         /\ k = "inference" => /\ ExecutionPlan(k)[5] = "backend_call"
                               /\ ExecutionPlan(k)[6] = "finalize"
         /\ k = "rag" => /\ ExecutionPlan(k)[5] = "retrieve"
                         /\ ExecutionPlan(k)[6] = "rerank"
                         /\ ExecutionPlan(k)[7] = "backend_call"
                         /\ ExecutionPlan(k)[8] = "finalize"
<1>1. CASE k = "agent"
  BY <1>1 DEF ExecutionPlan
<1>2. CASE k = "rag"
  BY <1>2 DEF ExecutionPlan
<1>3. CASE k = "inference"
  BY <1>3 DEF ExecutionPlan
<1> QED
  BY <1>1, <1>2, <1>3

(* A step that runs is the last of the steps run, whether or not its row    *)
(* was written.                                                             *)
LEMMA StepIsAppended ==
  ASSUME PipelineTypeOK, NEW r \in Requests, NEW type \in StepTypes,
         NEW status \in {"success", "failed"}, RunStep(r, type, status)
  PROVE  /\ Len(ran[r]) \in Nat /\ Len(ran'[r]) = Len(ran[r]) + 1
         /\ \A i \in 1 .. Len(ran[r]) : ran'[r][i] = ran[r][i]
         /\ ran'[r][Len(ran[r]) + 1] = [type |-> type, status |-> status]
<1>1. ran[r] \in Seq(Ran) /\ [type |-> type, status |-> status] \in Ran
  BY DEF PipelineTypeOK, Ran
<1>2. ran'[r] = Append(ran[r], [type |-> type, status |-> status])
  BY DEF RunStep, PipelineTypeOK
<1> QED
  BY <1>1, <1>2, AppendProperties, LenProperties

(* The row of a step goes to the end of the step rows, at the index of the  *)
(* step that ran; a write that fails leaves a gap.                          *)
LEMMA LogKept ==
  ASSUME PipelineTypeOK, NEW r \in Requests, LogInv(r), NEW type \in StepTypes,
         NEW status \in {"success", "failed"}, RunStep(r, type, status)
  PROVE  LogInv(r)'
<1> DEFINE row == [index |-> Len(ran[r]), type |-> type, status |-> status]
           n == Len(ran[r])  l == Len(steps[r])
<1>1. /\ n \in Nat /\ Len(ran'[r]) = n + 1
      /\ \A i \in 1 .. n : ran'[r][i] = ran[r][i]
      /\ ran'[r][n + 1] = [type |-> type, status |-> status]
  BY StepIsAppended
<1>2. PICK ok \in BOOLEAN : Writes(r, ok) /\ AppendStep(r, row, ok)
  BY DEF RunStep, StepIndex
<1>3. /\ steps[r] \in Seq(StepRow) /\ row \in StepRow /\ l \in Nat
      /\ \A i \in 1 .. l : steps[r][i].index \in Nat
  <2>1. steps[r] \in Seq(StepRow)
    BY DEF PipelineTypeOK, LedgerTypeOK
  <2>2. \A i \in 1 .. l : steps[r][i] \in StepRow
    BY <2>1, ElementOfSeq
  <2> QED
    BY <1>1, <2>1, <2>2, LenProperties DEF StepRow
<1>4. \A i \in 1 .. l :
        /\ steps[r][i].index < n + 1
        /\ [type |-> steps[r][i].type, status |-> steps[r][i].status]
             = ran'[r][steps[r][i].index + 1]
        /\ i > 1 => steps[r][i - 1].index < steps[r][i].index
  <2>1. \A i \in 1 .. l : steps[r][i].index < n
    BY DEF LogInv
  <2>2. \A i \in 1 .. l : steps[r][i].index + 1 \in 1 .. n
    BY <1>1, <1>3, <2>1
  <2>3. ASSUME NEW i \in 1 .. l
        PROVE  /\ [type |-> steps[r][i].type, status |-> steps[r][i].status]
                    = ran'[r][steps[r][i].index + 1]
               /\ i > 1 => steps[r][i - 1].index < steps[r][i].index
    <3>1. [type |-> steps[r][i].type, status |-> steps[r][i].status]
            = ran[r][steps[r][i].index + 1]
      BY DEF LogInv
    <3>2. ran'[r][steps[r][i].index + 1] = ran[r][steps[r][i].index + 1]
      BY <1>1, <2>2
    <3>3. i > 1 => steps[r][i - 1].index < steps[r][i].index
      BY DEF LogInv
    <3> QED
      BY <3>1, <3>2, <3>3
  <2> QED
    BY <1>1, <1>3, <2>1, <2>3
<1>5. CASE ok /\ Present(r)
  <2>1. steps'[r] = Append(steps[r], row) /\ rows' = rows /\ lost' = lost
    BY <1>2, <1>5 DEF AppendStep, Writes, PipelineTypeOK, LedgerTypeOK
  <2>2. /\ Len(steps'[r]) = l + 1 /\ steps'[r][l + 1] = row
        /\ \A i \in 1 .. l : steps'[r][i] = steps[r][i]
    BY <1>3, <2>1, AppendProperties
  <2>3. \A i \in 1 .. l + 1 :
          /\ steps'[r][i].index < n + 1
          /\ [type |-> steps'[r][i].type, status |-> steps'[r][i].status]
               = ran'[r][steps'[r][i].index + 1]
    <3> SUFFICES ASSUME NEW i \in 1 .. l + 1
                 PROVE  /\ steps'[r][i].index < n + 1
                        /\ [type |-> steps'[r][i].type, status |-> steps'[r][i].status]
                             = ran'[r][steps'[r][i].index + 1]
      OBVIOUS
    <3>1. CASE i \in 1 .. l
      BY <1>4, <2>2, <3>1
    <3>2. CASE i = l + 1
      BY <1>1, <2>2, <3>2
    <3> QED
      BY <1>3, <3>1, <3>2
  <2>4. ASSUME NEW i \in 1 .. l + 1, i > 1
        PROVE  steps'[r][i - 1].index < steps'[r][i].index
    <3>1. CASE i \in 1 .. l
      <4>1. i - 1 \in 1 .. l
        BY <1>3, <2>4, <3>1
      <4> QED
        BY <1>4, <2>2, <2>4, <3>1, <4>1
    <3>2. CASE i = l + 1
      <4>1. i - 1 = l /\ l \in 1 .. l
        BY <1>3, <2>4, <3>2
      <4>2. steps[r][l].index < n
        BY <4>1 DEF LogInv
      <4> QED
        BY <2>2, <3>2, <4>1, <4>2
    <3> QED
      BY <1>3, <3>1, <3>2
  <2>5. Recorded(r)' => Len(steps'[r]) = Len(ran'[r])
    BY <1>1, <1>3, <2>1, <2>2 DEF LogInv, Recorded, Present
  <2> QED
    BY <1>1, <2>2, <2>3, <2>4, <2>5 DEF LogInv
<1>6. CASE ~(ok /\ Present(r))
  <2>1. steps' = steps /\ rows' = rows
    BY <1>2, <1>6 DEF AppendStep
  <2>2. ~Recorded(r)'
    BY <1>2, <1>6, <2>1 DEF Recorded, Present, Writes
  <2> QED
    BY <1>1, <1>4, <2>1, <2>2 DEF LogInv
<1> QED
  BY <1>5, <1>6

(* A step that succeeds takes a request to the stage that its plan says.    *)
LEMMA PlanKeptBySuccess ==
  ASSUME PipelineTypeOK, NEW r \in Requests, PlanInv(r), Working(r), NEW type \in StepTypes,
         RunStep(r, type, "success"), kind'[r] = kind[r], Working(r)', ~Over(r)',
         Len(ran[r]) + 1 <= Len(ExecutionPlan(kind[r])),
         type = ExecutionPlan(kind[r])[Len(ran[r]) + 1],
         StepsAt(pc'[r], kind[r]) = Len(ran[r]) + 1
  PROVE  PlanInv(r)'
<1> DEFINE n == Len(ran[r])
<1>1. /\ n \in Nat /\ Len(ran'[r]) = n + 1
      /\ \A i \in 1 .. n : ran'[r][i] = ran[r][i]
      /\ ran'[r][n + 1] = [type |-> type, status |-> "success"]
  BY StepIsAppended
<1>2. \A i \in 1 .. n + 1 :
        /\ ran'[r][i].type = ExecutionPlan(kind[r])[i]
        /\ ran'[r][i].status = "success"
  <2>1. \A i \in 1 .. n :
          /\ ran[r][i].type = ExecutionPlan(kind[r])[i]
          /\ ran[r][i].status = "success"
    BY DEF PlanInv
  <2>2. \A i \in 1 .. n + 1 : i \in 1 .. n \/ i = n + 1
    BY <1>1
  <2>3. \A i \in 1 .. n : ran'[r][i] = ran[r][i]
    BY <1>1
  <2>4. /\ ran'[r][n + 1].type = ExecutionPlan(kind[r])[n + 1]
        /\ ran'[r][n + 1].status = "success"
    BY <1>1
  <2> QED
    BY <2>1, <2>2, <2>3, <2>4
<1>3. /\ Len(ran'[r]) <= Len(ExecutionPlan(kind'[r]))
      /\ Len(ran'[r]) = StepsAt(pc'[r], kind'[r])
  <2>1. Len(ran'[r]) = Len(ran[r]) + 1
    BY <1>1
  <2> QED
    BY <2>1, Zenon
<1>4. \A i \in 1 .. Len(ran'[r]) :
        /\ ran'[r][i].type = ExecutionPlan(kind'[r])[i]
        /\ ran'[r][i].status = "success"
  BY <1>1, <1>2
<1>5. pc'[r] # "done" /\ ~(Over(r)' /\ cause'[r] = "success")
  BY DEF Over
<1> QED
  BY <1>3, <1>4, <1>5 DEF PlanInv

(* A step that fails is the last one. *)
LEMMA PlanKeptByFailure ==
  ASSUME PipelineTypeOK, NEW r \in Requests, PlanInv(r), Working(r), NEW type \in StepTypes,
         RunStep(r, type, "failed"), kind'[r] = kind[r], ~Working(r)', ~Over(r)',
         Len(ran[r]) + 1 <= Len(ExecutionPlan(kind[r])),
         type = ExecutionPlan(kind[r])[Len(ran[r]) + 1]
  PROVE  PlanInv(r)'
<1> DEFINE n == Len(ran[r])
<1>1. /\ n \in Nat /\ Len(ran'[r]) = n + 1
      /\ \A i \in 1 .. n : ran'[r][i] = ran[r][i]
      /\ ran'[r][n + 1] = [type |-> type, status |-> "failed"]
  BY StepIsAppended
<1>2. \A i \in 1 .. n + 1 :
        /\ ran'[r][i].type = ExecutionPlan(kind[r])[i]
        /\ ran'[r][i].status = "failed" => i = n + 1
  BY <1>1 DEF PlanInv
<1> QED
  BY <1>1, <1>2 DEF PlanInv, Over

(* The steps a request has run are those of its plan, in order, as many as *)
(* its stage says; only the last may have failed, and a success ran them    *)
(* all.                                                                     *)
LEMMA PlanStep ==
  ASSUME PipelineTypeOK, NEW r \in Requests, LocalInv(r),
         Receive(r) \/ Handle(r) \/ ContextEnds(r)
  PROVE  PlanInv(r)'
<1> USE DEF runVars, routeVars, callVars, stepVars, endVars
<1>0. /\ PipelineTypeOK /\ PlanInv(r) /\ KindInv(r) /\ CauseInv(r) /\ SlotInv(r)
      /\ pc \in [Requests -> Before \cup Inside \cup Ending]
      /\ kind \in [Requests -> {"inference", "rag", "agent"}]
      /\ cause \in [Requests -> Causes \cup {None}]
      /\ Len(ran[r]) \in Nat
  BY LenProperties DEF PipelineTypeOK, LocalInv
<1>1. ASSUME Invalid(r) PROVE PlanInv(r)'
  <2>1. cause'[r] = None /\ None # "success" /\ pc'[r] = "done"
    BY <1>1, <1>0, NoneIsNoCause DEF Invalid, At, CauseInv, Working, Before, Results, Code
  <2>2. ran' = ran /\ kind' = kind /\ Len(ran[r]) = 0
    BY <1>1, <1>0 DEF Invalid, At, PlanInv, Working, StepsAt, Before
  <2> QED
    BY <1>0, <2>1, <2>2 DEF PlanInv, Working, Over, Before, Inside
<1>2. ASSUME Arrive(r) PROVE PlanInv(r)'
  BY <1>2, <1>0 DEF Arrive, At, PlanInv, StepsAt, Working, Over, Before, Inside
<1>3. ASSUME CreateRow(r) PROVE PlanInv(r)'
  BY <1>3, <1>0 DEF CreateRow, At, PlanInv, StepsAt, Working, Over, Before, Inside
<1>4. ASSUME Normalize(r) PROVE PlanInv(r)'
  <2>1. RunStep(r, "normalize", "success") /\ kind' = kind
    BY <1>4 DEF Normalize
  <2>2. Working(r) /\ Working(r)' /\ ~Over(r)'
    BY <1>4, <1>0 DEF Normalize, At, Working, Over, Before, Inside
  <2>3. Len(ran[r]) = 0
    BY <1>4, <1>0, <2>2 DEF Normalize, At, PlanInv, KindInv, StepsAt, Inside
  <2>4. /\ Len(ran[r]) + 1 <= Len(ExecutionPlan(kind[r]))
        /\ "normalize" = ExecutionPlan(kind[r])[Len(ran[r]) + 1]
    BY <1>0, <2>3, PlanOf
  <2>5. StepsAt(pc'[r], kind[r]) = Len(ran[r]) + 1
    BY <1>4, <1>0, <2>3 DEF Normalize, At, StepsAt
  <2> QED
    BY <1>0, <2>1, <2>2, <2>4, <2>5, PlanKeptBySuccess DEF StepTypes
<1>5. ASSUME PolicyAllow(r) PROVE PlanInv(r)'
  <2>1. RunStep(r, "policy_check", "success") /\ kind' = kind
    BY <1>5 DEF PolicyAllow
  <2>2. Working(r) /\ Working(r)' /\ ~Over(r)'
    BY <1>5, <1>0 DEF PolicyAllow, At, Working, Over, Before, Inside
  <2>3. Len(ran[r]) = 1
    BY <1>5, <1>0, <2>2 DEF PolicyAllow, At, PlanInv, KindInv, StepsAt, Inside
  <2>4. /\ Len(ran[r]) + 1 <= Len(ExecutionPlan(kind[r]))
        /\ "policy_check" = ExecutionPlan(kind[r])[Len(ran[r]) + 1]
    BY <1>0, <2>3, PlanOf
  <2>5. StepsAt(pc'[r], kind[r]) = Len(ran[r]) + 1
    BY <1>5, <1>0, <2>3 DEF PolicyAllow, At, StepsAt
  <2> QED
    BY <1>0, <2>1, <2>2, <2>4, <2>5, PlanKeptBySuccess DEF StepTypes
<1>6. ASSUME PolicyReject(r) PROVE PlanInv(r)'
  <2>1. RunStep(r, "policy_check", "failed") /\ kind' = kind
    BY <1>6 DEF PolicyReject
  <2>2. Working(r) /\ ~Working(r)' /\ ~Over(r)'
    BY <1>6, <1>0 DEF PolicyReject, At, Working, Over, Before, Inside
  <2>3. Len(ran[r]) = 1
    BY <1>6, <1>0, <2>2 DEF PolicyReject, At, PlanInv, KindInv, StepsAt, Inside
  <2>4. /\ Len(ran[r]) + 1 <= Len(ExecutionPlan(kind[r]))
        /\ "policy_check" = ExecutionPlan(kind[r])[Len(ran[r]) + 1]
    BY <1>0, <2>3, PlanOf
  <2> QED
    BY <1>0, <2>1, <2>2, <2>4, PlanKeptByFailure DEF StepTypes
<1>7. ASSUME AgentStub(r) PROVE PlanInv(r)'
  <2>1. RunStep(r, "agent_stub", "failed") /\ kind' = kind
    BY <1>7 DEF AgentStub
  <2>2. Working(r) /\ ~Working(r)' /\ ~Over(r)'
    BY <1>7, <1>0 DEF AgentStub, At, Working, Over, Before, Inside
  <2>3. Len(ran[r]) = 2 /\ kind[r] = "agent"
    BY <1>7, <1>0, <2>2 DEF AgentStub, At, PlanInv, KindInv, StepsAt, Inside
  <2>4. /\ Len(ran[r]) + 1 <= Len(ExecutionPlan(kind[r]))
        /\ "agent_stub" = ExecutionPlan(kind[r])[Len(ran[r]) + 1]
    BY <1>0, <2>3, PlanOf
  <2> QED
    BY <1>0, <2>1, <2>2, <2>4, PlanKeptByFailure DEF StepTypes
<1>8. ASSUME PassGate(r) PROVE PlanInv(r)'
  BY <1>8, <1>0 DEF PassGate, At, Fails, Refuse, Admit, PlanInv, StepsAt, Working, Over,
     Before, Inside
<1>9. ASSUME AdmissionStep(r) PROVE PlanInv(r)'
  <2>1. RunStep(r, "admission", "success") /\ kind' = kind
    BY <1>9 DEF AdmissionStep
  <2>2. Working(r) /\ Working(r)' /\ ~Over(r)'
    BY <1>9, <1>0 DEF AdmissionStep, At, Working, Over, Before, Inside
  <2>3. Len(ran[r]) = 2 /\ kind[r] # "agent"
    BY <1>9, <1>0, <2>2 DEF AdmissionStep, At, PlanInv, KindInv, StepsAt, Inside
  <2>4. /\ Len(ran[r]) + 1 <= Len(ExecutionPlan(kind[r]))
        /\ "admission" = ExecutionPlan(kind[r])[Len(ran[r]) + 1]
    BY <1>0, <2>3, PlanOf
  <2>5. StepsAt(pc'[r], kind[r]) = Len(ran[r]) + 1
    BY <1>9, <1>0, <2>3 DEF AdmissionStep, At, StepsAt
  <2> QED
    BY <1>0, <2>1, <2>2, <2>4, <2>5, PlanKeptBySuccess DEF StepTypes
<1>10. ASSUME ReadHealth(r) PROVE PlanInv(r)'
  BY <1>10, <1>0 DEF ReadHealth, At, PlanInv, StepsAt, Working, Over, Before, Inside
<1>11. ASSUME RouteOk(r) PROVE PlanInv(r)'
  BY <1>11, <1>0 DEF RouteOk, At, PlanInv, StepsAt, Working, Over, Before, Inside
<1>12. ASSUME RouteNone(r) PROVE PlanInv(r)'
  BY <1>12, <1>0 DEF RouteNone, At, Fails, PlanInv, StepsAt, Working, Over, Before, Inside
<1>13. ASSUME RouteDead(r) PROVE PlanInv(r)'
  BY <1>13, <1>0 DEF RouteDead, At, Fails, PlanInv, StepsAt, Working, Over, Before, Inside
<1>14. ASSUME RouteStep(r) PROVE PlanInv(r)'
  <2>1. RunStep(r, "route", "success") /\ kind' = kind
    BY <1>14 DEF RouteStep
  <2>2. Working(r) /\ Working(r)' /\ ~Over(r)'
    BY <1>14, <1>0 DEF RouteStep, At, Working, Over, Before, Inside
  <2>3. Len(ran[r]) = 3 /\ kind[r] # "agent"
    BY <1>14, <1>0, <2>2 DEF RouteStep, At, PlanInv, KindInv, StepsAt, Inside
  <2>4. /\ Len(ran[r]) + 1 <= Len(ExecutionPlan(kind[r]))
        /\ "route" = ExecutionPlan(kind[r])[Len(ran[r]) + 1]
    BY <1>0, <2>3, PlanOf
  <2>5. StepsAt(pc'[r], kind[r]) = Len(ran[r]) + 1
    BY <1>14, <1>0, <2>3 DEF RouteStep, At, StepsAt
  <2> QED
    BY <1>0, <2>1, <2>2, <2>4, <2>5, PlanKeptBySuccess DEF StepTypes
<1>15. ASSUME SavePolicy(r) PROVE PlanInv(r)'
  BY <1>15, <1>0 DEF SavePolicy, At, PlanInv, StepsAt, Working, Over, Before, Inside
<1>16. ASSUME RagUnconfigured(r) PROVE PlanInv(r)'
  BY <1>16, <1>0 DEF RagUnconfigured, At, Fails, PlanInv, StepsAt, Working, Over, Before,
     Inside
<1>17. ASSUME Retrieve(r) PROVE PlanInv(r)'
  <2>1. CASE StageOk(r, "rag", "rerank", "retrieve")
    <3>1. RunStep(r, "retrieve", "success") /\ kind' = kind
      BY <2>1 DEF StageOk
    <3>2. Working(r) /\ Working(r)' /\ ~Over(r)'
      BY <2>1, <1>0 DEF StageOk, At, Working, Over, Before, Inside
    <3>3. Len(ran[r]) = 4 /\ kind[r] = "rag"
      BY <2>1, <1>0, <3>2 DEF StageOk, At, PlanInv, KindInv, StepsAt, Inside
    <3>4. /\ Len(ran[r]) + 1 <= Len(ExecutionPlan(kind[r]))
          /\ "retrieve" = ExecutionPlan(kind[r])[Len(ran[r]) + 1]
      BY <1>0, <3>3, PlanOf
    <3>5. StepsAt(pc'[r], kind[r]) = Len(ran[r]) + 1
      BY <2>1, <1>0, <3>3 DEF StageOk, At, StepsAt
    <3> QED
      BY <1>0, <3>1, <3>2, <3>4, <3>5, PlanKeptBySuccess DEF StepTypes
  <2>2. CASE StageFails(r, "rag", "retrieve", "retrieve_failed")
    <3>1. RunStep(r, "retrieve", "failed") /\ kind' = kind
      BY <2>2 DEF StageFails
    <3>2. Working(r) /\ ~Working(r)' /\ ~Over(r)'
      BY <2>2, <1>0 DEF StageFails, At, Working, Over, Before, Inside
    <3>3. Len(ran[r]) = 4 /\ kind[r] = "rag"
      BY <2>2, <1>0, <3>2 DEF StageFails, At, PlanInv, KindInv, StepsAt, Inside
    <3>4. /\ Len(ran[r]) + 1 <= Len(ExecutionPlan(kind[r]))
          /\ "retrieve" = ExecutionPlan(kind[r])[Len(ran[r]) + 1]
      BY <1>0, <3>3, PlanOf
    <3> QED
      BY <1>0, <3>1, <3>2, <3>4, PlanKeptByFailure DEF StepTypes
  <2> QED
    BY <1>17, <2>1, <2>2 DEF Retrieve
<1>18. ASSUME Rerank(r) PROVE PlanInv(r)'
  <2>1. CASE StageOk(r, "rerank", "invoke", "rerank")
    <3>1. RunStep(r, "rerank", "success") /\ kind' = kind
      BY <2>1 DEF StageOk
    <3>2. Working(r) /\ Working(r)' /\ ~Over(r)'
      BY <2>1, <1>0 DEF StageOk, At, Working, Over, Before, Inside
    <3>3. Len(ran[r]) = 5 /\ kind[r] = "rag"
      BY <2>1, <1>0, <3>2 DEF StageOk, At, PlanInv, KindInv, StepsAt, Inside
    <3>4. /\ Len(ran[r]) + 1 <= Len(ExecutionPlan(kind[r]))
          /\ "rerank" = ExecutionPlan(kind[r])[Len(ran[r]) + 1]
      BY <1>0, <3>3, PlanOf
    <3>5. StepsAt(pc'[r], kind[r]) = Len(ran[r]) + 1
      BY <2>1, <1>0, <3>3 DEF StageOk, At, StepsAt
    <3> QED
      BY <1>0, <3>1, <3>2, <3>4, <3>5, PlanKeptBySuccess DEF StepTypes
  <2>2. CASE StageFails(r, "rerank", "rerank", "rerank_failed")
    <3>1. RunStep(r, "rerank", "failed") /\ kind' = kind
      BY <2>2 DEF StageFails
    <3>2. Working(r) /\ ~Working(r)' /\ ~Over(r)'
      BY <2>2, <1>0 DEF StageFails, At, Working, Over, Before, Inside
    <3>3. Len(ran[r]) = 5 /\ kind[r] = "rag"
      BY <2>2, <1>0, <3>2 DEF StageFails, At, PlanInv, KindInv, StepsAt, Inside
    <3>4. /\ Len(ran[r]) + 1 <= Len(ExecutionPlan(kind[r]))
          /\ "rerank" = ExecutionPlan(kind[r])[Len(ran[r]) + 1]
      BY <1>0, <3>3, PlanOf
    <3> QED
      BY <1>0, <3>1, <3>2, <3>4, PlanKeptByFailure DEF StepTypes
  <2> QED
    BY <1>18, <2>1, <2>2 DEF Rerank
<1>19. ASSUME InvokeOk(r) PROVE PlanInv(r)'
  BY <1>19, <1>0 DEF InvokeOk, At, PlanInv, StepsAt, Working, Over, Before, Inside
<1>20. ASSUME FallBack(r) PROVE PlanInv(r)'
  BY <1>20, <1>0 DEF FallBack, PlanInv, StepsAt, Working, Over, Before, Inside
<1>21. ASSUME GiveUp(r) PROVE PlanInv(r)'
  BY <1>21, <1>0 DEF GiveUp, At, PlanInv, StepsAt, Working, Over, Before, Inside
<1>22. ASSUME CallReturns(r) PROVE PlanInv(r)'
  <2>1. RunStep(r, "backend_call", "success") /\ kind' = kind
    BY <1>22 DEF CallReturns
  <2>2. Working(r) /\ Working(r)' /\ ~Over(r)'
    BY <1>22, <1>0 DEF CallReturns, At, Working, Over, Before, Inside
  <2>3. Len(ran[r]) = (IF kind[r] = "rag" THEN 6 ELSE 4) /\ kind[r] # "agent"
    BY <1>22, <1>0, <2>2 DEF CallReturns, At, PlanInv, KindInv, StepsAt, Inside
  <2>4. /\ Len(ran[r]) + 1 <= Len(ExecutionPlan(kind[r]))
        /\ "backend_call" = ExecutionPlan(kind[r])[Len(ran[r]) + 1]
    BY <1>0, <2>3, PlanOf
  <2>5. StepsAt(pc'[r], kind[r]) = Len(ran[r]) + 1
    BY <1>22, <1>0, <2>3 DEF CallReturns, At, StepsAt
  <2> QED
    BY <1>0, <2>1, <2>2, <2>4, <2>5, PlanKeptBySuccess DEF StepTypes
<1>23. ASSUME CallFails(r) PROVE PlanInv(r)'
  <2>1. RunStep(r, "backend_call", "failed") /\ kind' = kind
    BY <1>23 DEF CallFails
  <2>2. Working(r) /\ ~Working(r)' /\ ~Over(r)'
    BY <1>23, <1>0 DEF CallFails, At, Working, Over, Before, Inside
  <2>3. Len(ran[r]) = (IF kind[r] = "rag" THEN 6 ELSE 4) /\ kind[r] # "agent"
    BY <1>23, <1>0, <2>2 DEF CallFails, At, PlanInv, KindInv, StepsAt, Inside
  <2>4. /\ Len(ran[r]) + 1 <= Len(ExecutionPlan(kind[r]))
        /\ "backend_call" = ExecutionPlan(kind[r])[Len(ran[r]) + 1]
    BY <1>0, <2>3, PlanOf
  <2> QED
    BY <1>0, <2>1, <2>2, <2>4, PlanKeptByFailure DEF StepTypes
<1>24. ASSUME FailRow(r) PROVE PlanInv(r)'
  BY <1>24, <1>0 DEF FailRow, At, PlanInv, StepsAt, Working, Over, Before, Inside
<1>25. ASSUME Report(r) PROVE PlanInv(r)'
  <2>1. cause[r] \in FailCauses /\ ~Working(r)
    BY <1>25, <1>0 DEF Report, At, CauseInv, Failing, Working, Before, Inside
  <2>2. cause'[r] # "success" /\ pc'[r] \in {"release", "reply"}
    BY <1>25, <1>0, <2>1, VerdictOfFailure DEF Report, At, Fails
  <2>3. ran' = ran /\ kind' = kind
    BY <1>25 DEF Report
  <2> QED
    BY <1>0, <2>1, <2>2, <2>3 DEF PlanInv, Working, Over, Before, Inside
<1>26. ASSUME Finalize(r) PROVE PlanInv(r)'
  <2>1. RunStep(r, "finalize", "success") /\ kind' = kind
    BY <1>26 DEF Finalize
  <2>2. Working(r) /\ Working(r)' /\ ~Over(r)'
    BY <1>26, <1>0 DEF Finalize, At, Working, Over, Before, Inside
  <2>3. Len(ran[r]) = (IF kind[r] = "rag" THEN 7 ELSE 5) /\ kind[r] # "agent"
    BY <1>26, <1>0, <2>2 DEF Finalize, At, PlanInv, KindInv, StepsAt, Inside
  <2>4. /\ Len(ran[r]) + 1 <= Len(ExecutionPlan(kind[r]))
        /\ "finalize" = ExecutionPlan(kind[r])[Len(ran[r]) + 1]
    BY <1>0, <2>3, PlanOf
  <2>5. StepsAt(pc'[r], kind[r]) = Len(ran[r]) + 1
    BY <1>26, <1>0, <2>3 DEF Finalize, At, StepsAt
  <2> QED
    BY <1>0, <2>1, <2>2, <2>4, <2>5, PlanKeptBySuccess DEF StepTypes
<1>27. ASSUME MarkSuccess(r) PROVE PlanInv(r)'
  <2>1. ran' = ran /\ kind' = kind /\ pc[r] = "mark" /\ pc'[r] = "release"
    BY <1>27, <1>0 DEF MarkSuccess, At
  <2>2. kind[r] # "agent" /\ Len(ran[r]) = IF kind[r] = "rag" THEN 8 ELSE 6
    BY <1>0, <2>1 DEF PlanInv, KindInv, StepsAt, Working, Inside
  <2>3. Len(ran[r]) = Len(ExecutionPlan(kind[r]))
    BY <1>0, <2>2, PlanOf
  <2> QED
    BY <1>0, <2>1, <2>3 DEF PlanInv, Working, Over, Before, Inside
<1>28. ASSUME Release(r) PROVE PlanInv(r)'
  BY <1>28, <1>0 DEF Release, At, Leave, PlanInv, StepsAt, Working, Over, Before, Inside
<1>29. ASSUME Answer(r) PROVE PlanInv(r)'
  <2>1. cause[r] # None /\ cause' = cause /\ pc[r] = "reply" /\ pc'[r] = "done"
    BY <1>29, <1>0, NoneIsNoCause DEF Answer, At, CauseInv
  <2>2. ran' = ran /\ kind' = kind
    BY <1>29 DEF Answer
  <2> QED
    BY <1>0, <2>1, <2>2 DEF PlanInv, Working, Over, Before, Inside
<1>30. ASSUME ContextEnds(r) PROVE PlanInv(r)'
  BY <1>30, <1>0 DEF ContextEnds, PlanInv, StepsAt, Working, Over, Before, Inside
<1> QED
  BY <1>1, <1>2, <1>3, <1>4, <1>5, <1>6, <1>7, <1>8, <1>9, <1>10, <1>11, <1>12, <1>13,
     <1>14, <1>15, <1>16, <1>17, <1>18, <1>19, <1>20, <1>21, <1>22, <1>23, <1>24, <1>25,
     <1>26, <1>27, <1>28, <1>29, <1>30 DEF Receive, Handle

(* The step rows stay the steps that ran.                                   *)
LEMMA LogStep ==
  ASSUME PipelineTypeOK, NEW r \in Requests, LocalInv(r),
         Receive(r) \/ Handle(r) \/ ContextEnds(r)
  PROVE  LogInv(r)'
<1> USE DEF PipelineTypeOK, LedgerTypeOK, LocalInv, stepVars, ledgerVars
<1>1. ASSUME Invalid(r) PROVE LogInv(r)'
  BY <1>1 DEF Invalid, LogInv, Recorded, Present
<1>2. ASSUME Arrive(r) PROVE LogInv(r)'
  BY <1>2 DEF Arrive, LogInv, Recorded, Present
<1>3. ASSUME CreateRow(r) PROVE LogInv(r)'
  <2>1. ran' = ran /\ steps' = steps /\ pc[r] = "create"
    BY <1>3 DEF CreateRow, At, CreateRequest
  <2>2. Len(ran[r]) = 0 /\ Len(steps[r]) = 0
    BY <2>1 DEF PlanInv, RowInv, StepsAt, Working, Before
  <2> QED
    BY <2>1, <2>2 DEF LogInv
<1>4. ASSUME Normalize(r) PROVE LogInv(r)'
  BY <1>4, LogKept DEF Normalize, StepTypes
<1>5. ASSUME PolicyAllow(r) PROVE LogInv(r)'
  BY <1>5, LogKept DEF PolicyAllow, StepTypes
<1>6. ASSUME PolicyReject(r) PROVE LogInv(r)'
  BY <1>6, LogKept DEF PolicyReject, StepTypes
<1>7. ASSUME AgentStub(r) PROVE LogInv(r)'
  BY <1>7, LogKept DEF AgentStub, StepTypes
<1>8. ASSUME PassGate(r) PROVE LogInv(r)'
  BY <1>8 DEF PassGate, LogInv, Recorded, Present
<1>9. ASSUME AdmissionStep(r) PROVE LogInv(r)'
  BY <1>9, LogKept DEF AdmissionStep, StepTypes
<1>10. ASSUME ReadHealth(r) PROVE LogInv(r)'
  BY <1>10 DEF ReadHealth, LogInv, Recorded, Present
<1>11. ASSUME RouteOk(r) PROVE LogInv(r)'
  BY <1>11 DEF RouteOk, LogInv, Recorded, Present
<1>12. ASSUME RouteNone(r) PROVE LogInv(r)'
  BY <1>12 DEF RouteNone, LogInv, Recorded, Present
<1>13. ASSUME RouteDead(r) PROVE LogInv(r)'
  BY <1>13 DEF RouteDead, LogInv, Recorded, Present
<1>14. ASSUME RouteStep(r) PROVE LogInv(r)'
  BY <1>14, LogKept DEF RouteStep, StepTypes
<1>15. ASSUME SavePolicy(r) PROVE LogInv(r)'
  BY <1>15 DEF SavePolicy, Writes, UpdateRequest, RoutedRow, FailedRow, SuccessRow,
     LogInv, Recorded, Present
<1>16. ASSUME RagUnconfigured(r) PROVE LogInv(r)'
  BY <1>16 DEF RagUnconfigured, LogInv, Recorded, Present
<1>17. ASSUME Retrieve(r) PROVE LogInv(r)'
  BY <1>17, LogKept DEF Retrieve, StageOk, StageFails, StepTypes
<1>18. ASSUME Rerank(r) PROVE LogInv(r)'
  BY <1>18, LogKept DEF Rerank, StageOk, StageFails, StepTypes
<1>19. ASSUME InvokeOk(r) PROVE LogInv(r)'
  BY <1>19 DEF InvokeOk, LogInv, Recorded, Present
<1>20. ASSUME FallBack(r) PROVE LogInv(r)'
  BY <1>20 DEF FallBack, LogInv, Recorded, Present
<1>21. ASSUME GiveUp(r) PROVE LogInv(r)'
  BY <1>21 DEF GiveUp, LogInv, Recorded, Present
<1>22. ASSUME CallReturns(r) PROVE LogInv(r)'
  BY <1>22, LogKept DEF CallReturns, StepTypes
<1>23. ASSUME CallFails(r) PROVE LogInv(r)'
  BY <1>23, LogKept DEF CallFails, StepTypes
<1>24. ASSUME FailRow(r) PROVE LogInv(r)'
  BY <1>24 DEF FailRow, Writes, UpdateRequest, RoutedRow, FailedRow, SuccessRow, LogInv,
     Recorded, Present
<1>25. ASSUME Report(r) PROVE LogInv(r)'
  BY <1>25 DEF Report, LogInv, Recorded, Present
<1>26. ASSUME Finalize(r) PROVE LogInv(r)'
  BY <1>26, LogKept DEF Finalize, StepTypes
<1>27. ASSUME MarkSuccess(r) PROVE LogInv(r)'
  BY <1>27 DEF MarkSuccess, Writes, UpdateRequest, RoutedRow, FailedRow, SuccessRow,
     LogInv, Recorded, Present
<1>28. ASSUME Release(r) PROVE LogInv(r)'
  BY <1>28 DEF Release, LogInv, Recorded, Present
<1>29. ASSUME Answer(r) PROVE LogInv(r)'
  BY <1>29 DEF Answer, LogInv, Recorded, Present
<1>30. ASSUME ContextEnds(r) PROVE LogInv(r)'
  BY <1>30 DEF ContextEnds, LogInv, Recorded, Present
<1> QED
  BY <1>1, <1>2, <1>3, <1>4, <1>5, <1>6, <1>7, <1>8, <1>9, <1>10, <1>11, <1>12, <1>13,
     <1>14, <1>15, <1>16, <1>17, <1>18, <1>19, <1>20, <1>21, <1>22, <1>23, <1>24, <1>25,
     <1>26, <1>27, <1>28, <1>29, <1>30 DEF Receive, Handle

-----------------------------------------------------------------------------
(* What the row of a request tells. *)

(* Running a step leaves the row alone, and no write that was lost comes    *)
(* back.                                                                    *)
LEMMA StepLeavesRow ==
  ASSUME NEW r \in Requests, NEW type, NEW status, RunStep(r, type, status)
  PROVE  /\ rows' = rows
         /\ Recorded(r)' => Recorded(r)
BY DEF RunStep, Writes, AppendStep, Recorded, Present

(* The status of the row follows the end of its request: FailRow and        *)
(* MarkSuccess settle it once.                                              *)
LEMMA RowStep ==
  ASSUME PipelineTypeOK, NEW r \in Requests, LocalInv(r),
         Receive(r) \/ Handle(r) \/ ContextEnds(r)
  PROVE  RowInv(r)'
<1> USE DEF runVars, stepVars, endVars, ledgerVars
<1>0. /\ PipelineTypeOK /\ RowInv(r) /\ CauseInv(r) /\ PlanInv(r)
      /\ pc \in [Requests -> Before \cup Inside \cup Ending]
      /\ cause \in [Requests -> Causes \cup {None}]
      /\ rows \in [Requests -> Row]
      /\ None # "success"
  BY NoneIsNoCause DEF PipelineTypeOK, LedgerTypeOK, LocalInv, Results, Code
<1>1. ASSUME Invalid(r) PROVE RowInv(r)'
  <2>1. rows' = rows /\ rows[r] = NoRow /\ pc'[r] = "done"
    BY <1>1, <1>0 DEF Invalid, At, RowInv
  <2> QED
    BY <2>1 DEF RowInv, Recorded, Present, NoRow
<1>2. ASSUME Arrive(r) PROVE RowInv(r)'
  BY <1>2, <1>0 DEF Arrive, At, RowInv, CauseInv, Recorded, Present, Working, Failing,
     Over, Before, Inside
<1>3. ASSUME CreateRow(r) PROVE RowInv(r)'
  BY <1>3, <1>0 DEF CreateRow, At, Writes, CreateRequest, RowInv, CauseInv, Recorded,
     Present, Working, Failing, Over, Before, Inside
<1>4. ASSUME Normalize(r) PROVE RowInv(r)'
  <2>1. rows' = rows /\ (Recorded(r)' => Recorded(r))
    BY <1>4, StepLeavesRow DEF Normalize
  <2> QED
    BY <1>4, <1>0, <2>1 DEF Normalize, At, RowInv, CauseInv, Working, Over, Before,
       Inside, Present
<1>5. ASSUME PolicyAllow(r) PROVE RowInv(r)'
  <2>1. rows' = rows /\ (Recorded(r)' => Recorded(r))
    BY <1>5, StepLeavesRow DEF PolicyAllow
  <2> QED
    BY <1>5, <1>0, <2>1 DEF PolicyAllow, At, RowInv, CauseInv, Working, Over, Before,
       Inside, Present
<1>6. ASSUME PolicyReject(r) PROVE RowInv(r)'
  <2>1. rows' = rows /\ (Recorded(r)' => Recorded(r))
    BY <1>6, StepLeavesRow DEF PolicyReject
  <2> QED
    BY <1>6, <1>0, <2>1 DEF PolicyReject, At, Fails, RowInv, CauseInv, Working, Over,
       Before, Inside, Present
<1>7. ASSUME AgentStub(r) PROVE RowInv(r)'
  <2>1. rows' = rows /\ (Recorded(r)' => Recorded(r))
    BY <1>7, StepLeavesRow DEF AgentStub
  <2> QED
    BY <1>7, <1>0, <2>1 DEF AgentStub, At, Fails, RowInv, CauseInv, Working, Over, Before,
       Inside, Present
<1>8. ASSUME PassGate(r) PROVE RowInv(r)'
  BY <1>8, <1>0 DEF PassGate, At, Fails, Refuse, Admit, RowInv, CauseInv, Recorded,
     Present, Working, Failing, Over, Before, Inside
<1>9. ASSUME AdmissionStep(r) PROVE RowInv(r)'
  <2>1. rows' = rows /\ (Recorded(r)' => Recorded(r))
    BY <1>9, StepLeavesRow DEF AdmissionStep
  <2> QED
    BY <1>9, <1>0, <2>1 DEF AdmissionStep, At, RowInv, CauseInv, Working, Over, Before,
       Inside, Present
<1>10. ASSUME ReadHealth(r) PROVE RowInv(r)'
  BY <1>10, <1>0 DEF ReadHealth, At, RowInv, CauseInv, Recorded, Present, Working,
     Failing, Over, Before, Inside
<1>11. ASSUME RouteOk(r) PROVE RowInv(r)'
  BY <1>11, <1>0 DEF RouteOk, At, RowInv, CauseInv, Recorded, Present, Working, Failing,
     Over, Before, Inside
<1>12. ASSUME RouteNone(r) PROVE RowInv(r)'
  BY <1>12, <1>0 DEF RouteNone, At, Fails, RowInv, CauseInv, Recorded, Present, Working,
     Failing, Over, Before, Inside
<1>13. ASSUME RouteDead(r) PROVE RowInv(r)'
  BY <1>13, <1>0 DEF RouteDead, At, Fails, RowInv, CauseInv, Recorded, Present, Working,
     Failing, Over, Before, Inside
<1>14. ASSUME RouteStep(r) PROVE RowInv(r)'
  <2>1. rows' = rows /\ (Recorded(r)' => Recorded(r))
    BY <1>14, StepLeavesRow DEF RouteStep
  <2> QED
    BY <1>14, <1>0, <2>1 DEF RouteStep, At, RowInv, CauseInv, Working, Over, Before,
       Inside, Present
<1>15. ASSUME SavePolicy(r) PROVE RowInv(r)'
  BY <1>15, <1>0 DEF SavePolicy, At, Writes, UpdateRequest, RoutedRow, FailedRow,
     SuccessRow, RowInv, CauseInv, Recorded, Present, Working, Failing, Over, Before,
     Inside
<1>16. ASSUME RagUnconfigured(r) PROVE RowInv(r)'
  BY <1>16, <1>0 DEF RagUnconfigured, At, Fails, RowInv, CauseInv, Recorded, Present,
     Working, Failing, Over, Before, Inside
<1>17. ASSUME Retrieve(r) PROVE RowInv(r)'
  <2>1. rows' = rows /\ (Recorded(r)' => Recorded(r))
    BY <1>17, StepLeavesRow DEF Retrieve, StageOk, StageFails
  <2> QED
    BY <1>17, <1>0, <2>1 DEF Retrieve, StageOk, StageFails, At, Fails, RowInv, CauseInv,
       Working, Over, Before, Inside, Present
<1>18. ASSUME Rerank(r) PROVE RowInv(r)'
  <2>1. rows' = rows /\ (Recorded(r)' => Recorded(r))
    BY <1>18, StepLeavesRow DEF Rerank, StageOk, StageFails
  <2> QED
    BY <1>18, <1>0, <2>1 DEF Rerank, StageOk, StageFails, At, Fails, RowInv, CauseInv,
       Working, Over, Before, Inside, Present
<1>19. ASSUME InvokeOk(r) PROVE RowInv(r)'
  BY <1>19, <1>0 DEF InvokeOk, At, RowInv, CauseInv, Recorded, Present, Working, Failing,
     Over, Before, Inside
<1>20. ASSUME FallBack(r) PROVE RowInv(r)'
  BY <1>20, <1>0 DEF FallBack, RowInv, CauseInv, Recorded, Present, Working, Failing,
     Over, Before, Inside
<1>21. ASSUME GiveUp(r) PROVE RowInv(r)'
  BY <1>21, <1>0 DEF GiveUp, At, RowInv, CauseInv, Recorded, Present, Working, Failing,
     Over, Before, Inside
<1>22. ASSUME CallReturns(r) PROVE RowInv(r)'
  <2>1. rows' = rows /\ (Recorded(r)' => Recorded(r))
    BY <1>22, StepLeavesRow DEF CallReturns
  <2> QED
    BY <1>22, <1>0, <2>1 DEF CallReturns, At, RowInv, CauseInv, Working, Over, Before,
       Inside, Present
<1>23. ASSUME CallFails(r) PROVE RowInv(r)'
  <2>1. rows' = rows /\ (Recorded(r)' => Recorded(r))
    BY <1>23, StepLeavesRow DEF CallFails
  <2> QED
    BY <1>23, <1>0, <2>1 DEF CallFails, At, Fails, RowInv, CauseInv, Working, Over,
       Before, Inside, Present
<1>24. ASSUME FailRow(r) PROVE RowInv(r)'
  BY <1>24, <1>0 DEF FailRow, At, Writes, UpdateRequest, RoutedRow, FailedRow, SuccessRow,
     RowInv, CauseInv, Recorded, Present, Working, Failing, Over, Before, Inside
<1>25. ASSUME Report(r) PROVE RowInv(r)'
  <2>1. cause[r] \in FailCauses
    BY <1>25, <1>0 DEF Report, At, CauseInv, Failing
  <2>2. cause'[r] \notin {"success", None} /\ pc[r] = "emit" /\ pc'[r] \in {"release", "reply"}
    BY <1>25, <1>0, <2>1, VerdictOfFailure, NoneIsNoCause DEF Report, At, Fails
  <2>3. rows' = rows /\ lost' = lost /\ ran' = ran
    BY <1>25 DEF Report
  <2> QED
    BY <1>0, <2>2, <2>3 DEF RowInv, Recorded, Present, Over
<1>26. ASSUME Finalize(r) PROVE RowInv(r)'
  <2>1. rows' = rows /\ (Recorded(r)' => Recorded(r))
    BY <1>26, StepLeavesRow DEF Finalize
  <2> QED
    BY <1>26, <1>0, <2>1 DEF Finalize, At, RowInv, CauseInv, Working, Over, Before,
       Inside, Present
<1>27. ASSUME MarkSuccess(r) PROVE RowInv(r)'
  BY <1>27, <1>0 DEF MarkSuccess, At, Fails, Writes, UpdateRequest, RoutedRow, FailedRow,
     SuccessRow, RowInv, CauseInv, Recorded, Present, Working, Failing, Over, Before,
     Inside
<1>28. ASSUME Release(r) PROVE RowInv(r)'
  BY <1>28, <1>0 DEF Release, At, Leave, RowInv, CauseInv, Recorded, Present, Working,
     Failing, Over, Before, Inside
<1>29. ASSUME Answer(r) PROVE RowInv(r)'
  BY <1>29, <1>0 DEF Answer, At, RowInv, CauseInv, Recorded, Present, Working, Failing,
     Over, Before, Inside
<1>30. ASSUME ContextEnds(r) PROVE RowInv(r)'
  BY <1>30, <1>0 DEF ContextEnds, RowInv, CauseInv, Recorded, Present, Working, Failing,
     Over, Before, Inside
<1> QED
  BY <1>1, <1>2, <1>3, <1>4, <1>5, <1>6, <1>7, <1>8, <1>9, <1>10, <1>11, <1>12, <1>13,
     <1>14, <1>15, <1>16, <1>17, <1>18, <1>19, <1>20, <1>21, <1>22, <1>23, <1>24, <1>25,
     <1>26, <1>27, <1>28, <1>29, <1>30 DEF Receive, Handle

(* What the row says of backends: the primary from SavePolicy on, and after *)
(* MarkSuccess the one that answered.                                       *)
LEMMA RouteInvStep ==
  ASSUME PipelineTypeOK, NEW r \in Requests, LocalInv(r),
         Receive(r) \/ Handle(r) \/ ContextEnds(r)
  PROVE  RouteInv(r)'
<1> USE DEF runVars, routeVars, callVars, stepVars, endVars, ledgerVars
<1>0. /\ PipelineTypeOK /\ RouteInv(r) /\ RowInv(r) /\ CauseInv(r) /\ PlanInv(r)
      /\ pc \in [Requests -> Before \cup Inside \cup Ending]
      /\ cause \in [Requests -> Causes \cup {None}]
      /\ rows \in [Requests -> Row]
      /\ primary \in [Requests -> Backends \cup {None}]
      /\ served \in [Requests -> Backends \cup {None}]
      /\ err \in [Requests -> ErrorKinds \cup {None}]
      /\ Len(ran[r]) \in Nat
      /\ None \notin Causes /\ None \notin ErrorKinds /\ None \notin Backends
      /\ None # "success"
  BY NoneIsNoCause, LenProperties, PipelineAssumption
     DEF PipelineTypeOK, LedgerTypeOK, LocalInv, LedgerConstants, Results, Code
<1>1. ASSUME Invalid(r) PROVE RouteInv(r)'
  BY <1>1, <1>0 DEF Invalid, At, RouteInv, RowInv, PlanInv, StepsAt, CauseInv, Saved,
     Recorded, Present, Working, Failing, Over, Before, Inside
<1>2. ASSUME Arrive(r) PROVE RouteInv(r)'
  BY <1>2, <1>0 DEF Arrive, At, RouteInv, RowInv, PlanInv, StepsAt, CauseInv, Saved,
     Recorded, Present, Working, Failing, Over, Before, Inside
<1>3. ASSUME CreateRow(r) PROVE RouteInv(r)'
  BY <1>3, <1>0 DEF CreateRow, At, Writes, CreateRequest, RouteInv, RowInv, PlanInv,
     StepsAt, CauseInv, Saved, Recorded, Present, Working, Failing, Over, Before, Inside
<1>4. ASSUME Normalize(r) PROVE RouteInv(r)'
  <2>1. rows' = rows /\ (Recorded(r)' => Recorded(r))
    BY <1>4, StepLeavesRow DEF Normalize
  <2>2. Len(ran'[r]) = Len(ran[r]) + 1
    BY <1>4, <1>0, StepIsAppended DEF Normalize, StepTypes
  <2>3. Len(ran[r]) = 0
    BY <1>4, <1>0 DEF Normalize, At, PlanInv, StepsAt, Working, Before, Inside
  <2>4. /\ pc[r] # "snapshot" /\ ~Over(r)' /\ pc'[r] # "routeStep"
        /\ primary' = primary /\ served' = served
    BY <1>4, <1>0 DEF Normalize, At, Over
  <2> QED
    BY <1>4, <1>0, <2>1, <2>2, <2>3, <2>4 DEF Normalize, At, RouteInv, RowInv, CauseInv,
       Saved, Working, Over, Before, Inside, Present
<1>5. ASSUME PolicyAllow(r) PROVE RouteInv(r)'
  <2>1. rows' = rows /\ (Recorded(r)' => Recorded(r))
    BY <1>5, StepLeavesRow DEF PolicyAllow
  <2>2. Len(ran'[r]) = Len(ran[r]) + 1
    BY <1>5, <1>0, StepIsAppended DEF PolicyAllow, StepTypes
  <2>3. Len(ran[r]) = 1
    BY <1>5, <1>0 DEF PolicyAllow, At, PlanInv, StepsAt, Working, Before, Inside
  <2>4. /\ pc[r] # "snapshot" /\ ~Over(r)' /\ pc'[r] # "routeStep"
        /\ primary' = primary /\ served' = served
    BY <1>5, <1>0 DEF PolicyAllow, At, Over
  <2> QED
    BY <1>5, <1>0, <2>1, <2>2, <2>3, <2>4 DEF PolicyAllow, At, RouteInv, RowInv, CauseInv,
       Saved, Working, Over, Before, Inside, Present
<1>6. ASSUME PolicyReject(r) PROVE RouteInv(r)'
  <2>1. rows' = rows /\ (Recorded(r)' => Recorded(r))
    BY <1>6, StepLeavesRow DEF PolicyReject
  <2>2. Len(ran'[r]) = Len(ran[r]) + 1
    BY <1>6, <1>0, StepIsAppended DEF PolicyReject, StepTypes
  <2>3. Len(ran[r]) = 1
    BY <1>6, <1>0 DEF PolicyReject, At, PlanInv, StepsAt, Working, Before, Inside
  <2>4. /\ pc[r] # "snapshot" /\ ~Over(r)' /\ pc'[r] # "routeStep"
        /\ primary' = primary /\ served' = served
    BY <1>6, <1>0 DEF PolicyReject, At, Over
  <2> QED
    BY <1>6, <1>0, <2>1, <2>2, <2>3, <2>4 DEF PolicyReject, At, Fails, RouteInv, RowInv,
       CauseInv, Saved, Working, Over, Before, Inside, Present
<1>7. ASSUME AgentStub(r) PROVE RouteInv(r)'
  <2>1. rows' = rows /\ (Recorded(r)' => Recorded(r))
    BY <1>7, StepLeavesRow DEF AgentStub
  <2>2. Len(ran'[r]) = Len(ran[r]) + 1
    BY <1>7, <1>0, StepIsAppended DEF AgentStub, StepTypes
  <2>3. Len(ran[r]) = 2
    BY <1>7, <1>0 DEF AgentStub, At, PlanInv, StepsAt, Working, Before, Inside
  <2>4. /\ pc[r] # "snapshot" /\ ~Over(r)' /\ pc'[r] # "routeStep"
        /\ primary' = primary /\ served' = served
    BY <1>7, <1>0 DEF AgentStub, At, Over
  <2> QED
    BY <1>7, <1>0, <2>1, <2>2, <2>3, <2>4 DEF AgentStub, At, Fails, RouteInv, RowInv,
       CauseInv, Saved, Working, Over, Before, Inside, Present
<1>8. ASSUME PassGate(r) PROVE RouteInv(r)'
  BY <1>8, <1>0 DEF PassGate, At, Fails, Refuse, Admit, RouteInv, RowInv, PlanInv,
     StepsAt, CauseInv, Saved, Recorded, Present, Working, Failing, Over, Before, Inside
<1>9. ASSUME AdmissionStep(r) PROVE RouteInv(r)'
  <2>1. rows' = rows /\ (Recorded(r)' => Recorded(r))
    BY <1>9, StepLeavesRow DEF AdmissionStep
  <2>2. Len(ran'[r]) = Len(ran[r]) + 1
    BY <1>9, <1>0, StepIsAppended DEF AdmissionStep, StepTypes
  <2>3. Len(ran[r]) = 2
    BY <1>9, <1>0 DEF AdmissionStep, At, PlanInv, StepsAt, Working, Before, Inside
  <2>4. /\ pc[r] # "snapshot" /\ ~Over(r)' /\ pc'[r] # "routeStep"
        /\ primary' = primary /\ served' = served
    BY <1>9, <1>0 DEF AdmissionStep, At, Over
  <2> QED
    BY <1>9, <1>0, <2>1, <2>2, <2>3, <2>4 DEF AdmissionStep, At, RouteInv, RowInv,
       CauseInv, Saved, Working, Over, Before, Inside, Present
<1>10. ASSUME ReadHealth(r) PROVE RouteInv(r)'
  BY <1>10, <1>0 DEF ReadHealth, At, RouteInv, RowInv, PlanInv, StepsAt, CauseInv, Saved,
     Recorded, Present, Working, Failing, Over, Before, Inside
<1>11. ASSUME RouteOk(r) PROVE RouteInv(r)'
  <2>1. Len(ran[r]) = 3 /\ pc[r] = "route" /\ pc'[r] = "routeStep" /\ ran' = ran
    BY <1>11, <1>0 DEF RouteOk, At, PlanInv, StepsAt, Working, Inside
  <2>2. primary'[r] \in Backends
    BY <1>11, <1>0 DEF RouteOk, PipelineTypeOK
  <2>3. rows' = rows /\ rows[r].status # "success"
    BY <1>11, <1>0, <2>1 DEF RouteOk, RowInv, Over
  <2>4. rows[r].snapshot = None /\ rows[r].selected = None
    BY <1>0, <2>1 DEF RouteInv, Saved
  <2>5. ~Over(r)' /\ primary'[r] # None
    BY <1>0, <2>1, <2>2 DEF Over
  <2>6. ran'[r] = ran[r] /\ ~(Len(ran[r]) >= 4)
    BY <2>1
  <2>7. ~Saved(r)'
    BY <2>6 DEF Saved
  <2> QED
    BY <2>1, <2>3, <2>4, <2>5, <2>7 DEF RouteInv
<1>12. ASSUME RouteNone(r) PROVE RouteInv(r)'
  BY <1>12, <1>0 DEF RouteNone, At, Fails, RouteInv, RowInv, PlanInv, StepsAt, CauseInv,
     Saved, Recorded, Present, Working, Failing, Over, Before, Inside
<1>13. ASSUME RouteDead(r) PROVE RouteInv(r)'
  BY <1>13, <1>0 DEF RouteDead, At, Fails, RouteInv, RowInv, PlanInv, StepsAt, CauseInv,
     Saved, Recorded, Present, Working, Failing, Over, Before, Inside
<1>14. ASSUME RouteStep(r) PROVE RouteInv(r)'
  <2>1. rows' = rows /\ (Recorded(r)' => Recorded(r))
    BY <1>14, StepLeavesRow DEF RouteStep
  <2>2. Len(ran'[r]) = Len(ran[r]) + 1
    BY <1>14, <1>0, StepIsAppended DEF RouteStep, StepTypes
  <2>3. Len(ran[r]) = 3
    BY <1>14, <1>0 DEF RouteStep, At, PlanInv, StepsAt, Working, Before, Inside
  <2>4. /\ pc[r] # "snapshot" /\ ~Over(r)' /\ pc'[r] # "routeStep"
        /\ primary' = primary /\ served' = served
    BY <1>14, <1>0 DEF RouteStep, At, Over
  <2> QED
    BY <1>14, <1>0, <2>1, <2>2, <2>3, <2>4 DEF RouteStep, At, RouteInv, RowInv, CauseInv,
       Saved, Working, Over, Before, Inside, Present
<1>15. ASSUME SavePolicy(r) PROVE RouteInv(r)'
  BY <1>15, <1>0 DEF SavePolicy, At, Writes, UpdateRequest, RoutedRow, FailedRow,
     SuccessRow, RouteInv, RowInv, PlanInv, StepsAt, CauseInv, Saved, Recorded, Present,
     Working, Failing, Over, Before, Inside
<1>16. ASSUME RagUnconfigured(r) PROVE RouteInv(r)'
  BY <1>16, <1>0 DEF RagUnconfigured, At, Fails, RouteInv, RowInv, PlanInv, StepsAt,
     CauseInv, Saved, Recorded, Present, Working, Failing, Over, Before, Inside
<1>17. ASSUME Retrieve(r) PROVE RouteInv(r)'
  <2>1. rows' = rows /\ (Recorded(r)' => Recorded(r))
    BY <1>17, StepLeavesRow DEF Retrieve, StageOk, StageFails
  <2>2. Len(ran'[r]) = Len(ran[r]) + 1
    BY <1>17, <1>0, StepIsAppended DEF Retrieve, StageOk, StageFails, StepTypes
  <2>3. Len(ran[r]) = 4
    BY <1>17, <1>0 DEF Retrieve, StageOk, StageFails, At, PlanInv, StepsAt, Working,
       Before, Inside
  <2>4. /\ pc[r] # "snapshot" /\ ~Over(r)' /\ pc'[r] # "routeStep"
        /\ primary' = primary /\ served' = served
    BY <1>17, <1>0 DEF Retrieve, StageOk, StageFails, At, Over
  <2> QED
    BY <1>17, <1>0, <2>1, <2>2, <2>3, <2>4 DEF Retrieve, StageOk, StageFails, At, Fails,
       RouteInv, RowInv, CauseInv, Saved, Working, Over, Before, Inside, Present
<1>18. ASSUME Rerank(r) PROVE RouteInv(r)'
  <2>1. rows' = rows /\ (Recorded(r)' => Recorded(r))
    BY <1>18, StepLeavesRow DEF Rerank, StageOk, StageFails
  <2>2. Len(ran'[r]) = Len(ran[r]) + 1
    BY <1>18, <1>0, StepIsAppended DEF Rerank, StageOk, StageFails, StepTypes
  <2>3. Len(ran[r]) = 5
    BY <1>18, <1>0 DEF Rerank, StageOk, StageFails, At, PlanInv, StepsAt, Working, Before,
       Inside
  <2>4. /\ pc[r] # "snapshot" /\ ~Over(r)' /\ pc'[r] # "routeStep"
        /\ primary' = primary /\ served' = served
    BY <1>18, <1>0 DEF Rerank, StageOk, StageFails, At, Over
  <2> QED
    BY <1>18, <1>0, <2>1, <2>2, <2>3, <2>4 DEF Rerank, StageOk, StageFails, At, Fails,
       RouteInv, RowInv, CauseInv, Saved, Working, Over, Before, Inside, Present
<1>19. ASSUME InvokeOk(r) PROVE RouteInv(r)'
  <2>1. pc[r] = "invoke" /\ pc'[r] = "callStep" /\ ran' = ran /\ primary' = primary
    BY <1>19, <1>0 DEF InvokeOk, At
  <2>2. served'[r] = Target(r, at[r]) /\ Target(r, at[r]) \in Backends
    BY <1>19, <1>0, <2>1, CalledBackend DEF InvokeOk
  <2>3. rows' = rows /\ lost' = lost /\ rows[r].status # "success"
    BY <1>19, <1>0, <2>1 DEF InvokeOk, RowInv, Over
  <2> QED
    BY <1>0, <2>1, <2>2, <2>3 DEF RouteInv, Saved, Over, Recorded, Present
<1>20. ASSUME FallBack(r) PROVE RouteInv(r)'
  BY <1>20, <1>0 DEF FallBack, RouteInv, RowInv, PlanInv, StepsAt, CauseInv, Saved,
     Recorded, Present, Working, Failing, Over, Before, Inside
<1>21. ASSUME GiveUp(r) PROVE RouteInv(r)'
  <2>1. pc[r] = "invoke" /\ pc'[r] = "callStep" /\ ran' = ran /\ primary' = primary
    BY <1>21, <1>0 DEF GiveUp, At
  <2>2. err'[r] \in ErrorKinds /\ served' = served
    BY <1>21, <1>0, <2>1, CalledBackend DEF GiveUp
  <2>3. rows' = rows /\ lost' = lost /\ rows[r].status # "success"
    BY <1>21, <1>0, <2>1 DEF GiveUp, RowInv, Over
  <2> QED
    BY <1>0, <2>1, <2>2, <2>3 DEF RouteInv, Saved, Over, Recorded, Present
<1>22. ASSUME CallReturns(r) PROVE RouteInv(r)'
  <2>1. rows' = rows /\ (Recorded(r)' => Recorded(r))
    BY <1>22, StepLeavesRow DEF CallReturns
  <2>2. Len(ran'[r]) = Len(ran[r]) + 1
    BY <1>22, <1>0, StepIsAppended DEF CallReturns, StepTypes
  <2>3. Len(ran[r]) = (IF kind[r] = "rag" THEN 6 ELSE 4)
    BY <1>22, <1>0 DEF CallReturns, At, PlanInv, StepsAt, Working, Before, Inside
  <2>4. /\ pc[r] # "snapshot" /\ ~Over(r)' /\ pc'[r] # "routeStep"
        /\ primary' = primary /\ served' = served
    BY <1>22, <1>0 DEF CallReturns, At, Over
  <2> QED
    BY <1>22, <1>0, <2>1, <2>2, <2>3, <2>4 DEF CallReturns, At, RouteInv, RowInv,
       CauseInv, Saved, Working, Over, Before, Inside, Present
<1>23. ASSUME CallFails(r) PROVE RouteInv(r)'
  <2>1. rows' = rows /\ (Recorded(r)' => Recorded(r))
    BY <1>23, StepLeavesRow DEF CallFails
  <2>2. Len(ran'[r]) = Len(ran[r]) + 1
    BY <1>23, <1>0, StepIsAppended DEF CallFails, StepTypes
  <2>3. Len(ran[r]) = (IF kind[r] = "rag" THEN 6 ELSE 4)
    BY <1>23, <1>0 DEF CallFails, At, PlanInv, StepsAt, Working, Before, Inside
  <2>4. /\ pc[r] # "snapshot" /\ ~Over(r)' /\ pc'[r] # "routeStep"
        /\ primary' = primary /\ served' = served
    BY <1>23, <1>0 DEF CallFails, At, Over
  <2> QED
    BY <1>23, <1>0, <2>1, <2>2, <2>3, <2>4 DEF CallFails, At, Fails, RouteInv, RowInv,
       CauseInv, Saved, Working, Over, Before, Inside, Present
<1>24. ASSUME FailRow(r) PROVE RouteInv(r)'
  BY <1>24, <1>0 DEF FailRow, At, Writes, UpdateRequest, RoutedRow, FailedRow, SuccessRow,
     RouteInv, RowInv, PlanInv, StepsAt, CauseInv, Saved, Recorded, Present, Working,
     Failing, Over, Before, Inside
<1>25. ASSUME Report(r) PROVE RouteInv(r)'
  <2>1. cause[r] \in FailCauses
    BY <1>25, <1>0 DEF Report, At, CauseInv, Failing
  <2>2. cause'[r] \notin {"success", None} /\ pc[r] = "emit" /\ pc'[r] \in {"release", "reply"}
    BY <1>25, <1>0, <2>1, VerdictOfFailure, NoneIsNoCause DEF Report, At, Fails
  <2>3. rows' = rows /\ lost' = lost /\ ran' = ran
    BY <1>25 DEF Report
  <2> QED
    BY <1>25, <1>0, <2>2, <2>3 DEF Report, RouteInv, RowInv, Saved, Recorded, Present,
       Over
<1>26. ASSUME Finalize(r) PROVE RouteInv(r)'
  <2>1. rows' = rows /\ (Recorded(r)' => Recorded(r))
    BY <1>26, StepLeavesRow DEF Finalize
  <2>2. Len(ran'[r]) = Len(ran[r]) + 1
    BY <1>26, <1>0, StepIsAppended DEF Finalize, StepTypes
  <2>3. Len(ran[r]) = (IF kind[r] = "rag" THEN 7 ELSE 5)
    BY <1>26, <1>0 DEF Finalize, At, PlanInv, StepsAt, Working, Before, Inside
  <2>4. /\ pc[r] # "snapshot" /\ ~Over(r)' /\ pc'[r] # "routeStep"
        /\ primary' = primary /\ served' = served
    BY <1>26, <1>0 DEF Finalize, At, Over
  <2> QED
    BY <1>26, <1>0, <2>1, <2>2, <2>3, <2>4 DEF Finalize, At, RouteInv, RowInv, CauseInv,
       Saved, Working, Over, Before, Inside, Present
<1>27. ASSUME MarkSuccess(r) PROVE RouteInv(r)'
  BY <1>27, <1>0 DEF MarkSuccess, At, Fails, Writes, UpdateRequest, RoutedRow, FailedRow,
     SuccessRow, RouteInv, RowInv, PlanInv, StepsAt, CauseInv, Saved, Recorded, Present,
     Working, Failing, Over, Before, Inside
<1>28. ASSUME Release(r) PROVE RouteInv(r)'
  BY <1>28, <1>0 DEF Release, At, Leave, RouteInv, RowInv, PlanInv, StepsAt, CauseInv,
     Saved, Recorded, Present, Working, Failing, Over, Before, Inside
<1>29. ASSUME Answer(r) PROVE RouteInv(r)'
  BY <1>29, <1>0 DEF Answer, At, RouteInv, RowInv, PlanInv, StepsAt, CauseInv, Saved,
     Recorded, Present, Working, Failing, Over, Before, Inside
<1>30. ASSUME ContextEnds(r) PROVE RouteInv(r)'
  BY <1>30, <1>0 DEF ContextEnds, RouteInv, RowInv, PlanInv, StepsAt, CauseInv, Saved,
     Recorded, Present, Working, Failing, Over, Before, Inside
<1> QED
  BY <1>1, <1>2, <1>3, <1>4, <1>5, <1>6, <1>7, <1>8, <1>9, <1>10, <1>11, <1>12, <1>13,
     <1>14, <1>15, <1>16, <1>17, <1>18, <1>19, <1>20, <1>21, <1>22, <1>23, <1>24, <1>25,
     <1>26, <1>27, <1>28, <1>29, <1>30 DEF Receive, Handle

-----------------------------------------------------------------------------
(* The invariant is inductive. *)

(* A step of a request keeps the invariant of that request. *)
LEMMA OwnInvKept ==
  ASSUME PipelineTypeOK, NEW r \in Requests, LocalInv(r),
         Receive(r) \/ Handle(r) \/ ContextEnds(r)
  PROVE  LocalInv(r)'
BY CauseStep, AnswerStep, SlotStep, KindStep, PlanStep, LogStep, RowStep, RouteInvStep,
   DeadlineStep DEF LocalInv

(* No request has come yet: nothing is held, run, written or answered. *)
LEMMA InitKeeps == Init => IInv
<1> SUFFICES ASSUME Init PROVE IInv
  OBVIOUS
<1>1. \A S : <<>> \in Seq(S)
  BY EmptySeq
<1>2. NoRow \in Row
  BY DEF NoRow, Row
<1>3. PipelineTypeOK
  BY <1>1, <1>2 DEF Init, GateInit, LedgerInit, PipelineTypeOK, GateTypeOK, LedgerTypeOK,
     Before
<1>4. ASSUME NEW r \in Requests PROVE LocalInv(r)
  <2>1. /\ pc[r] = "idle" /\ kind[r] = "inference" /\ cause[r] = None /\ reply[r] = 0
        /\ traces[r] = <<>> /\ ran[r] = <<>> /\ steps[r] = <<>> /\ rows[r] = NoRow
        /\ primary[r] = None /\ served[r] = None /\ err[r] = None /\ r \notin holders
    BY DEF Init, GateInit, LedgerInit
  <2>2. Len(ran[r]) = 0 /\ Len(steps[r]) = 0
    BY <2>1
  <2>3. None # "success" /\ None # "gateway_timeout" /\ None \notin Verdicts
    BY NoneIsNoCause DEF Results, Code
  <2>4. CauseInv(r) /\ AnswerInv(r) /\ SlotInv(r) /\ KindInv(r)
    BY <2>1 DEF CauseInv, AnswerInv, SlotInv, KindInv, Working, Failing, Over, Before,
       Inside
  <2>5. PlanInv(r)
    <3>1. Len(ExecutionPlan(kind[r])) = 6
      BY <2>1, PlanOf
    <3> QED
      BY <2>1, <2>2, <3>1 DEF PlanInv, StepsAt, Over
  <2>6. LogInv(r)
    BY <2>2 DEF LogInv
  <2>7. RowInv(r) /\ RouteInv(r)
    BY <2>1, <2>2 DEF RowInv, RouteInv, Saved, Recorded, Present, Over, NoRow
  <2>8. DeadlineInv(r)
    BY <2>1, <2>3 DEF DeadlineInv, Failing
  <2> QED
    BY <2>4, <2>5, <2>6, <2>7, <2>8 DEF LocalInv
<1> QED
  BY <1>3, <1>4 DEF IInv

(* A step of the gateway is a step of one request, which keeps its own part *)
(* and touches no other.                                                    *)
LEMMA NextKeeps == IInv /\ [Next]_vars => IInv'
<1> SUFFICES ASSUME IInv, [Next]_vars PROVE IInv'
  OBVIOUS
<1>1. CASE Next
  <2>1. PICK q \in Requests : Receive(q) \/ Handle(q) \/ ContextEnds(q)
    BY <1>1 DEF Next
  <2>2. PipelineTypeOK'
    BY <2>1, TypesStep DEF IInv
  <2>3. ASSUME NEW r \in Requests PROVE LocalInv(r)'
    <3>1. CASE r = q
      BY <2>1, <3>1, OwnInvKept DEF IInv
    <3>2. CASE r # q
      BY <2>1, <3>2, OthersUnchanged, LocalInvKept DEF IInv
    <3> QED
      BY <3>1, <3>2
  <2> QED
    BY <2>2, <2>3 DEF IInv
<1>2. CASE UNCHANGED vars
  <2> USE <1>2 DEF vars, runVars, routeVars, callVars, stepVars, endVars, gateVars, ledgerVars
  <2>1. PipelineTypeOK'
    BY DEF IInv, PipelineTypeOK, GateTypeOK, LedgerTypeOK
  <2>2. ASSUME NEW r \in Requests PROVE LocalInv(r)'
    <3>1. Same(r)
      BY DEF Same
    <3> QED
      BY <3>1, LocalInvKept DEF IInv
  <2> QED
    BY <2>1, <2>2 DEF IInv
<1> QED
  BY <1>1, <1>2

(* The invariant holds in every reachable state.                            *)
LEMMA Invariant == Spec => []IInv
BY InitKeeps, NextKeeps, PTL DEF Spec

-----------------------------------------------------------------------------
(* What follows from it, for every instance. *)

(* Every variable keeps its type: among others, a call is only ever made to *)
(* a backend of the configuration, and the verdict of Report and the        *)
(* status of Answer are ones of the response table.                         *)
THEOREM TypesCorrect == Spec => []PipelineTypeOK
<1>1. IInv => PipelineTypeOK
  BY DEF IInv
<1> QED
  BY <1>1, Invariant, PTL

(* SlotHeldInside: on every way through Run a slot is held exactly from     *)
(* beginInferLoad to the deferred release.                                  *)
THEOREM SlotIsHeldInside == Spec => []SlotHeldInside
<1>1. IInv => SlotHeldInside
  BY DEF IInv, LocalInv, SlotInv, SlotHeldInside, Failing, Before, Inside
<1> QED
  BY <1>1, Invariant, PTL

(* What an answer tells of the end of a request: it is given by the last    *)
(* step, 200 to a success alone, and 504 to a timeout alone.                *)
LEMMA AnswerTells ==
  ASSUME IInv, NEW r \in Requests
  PROVE  /\ Answered(r) <=> pc[r] = "done"
         /\ pc[r] = "done" => reply[r] = Code[Outcome(r)] /\ Outcome(r) \in Results
         /\ pc[r] = "done" => (reply[r] = 200 <=> cause[r] = "success")
         /\ reply[r] = 504 => cause[r] = "gateway_timeout"
<1>1. reply[r] = IF pc[r] = "done" THEN Code[Outcome(r)] ELSE 0
  BY DEF IInv, LocalInv, AnswerInv
<1>2. pc[r] = "done" => cause[r] \in Verdicts \cup {None}
  BY DEF IInv, LocalInv, CauseInv
<1>3. /\ \A c \in Results : /\ Code[c] # 0
                            /\ Code[c] = 200 <=> c = "success"
                            /\ Code[c] = 504 <=> c = "gateway_timeout"
      /\ "invalid" \in Results /\ "method_not_allowed" \in Results
  BY DEF Results, Code
<1>4. pc[r] = "done" => Outcome(r) \in Results
  BY <1>2, <1>3 DEF Outcome, Verdicts
<1>5. (Outcome(r) = "success" <=> cause[r] = "success")
      /\ (Outcome(r) = "gateway_timeout" => cause[r] = "gateway_timeout")
  BY NoneIsNoCause DEF Outcome, Results, Code
<1> QED
  BY <1>1, <1>3, <1>4, <1>5 DEF Answered

(* StepsFollowPlan: Run's hard-coded order of stages is the plan of         *)
(* plan.go that it ignores.                                                 *)
THEOREM RunFollowsPlan == Spec => []StepsFollowPlan
<1>1. ASSUME IInv, NEW r \in Requests
      PROVE  /\ Len(ran[r]) <= Len(ExecutionPlan(kind[r]))
             /\ \A i \in DOMAIN ran[r] :
                  /\ ran[r][i].type = ExecutionPlan(kind[r])[i]
                  /\ ran[r][i].status = "failed" => i = Len(ran[r])
             /\ reply[r] = 200 => Len(ran[r]) = Len(ExecutionPlan(kind[r]))
  <2>1. DOMAIN ran[r] = 1 .. Len(ran[r])
    BY <1>1, LenProperties DEF IInv, PipelineTypeOK
  <2>2. PlanInv(r)
    BY <1>1 DEF IInv, LocalInv
  <2>3. reply[r] = 200 => pc[r] = "done" /\ cause[r] = "success"
    BY <1>1, AnswerTells DEF Answered
  <2> QED
    BY <2>1, <2>2, <2>3 DEF PlanInv, Over
<1>2. IInv => StepsFollowPlan
  BY <1>1 DEF StepsFollowPlan
<1> QED
  BY <1>2, Invariant, PTL

(* RowTellsOutcome: when no write was lost, the row of the ledger and the   *)
(* HTTP answer tell the same story, and a success names who answered.       *)
THEOREM RowAgreesWithAnswer == Spec => []RowTellsOutcome
<1>1. ASSUME IInv, NEW r \in Requests
      PROVE  /\ Answered(r) /\ Recorded(r) =>
                  rows[r].status = IF reply[r] = 200 THEN "success" ELSE "failed"
             /\ rows[r].status = "success" =>
                  /\ rows[r].selected = served[r]
                  /\ reply[r] \in {0, 200}
             /\ rows[r].status = "failed" => reply[r] # 200
  <2>1. RowInv(r) /\ RouteInv(r) /\ (pc[r] # "done" => reply[r] = 0)
    BY <1>1 DEF IInv, LocalInv, AnswerInv
  <2> QED
    BY <1>1, <2>1, AnswerTells DEF RowInv, RouteInv, Over
<1>2. IInv => RowTellsOutcome
  BY <1>1 DEF RowTellsOutcome
<1> QED
  BY <1>2, Invariant, PTL

(* OneVerdict: Run traces failures and writeAIResponse successes, and every *)
(* answered request has left one trace, of the result its client was told.  *)
THEOREM EveryAnswerTracedOnce == Spec => []OneVerdict
<1>1. ASSUME IInv, NEW r \in Requests, Answered(r)
      PROVE  Len(traces[r]) = 1 /\ Code[traces[r][1]] = reply[r]
  <2>1. AnswerInv(r)
    BY <1>1 DEF IInv, LocalInv
  <2>2. pc[r] = "done" /\ reply[r] = Code[Outcome(r)]
    BY <1>1, AnswerTells
  <2>3. traces[r] = <<Outcome(r)>>
    BY <2>1, <2>2 DEF AnswerInv
  <2> QED
    BY <2>2, <2>3
<1>2. IInv => OneVerdict
  BY <1>1 DEF OneVerdict
<1> QED
  BY <1>2, Invariant, PTL

(* LedgerReplaysRun: the step rows are the steps that ran, at their own     *)
(* indexes, however many writes are lost.                                   *)
THEOREM StepRowsReplayRun == Spec => []LedgerReplaysRun
<1>1. ASSUME IInv, NEW r \in Requests
      PROVE  /\ \A i \in DOMAIN steps[r] :
                  /\ steps[r][i].index < Len(ran[r])
                  /\ [type |-> steps[r][i].type, status |-> steps[r][i].status]
                       = ran[r][steps[r][i].index + 1]
                  /\ i > 1 => steps[r][i - 1].index < steps[r][i].index
             /\ Recorded(r) => Len(steps[r]) = Len(ran[r])
  <2>1. DOMAIN steps[r] = 1 .. Len(steps[r])
    BY <1>1, LenProperties DEF IInv, PipelineTypeOK, LedgerTypeOK
  <2>2. LogInv(r)
    BY <1>1 DEF IInv, LocalInv
  <2> QED
    BY <2>1, <2>2 DEF LogInv
<1>2. IInv => LedgerReplaysRun
  BY <1>1 DEF LedgerReplaysRun
<1> QED
  BY <1>2, Invariant, PTL

(* Answer504Justified: a 504 is said only of a budget that ran out, and was *)
(* counted for the scaling signal.                                          *)
THEOREM TimeoutAnswerIsJustified == Spec => []Answer504Justified
<1>1. ASSUME IInv, NEW r \in Requests, reply[r] = 504
      PROVE  Expired(r) /\ r \in noted
  BY <1>1, AnswerTells DEF IInv, LocalInv, DeadlineInv
<1>2. IInv => Answer504Justified
  BY <1>1 DEF Answer504Justified
<1> QED
  BY <1>2, Invariant, PTL

-----------------------------------------------------------------------------
(* What the readers of the ledger get. *)

(* Whether a step of a type has run is told by how far the request came.    *)
LEMMA HasRunTells ==
  ASSUME IInv, NEW r \in Requests
  PROVE  /\ HasRun(r, "route") <=> Len(ran[r]) >= 4
         /\ HasRun(r, "backend_call") => Len(ran[r]) >= 5
<1>1. /\ DOMAIN ran[r] = 1 .. Len(ran[r]) /\ Len(ran[r]) \in Nat
      /\ kind[r] \in {"inference", "rag", "agent"}
  BY LenProperties DEF IInv, PipelineTypeOK
<1>2. /\ Len(ran[r]) <= Len(ExecutionPlan(kind[r]))
      /\ \A i \in 1 .. Len(ran[r]) : ran[r][i].type = ExecutionPlan(kind[r])[i]
  BY DEF IInv, LocalInv, PlanInv
<1>3. /\ Len(ExecutionPlan(kind[r])) \in {3, 6, 8}
      /\ \A i \in 1 .. Len(ExecutionPlan(kind[r])) :
           /\ ExecutionPlan(kind[r])[i] = "route" <=> i = 4
           /\ ExecutionPlan(kind[r])[i] = "backend_call" => i >= 5
  <2>1. CASE kind[r] = "agent"
    BY <2>1 DEF ExecutionPlan
  <2>2. CASE kind[r] = "rag"
    BY <2>2 DEF ExecutionPlan
  <2>3. CASE kind[r] = "inference"
    BY <2>3 DEF ExecutionPlan
  <2> QED
    BY <1>1, <2>1, <2>2, <2>3
<1>4. \A i \in 1 .. Len(ran[r]) :
        /\ ran[r][i].type = "route" <=> i = 4
        /\ ran[r][i].type = "backend_call" => i >= 5
  BY <1>1, <1>2, <1>3
<1> QED
  BY <1>1, <1>4 DEF HasRun

(* ExactReplayFollowsRoute: whatever row an exact replay reads, it calls    *)
(* the backend that routing chose, or the one that answered if the write of *)
(* the choice was lost.                                                     *)
THEOREM ReplayCallsRoutedBackend == Spec => []ExactReplayFollowsRoute
<1>1. ASSUME IInv, NEW r \in Requests
      PROVE  /\ ExactCalls(r) \subseteq
                  {primary[r]} \cup (IF r \in lost THEN {served[r]} ELSE {})
             /\ HasRun(r, "backend_call") /\ Recorded(r) => ExactCalls(r) = {primary[r]}
  <2>1. RouteInv(r) /\ RowInv(r) /\ PlanInv(r)
    BY <1>1 DEF IInv, LocalInv
  <2>2. HasRun(r, "backend_call") => Saved(r) /\ primary[r] # None
    <3> SUFFICES ASSUME HasRun(r, "backend_call") PROVE Saved(r) /\ primary[r] # None
      OBVIOUS
    <3>1. pc[r] = "snapshot" => Len(ran[r]) = 4
      BY <2>1 DEF PlanInv, StepsAt, Working, Inside
    <3>2. Len(ran[r]) \in Nat
      BY <1>1, LenProperties DEF IInv, PipelineTypeOK
    <3>3. primary[r] # None <=> pc[r] = "routeStep" \/ Len(ran[r]) >= 4
      BY <2>1 DEF RouteInv
    <3>4. Len(ran[r]) >= 5
      BY <1>1, HasRunTells
    <3>5. Len(ran[r]) >= 4 /\ Len(ran[r]) # 4
      <4>1. \A n \in Nat : n >= 5 => n >= 4 /\ n # 4
        OBVIOUS
      <4> QED
        BY <3>2, <3>4, <4>1, Zenon
    <3>6. pc[r] # "snapshot"
      BY <3>1, <3>5
    <3> QED
      BY <3>3, <3>5, <3>6 DEF Saved
  <2>3. ASSUME Present(r), ExactBackend(rows[r]) # None
        PROVE  ExactBackend(rows[r]) = primary[r]
                \/ (r \in lost /\ ExactBackend(rows[r]) = served[r])
    <3>1. CASE rows[r].snapshot # None
      BY <2>1, <3>1 DEF RouteInv, ExactBackend
    <3>2. CASE rows[r].snapshot = None
      <4>1. ExactBackend(rows[r]) = rows[r].selected /\ rows[r].selected # None
        BY <2>3, <3>2 DEF ExactBackend
      <4>2. Saved(r)
        BY <2>1, <4>1 DEF RouteInv
      <4>3. primary[r] # None
        BY <2>1, <4>2 DEF RouteInv, Saved
      <4>4. r \in lost
        BY <2>1, <2>3, <3>2, <4>2, <4>3 DEF RouteInv, Recorded
      <4> QED
        BY <2>1, <4>1, <4>4 DEF RouteInv
    <3> QED
      BY <3>1, <3>2
  <2>4. HasRun(r, "backend_call") /\ Recorded(r) => ExactCalls(r) = {primary[r]}
    BY <2>1, <2>2 DEF RouteInv, ExactCalls, ExactBackend, Recorded
  <2> QED
    BY <2>3, <2>4 DEF ExactCalls
<1>2. IInv => ExactReplayFollowsRoute
  BY <1>1 DEF ExactReplayFollowsRoute
<1> QED
  BY <1>2, Invariant, PTL

(* ExportTellsRun: an exported item expects, of a success, the backend that *)
(* answered, and of a failure the primary if routing had chosen one.        *)
THEOREM ExportExpectsWhatRan == Spec => []ExportTellsRun
<1>1. ASSUME IInv, NEW r \in Requests, Answered(r), Recorded(r)
      PROVE  /\ reply[r] = 200 =>
                  \A b \in Backends : BackendMatch(rows[r], b) <=> b = served[r]
             /\ reply[r] # 200 =>
                  ExpectedBackend(rows[r]) = IF HasRun(r, "route") THEN primary[r] ELSE None
  <2>1. RouteInv(r) /\ RowInv(r) /\ pc[r] = "done"
    BY <1>1, AnswerTells DEF IInv, LocalInv
  <2>2. HasRun(r, "route") <=> Saved(r)
    BY <1>1, <2>1, HasRunTells DEF Saved
  <2>3. CASE reply[r] = 200
    <3>1. cause[r] = "success" /\ served[r] # None /\ rows[r].status = "success"
      BY <1>1, <2>1, <2>3, AnswerTells DEF RouteInv, RowInv, Over
    <3>2. rows[r].selected = served[r]
      BY <2>1, <3>1 DEF RouteInv
    <3> QED
      BY <2>3, <3>1, <3>2 DEF BackendMatch, ExpectedBackend
  <2>4. CASE reply[r] # 200
    <3>1. cause[r] # "success" /\ rows[r].status # "success"
      BY <1>1, <2>1, <2>4, AnswerTells DEF RowInv
    <3> QED
      BY <1>1, <2>1, <2>2, <2>4, <3>1 DEF RouteInv, ExpectedBackend
  <2> QED
    BY <2>3, <2>4
<1>2. IInv => ExportTellsRun
  BY <1>1 DEF ExportTellsRun
<1> QED
  BY <1>2, Invariant, PTL

-----------------------------------------------------------------------------
(* What a step may never do. *)

(* Nothing but the gate takes a request from it to a failure. *)
LEMMA OnlyGateRefuses ==
  ASSUME PipelineTypeOK, NEW r \in Requests, pc[r] = "admit", pc'[r] = "fail",
         Receive(r) \/ Handle(r) \/ ContextEnds(r)
  PROVE  PassGate(r)
<1>1. pc \in [Requests -> Before \cup Inside \cup Ending]
  BY DEF PipelineTypeOK
<1>2. ~(Invalid(r) \/ Arrive(r) \/ CreateRow(r) \/ Normalize(r) \/ PolicyAllow(r)
        \/ PolicyReject(r) \/ AgentStub(r) \/ AdmissionStep(r) \/ ReadHealth(r)
        \/ RouteOk(r) \/ RouteNone(r) \/ RouteDead(r) \/ RouteStep(r) \/ SavePolicy(r)
        \/ RagUnconfigured(r))
  BY DEF Invalid, Arrive, CreateRow, Normalize, PolicyAllow, PolicyReject, AgentStub,
     AdmissionStep, ReadHealth, RouteOk, RouteNone, RouteDead, RouteStep, SavePolicy,
     RagUnconfigured, At
<1>3. ~(Retrieve(r) \/ Rerank(r) \/ InvokeOk(r) \/ FallBack(r) \/ GiveUp(r)
        \/ CallReturns(r) \/ CallFails(r) \/ FailRow(r) \/ Report(r) \/ Finalize(r)
        \/ MarkSuccess(r) \/ Release(r) \/ Answer(r))
  BY DEF Retrieve, Rerank, StageOk, StageFails, InvokeOk, FallBack, GiveUp, CallReturns,
     CallFails, FailRow, Report, Finalize, MarkSuccess, Release, Answer, At
<1>4. ~ContextEnds(r)
  BY DEF ContextEnds
<1> QED
  BY <1>2, <1>3, <1>4 DEF Receive, Handle

(* Who is refused finds every slot taken, by requests that really run.      *)
LEMMA RefusedWhenFull ==
  ASSUME PipelineTypeOK, \A p \in holders : LocalInv(p),
         NEW q \in Requests, Receive(q) \/ Handle(q) \/ ContextEnds(q),
         NEW r \in Requests, LocalInv(r), pc[r] = "admit", pc'[r] = "fail"
  PROVE  Cardinality({p \in Requests \ {r} : Running(p)}) >= setting.limit
<1>1. q = r
  BY OthersUnchanged DEF Same
<1>2. PassGate(r)
  BY <1>1, OnlyGateRefuses
<1>3. Full
  BY <1>2 DEF PassGate, At, PipelineTypeOK
<1> DEFINE S == {p \in Requests \ {r} : Running(p)}
<1>4. holders \subseteq S
  <2> SUFFICES ASSUME NEW p \in holders PROVE p \in Requests \ {r} /\ Running(p)
    OBVIOUS
  <2>1. p \in Requests /\ SlotInv(p) /\ CauseInv(p) /\ SlotInv(r)
    BY DEF LocalInv, PipelineTypeOK, GateTypeOK
  <2>2. p # r
    BY <2>1 DEF SlotInv, Inside, Failing
  <2> QED
    BY <2>1, <2>2 DEF SlotInv, Running, Failing, Outside
<1>5. IsFiniteSet(S) /\ S \subseteq Requests
  BY GateAssumption, FS_Subset
<1>6. IsFiniteSet(holders) /\ Cardinality(holders) <= Cardinality(S)
  BY <1>4, <1>5, FS_Subset
<1>7. Cardinality(holders) \in Nat /\ Cardinality(S) \in Nat /\ setting.limit \in Int
  BY <1>5, <1>6, FS_CardinalityType, GateAssumption DEF PipelineTypeOK, GateTypeOK
<1>8. Cardinality(holders) >= setting.limit
  BY <1>3 DEF Full
<1> QED
  BY <1>6, <1>7, <1>8

(* OverloadIsReal: a request is told "inference concurrency limit exceeded" *)
(* only while queue_limit others are between beginInferLoad and             *)
(* their deferred release.                                                  *)
THEOREM OverloadIsTold == Spec => OverloadIsReal
<1>1. ASSUME IInv, Next, NEW r \in Requests, pc[r] = "admit", pc'[r] = "fail"
      PROVE  Cardinality({q \in Requests \ {r} : Running(q)}) >= setting.limit
  <2>1. PICK q \in Requests : Receive(q) \/ Handle(q) \/ ContextEnds(q)
    BY <1>1 DEF Next
  <2>2. PipelineTypeOK /\ LocalInv(r) /\ \A p \in holders : LocalInv(p)
    BY <1>1 DEF IInv, PipelineTypeOK, GateTypeOK
  <2> QED
    BY <1>1, <2>1, <2>2, RefusedWhenFull
<1>2. IInv /\ [Next]_vars =>
        [\A r \in Requests :
           pc[r] = "admit" /\ pc'[r] = "fail" =>
             Cardinality({q \in Requests \ {r} : Running(q)}) >= setting.limit]_vars
  BY <1>1
<1> QED
  BY <1>2, Invariant, PTL DEF Spec, OverloadIsReal

-----------------------------------------------------------------------------
(* The handler implements RequestLedger. *)

(* A request that has not reported has no settled row. *)
LEMMA RunsUntilReported ==
  ASSUME PipelineTypeOK, NEW r \in Requests, LocalInv(r), Present(r), Working(r) \/ pc[r] = "fail"
  PROVE  rows[r].status = "running"
<1>1. rows[r].status \in {"absent", "running", "success", "failed"}
  BY DEF PipelineTypeOK, LedgerTypeOK, Row, Settled
<1>2. ~Over(r) /\ pc[r] # "emit"
  BY DEF Working, Over, Before, Inside
<1>3. rows[r].status # "success" /\ rows[r].status # "failed"
  BY <1>2 DEF LocalInv, RowInv
<1> QED
  BY <1>1, <1>3 DEF Present

(* While a request works none of its steps has failed. *)
LEMMA NoFailureYet ==
  ASSUME PipelineTypeOK, NEW r \in Requests, LocalInv(r), Working(r)
  PROVE  Ledger!NoFailedStep(r)
<1>1. DOMAIN steps[r] = 1 .. Len(steps[r])
      /\ \A i \in 1 .. Len(steps[r]) : steps[r][i].index \in Nat
      /\ Len(ran[r]) \in Nat
  <2>1. steps[r] \in Seq(StepRow) /\ ran[r] \in Seq(Ran)
    BY DEF PipelineTypeOK, LedgerTypeOK
  <2>2. \A i \in 1 .. Len(steps[r]) : steps[r][i] \in StepRow
    BY <2>1, ElementOfSeq
  <2> QED
    BY <2>1, <2>2, LenProperties DEF StepRow
<1>2. ASSUME NEW i \in 1 .. Len(steps[r])
      PROVE  steps[r][i].status = "success"
  <2>1. /\ steps[r][i].index < Len(ran[r])
        /\ [type |-> steps[r][i].type, status |-> steps[r][i].status]
             = ran[r][steps[r][i].index + 1]
    BY DEF LocalInv, LogInv
  <2>2. steps[r][i].index + 1 \in 1 .. Len(ran[r])
    BY <1>1, <2>1
  <2>3. ran[r][steps[r][i].index + 1].status = "success"
    BY <2>2 DEF LocalInv, PlanInv
  <2> QED
    BY <2>1, <2>3
<1> QED
  BY <1>1, <1>2 DEF Ledger!NoFailedStep

(* A step that is written is logged in order, into a row that runs.         *)
LEMMA StepIsLogged ==
  ASSUME PipelineTypeOK, NEW r \in Requests, LocalInv(r), Working(r),
         NEW type \in StepTypes,
         NEW status \in {"success", "failed"}, RunStep(r, type, status),
         PlanInv(r)', kind'[r] = kind[r]
  PROVE  Ledger!Log(r) \/ UNCHANGED <<rows, steps>>
<1> DEFINE row == [index |-> Len(ran[r]), type |-> type, status |-> status]
<1>1. PICK ok \in BOOLEAN : Writes(r, ok) /\ AppendStep(r, row, ok)
  BY DEF RunStep, StepIndex
<1>2. CASE ~(ok /\ Present(r))
  BY <1>1, <1>2 DEF AppendStep
<1>3. CASE ok /\ Present(r)
  <2>1. steps' = [steps EXCEPT ![r] = Append(@, row)] /\ rows' = rows
    BY <1>1, <1>3 DEF AppendStep
  <2>2. Ledger!IsRunning(r) /\ Ledger!NoFailedStep(r)
    BY <1>3, RunsUntilReported, NoFailureYet DEF Ledger!IsRunning
  <2>3. \A i \in DOMAIN steps[r] : steps[r][i].index < row.index
    <3>1. DOMAIN steps[r] = 1 .. Len(steps[r])
      BY LenProperties DEF PipelineTypeOK, LedgerTypeOK
    <3> QED
      BY <3>1 DEF LocalInv, LogInv
  <2>4. Len(ran[r]) \in 0 .. 7
    <3>1. Len(ran[r]) \in Nat /\ Len(ran'[r]) = Len(ran[r]) + 1
      BY StepIsAppended
    <3>2. Len(ran'[r]) <= Len(ExecutionPlan(kind[r]))
      BY DEF PlanInv
    <3>3. kind[r] \in {"inference", "rag", "agent"}
      BY DEF PipelineTypeOK
    <3>4. Len(ExecutionPlan(kind[r])) \in 0 .. 8
      BY <3>3, PlanOf
    <3>5. ASSUME NEW n \in Nat, NEW m \in 0 .. 8, n + 1 <= m PROVE n \in 0 .. 7
      BY <3>5
    <3>6. Len(ran[r]) + 1 <= Len(ExecutionPlan(kind[r]))
      BY <3>1, <3>2
    <3> QED
      BY <3>1, <3>4, <3>5, <3>6
  <2>5. row \in [index : 0 .. Ledger!LongestPlan - 1, type : Ledger!StepTypes,
                 status : {"success", "failed"}]
    BY <2>4 DEF Ledger!LongestPlan, Ledger!StepTypes, StepTypes
  <2> QED
    BY <2>1, <2>2, <2>3, <2>5 DEF Ledger!Log
<1> QED
  BY <1>2, <1>3

(* Each action of the handler is a step of the ledger's life or leaves the  *)
(* ledger alone.                                                            *)
LEMMA HandlerImplementsLedger ==
  ASSUME PipelineTypeOK, NEW r \in Requests, LocalInv(r), PlanInv(r)',
         Receive(r) \/ Handle(r) \/ ContextEnds(r)
  PROVE  [Ledger!LedgerNext]_<<rows, steps>>
<1>0. /\ pc \in [Requests -> Before \cup Inside \cup Ending]
      /\ rows \in [Requests -> Row]
      /\ CauseInv(r) /\ RowInv(r) /\ RouteInv(r) /\ PlanInv(r)
  BY DEF LocalInv, PipelineTypeOK, LedgerTypeOK
<1>1. ASSUME CreateRow(r)
      PROVE  Ledger!Open(r) \/ UNCHANGED <<rows, steps>>
  <2>1. rows[r] = NoRow /\ NoRow = Ledger!NoRow
    BY <1>0, <1>1 DEF CreateRow, At, RowInv, NoRow, Ledger!NoRow
  <2> QED
    BY <1>1, <2>1 DEF CreateRow, CreateRequest, Ledger!Open
<1>2. ASSUME SavePolicy(r)
      PROVE  Ledger!NameBackend(r) \/ UNCHANGED <<rows, steps>>
  <2>1. PICK ok \in BOOLEAN : UpdateRequest(r, RoutedRow(r), ok)
    BY <1>2 DEF SavePolicy
  <2>2. CASE ~(ok /\ Present(r))
    BY <2>1, <2>2 DEF UpdateRequest
  <2>3. CASE ok /\ Present(r)
    <3>1. pc[r] = "snapshot" /\ Working(r)
      BY <1>2 DEF SavePolicy, At, Working, Inside
    <3>2. Ledger!IsRunning(r)
      BY <2>3, <3>1, RunsUntilReported DEF Ledger!IsRunning
    <3>3. rows[r].snapshot = None
      BY <1>0, <3>1 DEF RouteInv, Saved
    <3>4. primary[r] \in Backends
      <4>1. Len(ran[r]) = 4
        BY <1>0, <3>1 DEF PlanInv, StepsAt
      <4>2. primary[r] # None
        BY <1>0, <4>1 DEF RouteInv
      <4> QED
        BY <4>2 DEF PipelineTypeOK
    <3>5. rows' = [rows EXCEPT ![r].selected = primary[r], ![r].snapshot = primary[r]]
          /\ steps' = steps
      BY <1>0, <2>1, <2>3 DEF UpdateRequest, RoutedRow, Row
    <3> QED
      BY <3>2, <3>3, <3>4, <3>5 DEF Ledger!NameBackend
  <2> QED
    BY <2>2, <2>3
<1>3. ASSUME FailRow(r)
      PROVE  Ledger!Fail(r) \/ UNCHANGED <<rows, steps>>
  <2>1. PICK ok \in BOOLEAN : UpdateRequest(r, FailedRow(r), ok)
    BY <1>3 DEF FailRow
  <2>2. CASE ~(ok /\ Present(r))
    BY <2>1, <2>2 DEF UpdateRequest
  <2>3. CASE ok /\ Present(r)
    <3>1. Ledger!IsRunning(r)
      BY <1>3, <2>3, RunsUntilReported DEF FailRow, At, Ledger!IsRunning
    <3>2. rows' = [rows EXCEPT ![r].status = "failed"] /\ steps' = steps
      BY <1>0, <2>1, <2>3 DEF UpdateRequest, FailedRow
    <3> QED
      BY <3>1, <3>2 DEF Ledger!Fail
  <2> QED
    BY <2>2, <2>3
<1>4. ASSUME MarkSuccess(r)
      PROVE  Ledger!Succeed(r) \/ UNCHANGED <<rows, steps>>
  <2>1. PICK ok \in BOOLEAN : UpdateRequest(r, SuccessRow(r), ok)
    BY <1>4 DEF MarkSuccess
  <2>2. CASE ~(ok /\ Present(r))
    BY <2>1, <2>2 DEF UpdateRequest
  <2>3. CASE ok /\ Present(r)
    <3>1. pc[r] = "mark" /\ Working(r)
      BY <1>4 DEF MarkSuccess, At, Working, Inside
    <3>2. Ledger!IsRunning(r) /\ Ledger!NoFailedStep(r)
      BY <2>3, <3>1, RunsUntilReported, NoFailureYet DEF Ledger!IsRunning
    <3>3. served[r] \in Backends
      BY <1>0, <3>1 DEF RouteInv, PipelineTypeOK
    <3>4. rows' = [rows EXCEPT ![r].status = "success", ![r].selected = served[r]]
          /\ steps' = steps
      BY <1>0, <2>1, <2>3 DEF UpdateRequest, SuccessRow
    <3> QED
      BY <3>2, <3>3, <3>4 DEF Ledger!Succeed
  <2> QED
    BY <2>2, <2>3
<1>5. ASSUME \/ Normalize(r) \/ PolicyAllow(r) \/ PolicyReject(r) \/ AgentStub(r)
             \/ AdmissionStep(r) \/ RouteStep(r) \/ Retrieve(r) \/ Rerank(r)
             \/ CallReturns(r) \/ CallFails(r) \/ Finalize(r)
      PROVE  Ledger!Log(r) \/ UNCHANGED <<rows, steps>>
  <2>1. Working(r)
    BY <1>5 DEF Normalize, PolicyAllow, PolicyReject, AgentStub, AdmissionStep, RouteStep,
       Retrieve, Rerank, StageOk, StageFails, CallReturns, CallFails, Finalize, At, Working,
       Before, Inside
  <2>2. /\ kind' = kind
        /\ \E type \in StepTypes, status \in {"success", "failed"} : RunStep(r, type, status)
    BY <1>5 DEF Normalize, PolicyAllow, PolicyReject, AgentStub, AdmissionStep, RouteStep,
       Retrieve, Rerank, StageOk, StageFails, CallReturns, CallFails, Finalize, StepTypes,
       runVars
  <2> QED
    BY <2>1, <2>2, StepIsLogged
<1>6. ASSUME \/ Invalid(r) \/ Arrive(r) \/ PassGate(r) \/ ReadHealth(r) \/ RouteOk(r)
             \/ RouteNone(r) \/ RouteDead(r) \/ RagUnconfigured(r) \/ InvokeOk(r)
             \/ FallBack(r) \/ GiveUp(r) \/ Report(r) \/ Release(r) \/ Answer(r)
             \/ ContextEnds(r)
      PROVE  UNCHANGED <<rows, steps>>
  BY <1>6 DEF Invalid, Arrive, PassGate, ReadHealth, RouteOk, RouteNone, RouteDead,
     RagUnconfigured, InvokeOk, FallBack, GiveUp, Report, Release, Answer, ContextEnds,
     ledgerVars
<1>7. \/ UNCHANGED <<rows, steps>>
      \/ Ledger!Open(r) \/ Ledger!Log(r) \/ Ledger!NameBackend(r)
      \/ Ledger!Succeed(r) \/ Ledger!Fail(r)
  BY <1>1, <1>2, <1>3, <1>4, <1>5, <1>6 DEF Receive, Handle
<1> QED
  BY <1>7 DEF Ledger!LedgerNext

(* LedgerKept: whatever the handler does and whichever writes are lost, the *)
(* ledger that `infercore trace`, replay and export-eval read keeps the     *)
(* promises of RequestLedger.                                               *)
THEOREM HandlerKeepsLedger == Spec => LedgerKept
<1>1. Init => Ledger!LedgerInit
  BY DEF Init, LedgerInit, Ledger!LedgerInit, NoRow, Ledger!NoRow
<1>2. IInv /\ IInv' /\ [Next]_vars => [Ledger!LedgerNext]_<<rows, steps>>
  <2> SUFFICES ASSUME IInv, IInv', [Next]_vars
               PROVE  [Ledger!LedgerNext]_<<rows, steps>>
    OBVIOUS
  <2>1. CASE Next
    <3>1. PICK r \in Requests : Receive(r) \/ Handle(r) \/ ContextEnds(r)
      BY <2>1 DEF Next
    <3>2. PipelineTypeOK /\ LocalInv(r) /\ PlanInv(r)'
      BY DEF IInv, LocalInv
    <3> QED
      BY <3>1, <3>2, HandlerImplementsLedger
  <2>2. CASE UNCHANGED vars
    BY <2>2 DEF vars, ledgerVars
  <2> QED
    BY <2>1, <2>2
<1> QED
  BY <1>1, <1>2, Invariant, PTL DEF Spec, LedgerKept, Ledger!LedgerSpec

-----------------------------------------------------------------------------
(* The process.  What is shown above of a request holds while its handler   *)
(* runs, and a drain, a death or a restart leaves the others as they are.   *)

(* A request whose handler is gone, by its return or with the process.      *)
Past(r) == r \in closed \cup gone

(* What its end leaves behind: an answer, if it returned, and a settled row *)
(* unless a write was lost or the memory ledger went with the process.      *)
PastInv(r) ==
  /\ pc[r] = "done" /\ r \notin holders
  /\ r \in closed => /\ Answered(r)
                     /\ Present(r) => rows[r].status \in Settled \/ r \in lost

ProcessInv ==
  /\ PipelineTypeOK
  /\ life \in {"serving", "draining", "closing", "exited", "crashed"}
  /\ closed \subseteq Requests /\ gone \subseteq Requests
  /\ \A r \in Requests : IF Past(r) THEN PastInv(r) ELSE LocalInv(r)
  /\ life \notin {"serving", "draining"} => Open = {}

-----------------------------------------------------------------------------
(* A step of one handler leaves the other requests as they stand. *)
LEMMA RequestStepKeeps ==
  ASSUME ProcessInv, NEW q \in Requests, ~Past(q),
         Receive(q) \/ Handle(q) \/ ContextEnds(q), UNCHANGED processVars,
         life \in {"serving", "draining"} \/ q \in Open
  PROVE  ProcessInv'
<1>1. PipelineTypeOK'
  BY TypesStep DEF ProcessInv
<1>2. ASSUME NEW r \in Requests PROVE (IF Past(r) THEN PastInv(r) ELSE LocalInv(r))'
  <2>1. CASE r = q
    BY <2>1, OwnInvKept DEF ProcessInv, Past, processVars
  <2>2. CASE r # q
    <3>1. Same(r)
      BY <2>2, OthersUnchanged DEF ProcessInv
    <3>2. CASE Past(r)
      BY <3>1, <3>2 DEF ProcessInv, Past, PastInv, processVars, Same, Answered, Present
    <3>3. CASE ~Past(r)
      BY <3>1, <3>3, LocalInvKept DEF ProcessInv, Past, processVars
    <3> QED
      BY <3>2, <3>3
  <2> QED
    BY <2>1, <2>2
<1> QED
  BY <1>1, <1>2 DEF ProcessInv, processVars

(* What a handler forgets at its end is its own. *)
LEMMA ForgetKeeps ==
  ASSUME PipelineTypeOK, NEW S \in SUBSET Requests, Forget(S)
  PROVE  /\ kind' \in [Requests -> {"inference", "rag", "agent"}]
         /\ ctx' \in [Requests -> {"live", "expired", "canceled"}]
         /\ snap' \in [Requests -> SUBSET Backends]
         /\ primary' \in [Requests -> Backends \cup {None}]
         /\ at' \in [Requests -> 0 .. Len(Rules)]
         /\ err' \in [Requests -> ErrorKinds \cup {None}]
         /\ served' \in [Requests -> Backends \cup {None}]
         /\ ran' \in [Requests -> Seq(Ran)]
         /\ cause' \in [Requests -> Causes \cup {None}]
         /\ traces' \in [Requests -> Seq(Results)]
         /\ late' \subseteq Requests /\ noted' \subseteq Requests
         /\ \A r \in Requests \ S :
              /\ kind'[r] = kind[r] /\ ctx'[r] = ctx[r] /\ primary'[r] = primary[r]
              /\ err'[r] = err[r] /\ served'[r] = served[r] /\ ran'[r] = ran[r]
              /\ cause'[r] = cause[r] /\ traces'[r] = traces[r]
              /\ (r \in noted') = (r \in noted)
<1>1. \A T : <<>> \in Seq(T)
  BY EmptySeq
<1>2. 0 \in 0 .. Len(Rules)
  <2>1. Len(Rules) \in Nat
    BY PipelineAssumption, LenProperties
  <2> QED
    BY <2>1
<1> USE DEF Forget, Cleared, PipelineTypeOK
<1>3. /\ kind' \in [Requests -> {"inference", "rag", "agent"}]
      /\ ctx' \in [Requests -> {"live", "expired", "canceled"}]
      /\ snap' \in [Requests -> SUBSET Backends]
      /\ primary' \in [Requests -> Backends \cup {None}]
  OBVIOUS
<1>4. /\ at' \in [Requests -> 0 .. Len(Rules)]
      /\ err' \in [Requests -> ErrorKinds \cup {None}]
      /\ served' \in [Requests -> Backends \cup {None}]
  BY <1>2
<1>5. /\ ran' \in [Requests -> Seq(Ran)] /\ traces' \in [Requests -> Seq(Results)]
      /\ cause' \in [Requests -> Causes \cup {None}]
  BY <1>1
<1>6. late' \subseteq Requests /\ noted' \subseteq Requests
  OBVIOUS
<1>7. \A r \in Requests \ S :
        /\ kind'[r] = kind[r] /\ ctx'[r] = ctx[r] /\ primary'[r] = primary[r]
        /\ err'[r] = err[r] /\ served'[r] = served[r] /\ ran'[r] = ran[r]
        /\ cause'[r] = cause[r] /\ traces'[r] = traces[r]
        /\ (r \in noted') = (r \in noted)
  OBVIOUS
<1> QED
  BY <1>3, <1>4, <1>5, <1>6, <1>7

(* withOptionalInfercoreAuth answers without the handler. *)
LEMMA RefusalKeeps ==
  ASSUME ProcessInv, NEW q \in Requests, Refused401(q)
  PROVE  ProcessInv'
<1> USE DEF runVars, routeVars, callVars, stepVars, gateVars, ledgerVars, meterVars
<1>0. pc[q] = "idle" /\ ~Past(q) /\ PipelineTypeOK /\ LocalInv(q)
  BY DEF Refused401, At, ProcessInv, PastInv
<1>1. PipelineTypeOK'
  <2>1. Unauthorized \in Nat
    BY DEF Unauthorized
  <2> QED
    BY <1>0, <2>1 DEF Refused401, At, PipelineTypeOK, GateTypeOK, LedgerTypeOK, Before,
       Inside, Ending
<1>2. q \notin holders /\ ~Present(q)
  BY <1>0 DEF LocalInv, SlotInv, RowInv, Inside, Failing, Present, NoRow
<1>3. PastInv(q)' /\ Past(q)'
  <2>1. pc'[q] = "done" /\ reply'[q] = 401 /\ holders' = holders /\ rows' = rows
        /\ closed' = closed \cup {q}
    BY <1>0 DEF Refused401, At, PipelineTypeOK, Unauthorized
  <2> QED
    BY <1>2, <2>1 DEF PastInv, Past, Answered, Present
<1>4. ASSUME NEW r \in Requests, r # q
      PROVE  (IF Past(r) THEN PastInv(r) ELSE LocalInv(r))'
  <2>1. Same(r) /\ Past(r)' = Past(r) /\ (r \in closed') = (r \in closed)
    BY <1>0, <1>4 DEF Refused401, At, PipelineTypeOK, Same, Past
  <2>2. CASE Past(r)
    BY <2>1, <2>2 DEF ProcessInv, Past, PastInv, Same, Answered, Present
  <2>3. CASE ~Past(r)
    BY <2>1, <2>3, LocalInvKept DEF ProcessInv
  <2> QED
    BY <2>1, <2>2, <2>3
<1> QED
  BY <1>1, <1>3, <1>4 DEF ProcessInv, Refused401

(* The handler returns: what it answered and recorded stays. *)
LEMMA RecordKeeps ==
  ASSUME ProcessInv, NEW q \in Requests, Record(q)
  PROVE  ProcessInv'
<1> USE DEF gateVars, ledgerVars
<1>0. /\ pc[q] = "done" /\ ~Past(q) /\ q \in Open /\ PipelineTypeOK /\ LocalInv(q)
      /\ Forget({q}) /\ UNCHANGED <<pc, reply, lost, holders, rows, steps, life, gone>>
      /\ closed' = closed \cup {q}
  BY DEF Record, Open, Past, ProcessInv
<1>1. PipelineTypeOK'
  BY <1>0, ForgetKeeps DEF Record, PipelineTypeOK, GateTypeOK, LedgerTypeOK
<1>2. PastInv(q)' /\ Past(q)'
  <2>1. reply[q] # 0
    <3>1. reply[q] = Code[Outcome(q)] /\ cause[q] \in Verdicts \cup {None}
      BY <1>0 DEF LocalInv, AnswerInv, CauseInv
    <3>2. Outcome(q) \in Results
      BY <3>1 DEF Outcome, Verdicts, Rejections, Results, Code
    <3> QED
      BY <3>1, <3>2 DEF Results, Code
  <2>2. Present(q) => rows[q].status \in Settled \/ q \in lost
    BY <1>0 DEF LocalInv, RowInv, Recorded, Over, Settled
  <2>3. q \notin holders
    BY <1>0 DEF LocalInv, SlotInv, Inside, Failing
  <2> QED
    BY <1>0, <2>1, <2>2, <2>3 DEF PastInv, Past, Answered, Present
<1>3. ASSUME NEW r \in Requests, r # q
      PROVE  (IF Past(r) THEN PastInv(r) ELSE LocalInv(r))'
  <2>1. Same(r) /\ Past(r)' = Past(r) /\ (r \in closed') = (r \in closed)
    <3>1. r \in Requests \ {q}
      BY <1>3
    <3> QED
      BY <1>0, <3>1, ForgetKeeps DEF Same, Past
  <2>2. CASE Past(r)
    BY <2>1, <2>2 DEF ProcessInv, Past, PastInv, Same, Answered, Present
  <2>3. CASE ~Past(r)
    BY <2>1, <2>3, LocalInvKept DEF ProcessInv
  <2> QED
    BY <2>1, <2>2, <2>3
<1>4. life' = life /\ (Open = {} => Open' = {})
  BY <1>0
<1> QED
  BY <1>0, <1>1, <1>2, <1>3, <1>4 DEF ProcessInv

(* A signal, the end of the drain and a restart touch no request. *)
LEMMA LifeKeeps ==
  ASSUME ProcessInv, Signal \/ Drained \/ Restart \/ UNCHANGED gatewayVars
  PROVE  ProcessInv'
<1>1. UNCHANGED <<vars, closed, gone>>
  BY DEF Signal, Drained, Restart, gatewayVars, processVars, meterVars
<1>2. PipelineTypeOK'
  BY <1>1 DEF ProcessInv, vars, runVars, routeVars, callVars, stepVars, endVars, gateVars,
     ledgerVars, PipelineTypeOK, GateTypeOK, LedgerTypeOK
<1>3. ASSUME NEW r \in Requests PROVE (IF Past(r) THEN PastInv(r) ELSE LocalInv(r))'
  <2>1. Same(r) /\ Past(r)' = Past(r) /\ (r \in closed') = (r \in closed)
    BY <1>1 DEF vars, runVars, routeVars, callVars, stepVars, endVars, gateVars,
       ledgerVars, Same, Past
  <2>2. CASE Past(r)
    BY <2>1, <2>2 DEF ProcessInv, Past, PastInv, Same, Answered, Present
  <2>3. CASE ~Past(r)
    BY <2>1, <2>3, LocalInvKept DEF ProcessInv
  <2> QED
    BY <2>1, <2>2, <2>3
<1>4. Open' = Open
  BY <1>1 DEF vars, Open
<1>5. /\ life' \in {"serving", "draining", "closing", "exited", "crashed"}
      /\ life' \notin {"serving", "draining"} => Open = {}
  BY DEF ProcessInv, Signal, Drained, Restart, gatewayVars, processVars
<1> QED
  BY <1>1, <1>2, <1>3, <1>4, <1>5 DEF ProcessInv

(* A memory ledger that ends with the process takes the rows with it; the   *)
(* requests that had not come yet had none.                                 *)
LEMMA LedgerLeftKeeps ==
  ASSUME PipelineTypeOK, LedgerLeft, NEW r \in Requests
  PROVE  /\ LedgerTypeOK'
         /\ rows'[r] = rows[r] \/ rows'[r].status = "absent"
         /\ LocalInv(r) /\ pc[r] = "idle" => rows'[r] = rows[r] /\ steps'[r] = steps[r]
<1>1. NoRow \in Row /\ NoRow.status = "absent" /\ \A T : <<>> \in Seq(T)
  BY EmptySeq DEF NoRow, Row
<1>2. LedgerTypeOK'
  BY <1>1 DEF LedgerLeft, ledgerVars, PipelineTypeOK, LedgerTypeOK
<1>3. rows'[r] = rows[r] \/ rows'[r].status = "absent"
  BY <1>1 DEF LedgerLeft, ledgerVars
<1>4. ASSUME LocalInv(r), pc[r] = "idle"
      PROVE  rows'[r] = rows[r] /\ steps'[r] = steps[r]
  <2>1. rows[r] = NoRow /\ Len(steps[r]) = 0
    BY <1>4 DEF LocalInv, RowInv
  <2>2. steps[r] = <<>>
    BY <2>1, EmptySeq DEF PipelineTypeOK, LedgerTypeOK
  <2> QED
    BY <2>1, <2>2 DEF LedgerLeft, ledgerVars
<1> QED
  BY <1>2, <1>3, <1>4

(* The process ends after the drain: no handler runs. *)
LEMMA ExitKeeps ==
  ASSUME ProcessInv, Exit
  PROVE  ProcessInv'
<1>1. /\ life = "closing" /\ life' = "exited" /\ LedgerLeft /\ Open = {}
      /\ UNCHANGED <<pc, runVars, routeVars, callVars, stepVars, endVars, gateVars,
                     closed, gone>>
  BY DEF Exit, ProcessInv
<1> USE DEF runVars, routeVars, callVars, stepVars, endVars, gateVars
<1>2. PipelineTypeOK /\ LedgerTypeOK'
  <2>1. CASE Requests = {}
    BY <1>1, <2>1 DEF ProcessInv, PipelineTypeOK, LedgerTypeOK, LedgerLeft, ledgerVars
  <2>2. CASE Requests # {}
    BY <1>1, <2>2, LedgerLeftKeeps DEF ProcessInv
  <2> QED
    BY <2>1, <2>2
<1>3. PipelineTypeOK'
  BY <1>1, <1>2 DEF PipelineTypeOK, GateTypeOK
<1>4. ASSUME NEW r \in Requests PROVE (IF Past(r) THEN PastInv(r) ELSE LocalInv(r))'
  <2>1. CASE Past(r)
    <3>1. /\ pc'[r] = pc[r] /\ reply'[r] = reply[r] /\ UNCHANGED <<closed, gone, lost, holders>>
          /\ rows'[r] = rows[r] \/ rows'[r].status = "absent"
      BY <1>1, <1>2, LedgerLeftKeeps
    <3> QED
      BY <2>1, <3>1 DEF ProcessInv, Past, PastInv, Answered, Present
  <2>2. CASE ~Past(r)
    <3>1. pc[r] = "idle" /\ LocalInv(r)
      BY <1>1, <2>2 DEF Open, Past, ProcessInv
    <3>2. Same(r) /\ ~Past(r)'
      BY <1>1, <1>2, <2>2, <3>1, LedgerLeftKeeps DEF Same, Past
    <3> QED
      BY <3>1, <3>2, LocalInvKept
  <2> QED
    BY <2>1, <2>2
<1>5. Open' = Open
  BY <1>1 DEF Open
<1> QED
  BY <1>1, <1>3, <1>4, <1>5 DEF ProcessInv

(* The process dies: the handlers at work are gone, and what they wrote     *)
(* remains in an SQL ledger.                                                *)
LEMMA CrashKeeps ==
  ASSUME ProcessInv, Crash
  PROVE  ProcessInv'
<1>1. /\ life' = "crashed" /\ LedgerLeft /\ gone' = gone \cup Open /\ holders' = {}
      /\ pc' = Cleared(pc, Open, "done") /\ Forget(Open)
      /\ UNCHANGED <<lost, reply, setting, shed, refused, closed>>
  BY DEF Crash
<1>2. Open \subseteq Requests /\ PipelineTypeOK
  BY DEF Open, ProcessInv
<1>3. LedgerTypeOK'
  <2>1. CASE Requests = {}
    BY <1>1, <1>2, <2>1 DEF PipelineTypeOK, LedgerTypeOK, LedgerLeft, ledgerVars
  <2>2. CASE Requests # {}
    BY <1>1, <1>2, <2>2, LedgerLeftKeeps
  <2> QED
    BY <2>1, <2>2
<1>4. PipelineTypeOK'
  <2>1. pc' \in [Requests -> Before \cup Inside \cup Ending]
    BY <1>1, <1>2 DEF Cleared, PipelineTypeOK, Ending
  <2>2. GateTypeOK'
    BY <1>1, <1>2 DEF PipelineTypeOK, GateTypeOK
  <2>3. reply' \in [Requests -> Nat] /\ lost' \subseteq Requests
    BY <1>1, <1>2 DEF PipelineTypeOK
  <2> QED
    BY <1>1, <1>2, <1>3, <2>1, <2>2, <2>3, ForgetKeeps DEF PipelineTypeOK
<1>5. ASSUME NEW r \in Requests PROVE (IF Past(r) THEN PastInv(r) ELSE LocalInv(r))'
  <2>1. rows'[r] = rows[r] \/ rows'[r].status = "absent"
    BY <1>1, <1>2, LedgerLeftKeeps
  <2>2. CASE r \in Open
    BY <1>1, <1>2, <2>2 DEF Open, Cleared, Past, PastInv
  <2>3. CASE Past(r)
    <3>1. pc'[r] = pc[r] /\ reply'[r] = reply[r] /\ Past(r)'
      BY <1>1, <2>3 DEF Cleared, Past, Open
    <3> QED
      BY <1>1, <2>1, <2>3, <3>1 DEF ProcessInv, Past, PastInv, Answered, Present
  <2>4. CASE r \notin Open /\ ~Past(r)
    <3>1. pc[r] = "idle" /\ LocalInv(r) /\ r \in Requests \ Open
      BY <2>4 DEF Open, Past, ProcessInv
    <3>2. /\ pc'[r] = pc[r] /\ rows'[r] = rows[r] /\ steps'[r] = steps[r]
          /\ reply'[r] = reply[r] /\ r \notin holders /\ r \notin holders' /\ ~Past(r)'
      BY <1>1, <1>2, <2>4, <3>1, LedgerLeftKeeps
      DEF Cleared, Past, LocalInv, SlotInv, Inside, Failing
    <3>3. Same(r)
      BY <1>1, <1>2, <3>1, <3>2, ForgetKeeps DEF Same
    <3> QED
      BY <3>1, <3>2, <3>3, LocalInvKept
  <2> QED
    BY <2>2, <2>3, <2>4
<1>6. Open' = {}
  BY <1>1 DEF Open, Cleared
<1>7. closed' \subseteq Requests /\ gone' \subseteq Requests
  BY <1>1, <1>2 DEF ProcessInv
<1> QED
  BY <1>1, <1>4, <1>5, <1>6, <1>7 DEF ProcessInv

-----------------------------------------------------------------------------
(* The process starts with no request, and every step keeps the invariant. *)
LEMMA ProcessInvariant == GatewaySpec => []ProcessInv
<1>1. GatewayInit => ProcessInv
  BY InitKeeps DEF GatewayInit, IInv, ProcessInv, Past
<1>2. ProcessInv /\ [GatewayNext]_gatewayVars => ProcessInv'
  <2> SUFFICES ASSUME ProcessInv, [GatewayNext]_gatewayVars PROVE ProcessInv'
    OBVIOUS
  <2>1. ASSUME NEW r \in Requests, Authorized(r) PROVE ProcessInv'
    <3>1. pc[r] = "idle" /\ Receive(r) /\ UNCHANGED processVars
          /\ life \in {"serving", "draining"}
      BY <2>1 DEF Authorized, Receive, Invalid, Arrive, At
    <3>2. ~Past(r)
      BY <3>1 DEF ProcessInv, PastInv
    <3> QED
      BY <3>1, <3>2, RequestStepKeeps
  <2>2. ASSUME NEW r \in Requests, Serve(r) \/ LoseContext(r) PROVE ProcessInv'
    <3>1. r \in Open /\ (Handle(r) \/ ContextEnds(r)) /\ UNCHANGED processVars
      BY <2>2 DEF Serve, LoseContext
    <3> QED
      BY <3>1, RequestStepKeeps DEF Open, Past
  <2> QED
    BY <2>1, <2>2, RefusalKeeps, RecordKeeps, LifeKeeps, ExitKeeps, CrashKeeps
    DEF GatewayNext
<1> QED
  BY <1>1, <1>2, PTL DEF GatewaySpec

(* GracefulStop: http.Server.Shutdown waits for the handlers, and only then *)
(* the deferred Server.Shutdown closes the ledger: whoever was let in has   *)
(* been answered, and its row is settled.                                   *)
THEOREM StopIsGraceful == GatewaySpec => []GracefulStop
<1>1. ASSUME ProcessInv, life \in {"closing", "exited"}, NEW r \in Requests,
             pc[r] # "idle", r \notin gone
      PROVE  /\ Answered(r) /\ r \in closed
             /\ Present(r) => rows[r].status \in Settled \/ r \in lost
  <2>1. r \in closed
    BY <1>1 DEF ProcessInv, Open
  <2> QED
    BY <1>1, <2>1 DEF ProcessInv, Past, PastInv
<1>2. ProcessInv => GracefulStop
  BY <1>1 DEF GracefulStop
<1> QED
  BY <1>2, ProcessInvariant, PTL

(* UnfinishedRowExplained: a row that says running has a handler at work,   *)
(* or lost a write, or is one of a process that died.                       *)
THEOREM UnfinishedRowIsExplained == GatewaySpec => []UnfinishedRowExplained
<1>1. ASSUME ProcessInv, NEW r \in Requests, rows[r].status = "running",
             r \notin Open \cup gone
      PROVE  r \in lost
  <2>1. CASE r \in closed
    BY <1>1, <2>1 DEF ProcessInv, Past, PastInv, Present, Settled
  <2>2. CASE r \notin closed
    <3>1. pc[r] = "idle" /\ LocalInv(r)
      BY <1>1, <2>2 DEF ProcessInv, Past, Open
    <3> QED
      BY <1>1, <3>1 DEF LocalInv, RowInv, NoRow
  <2> QED
    BY <2>1, <2>2
<1>2. ProcessInv => UnfinishedRowExplained
  BY <1>1 DEF UnfinishedRowExplained
<1> QED
  BY <1>2, ProcessInvariant, PTL

(* SlotHeldInside, of the gateway that drains, dies and starts again: no    *)
(* way a handler ends leaves a slot of the admission gate taken.            *)
THEOREM SlotsSurviveRestarts == GatewaySpec => []SlotHeldInside
<1>1. ASSUME ProcessInv, NEW r \in Requests
      PROVE  /\ pc[r] \in Inside => r \in holders
             /\ pc[r] \in Before \cup {"reply", "done"} => r \notin holders
  <2>1. CASE Past(r)
    BY <1>1, <2>1 DEF ProcessInv, PastInv, Inside
  <2>2. CASE ~Past(r)
    BY <1>1, <2>2 DEF ProcessInv, LocalInv, SlotInv, Before, Inside, Failing
  <2> QED
    BY <2>1, <2>2
<1>2. ProcessInv => SlotHeldInside
  BY <1>1 DEF SlotHeldInside
<1> QED
  BY <1>2, ProcessInvariant, PTL

(* OverloadIsReal, of the same gateway: who is refused competes with        *)
(* requests that run now, never with those of a process that died.          *)
THEOREM OverloadIsRealForGateway == GatewaySpec => OverloadIsReal
<1>1. ASSUME ProcessInv, GatewayNext, NEW r \in Requests, pc[r] = "admit", pc'[r] = "fail"
      PROVE  Cardinality({q \in Requests \ {r} : Running(q)}) >= setting.limit
  <2>1. ASSUME NEW q \in Requests, Receive(q) \/ Handle(q) \/ ContextEnds(q)
        PROVE  Cardinality({p \in Requests \ {r} : Running(p)}) >= setting.limit
    <3>1. PipelineTypeOK /\ LocalInv(r) /\ \A p \in holders : LocalInv(p)
      BY <1>1 DEF ProcessInv, PastInv, PipelineTypeOK, GateTypeOK
    <3> QED
      BY <1>1, <2>1, <3>1, RefusedWhenFull
  <2>2. ASSUME NEW q \in Requests, Refused401(q) \/ Record(q) PROVE FALSE
    BY <1>1, <2>2 DEF Refused401, Record, At, ProcessInv, PipelineTypeOK
  <2>3. ASSUME Signal \/ Drained \/ Exit \/ Crash \/ Restart PROVE FALSE
    BY <1>1, <2>3 DEF Signal, Drained, Exit, Crash, Restart, vars, Cleared, Open
  <2> QED
    BY <1>1, <2>1, <2>2, <2>3 DEF GatewayNext, Authorized, Serve, LoseContext
<1>2. ProcessInv /\ [GatewayNext]_gatewayVars =>
        [\A r \in Requests :
           pc[r] = "admit" /\ pc'[r] = "fail" =>
             Cardinality({q \in Requests \ {r} : Running(q)}) >= setting.limit]_vars
  BY <1>1 DEF gatewayVars
<1> QED
  BY <1>2, ProcessInvariant, PTL DEF GatewaySpec, OverloadIsReal

(* LedgerKept, of a gateway with a SQL ledger: a process that is drained,   *)
(* dies anywhere or starts again adds nothing to the ledger and takes       *)
(* nothing from it, so its readers keep the promises of RequestLedger.      *)
THEOREM SqlLedgerOutlivesProcess == ASSUME SqlStore PROVE GatewaySpec => LedgerKept
<1>1. GatewayInit => Ledger!LedgerInit
  BY DEF GatewayInit, Init, LedgerInit, Ledger!LedgerInit, NoRow, Ledger!NoRow
<1>2. ProcessInv /\ ProcessInv' /\ [GatewayNext]_gatewayVars
        => [Ledger!LedgerNext]_<<rows, steps>>
  <2> SUFFICES ASSUME ProcessInv, ProcessInv', [GatewayNext]_gatewayVars
               PROVE  [Ledger!LedgerNext]_<<rows, steps>>
    OBVIOUS
  <2>1. ASSUME NEW r \in Requests, ~Past(r), UNCHANGED processVars,
               Receive(r) \/ Handle(r) \/ ContextEnds(r)
        PROVE  [Ledger!LedgerNext]_<<rows, steps>>
    <3>1. PipelineTypeOK /\ LocalInv(r) /\ PlanInv(r)'
      BY <2>1 DEF ProcessInv, Past, processVars, LocalInv
    <3> QED
      BY <2>1, <3>1, HandlerImplementsLedger
  <2>2. ASSUME NEW r \in Requests, Authorized(r)
        PROVE  [Ledger!LedgerNext]_<<rows, steps>>
    <3>1. pc[r] = "idle" /\ Receive(r) /\ UNCHANGED processVars
      BY <2>2 DEF Authorized, Receive, Invalid, Arrive, At
    <3>2. ~Past(r)
      BY <3>1 DEF ProcessInv, PastInv
    <3> QED
      BY <2>1, <3>1, <3>2
  <2>3. ASSUME NEW r \in Requests, Serve(r) \/ LoseContext(r)
        PROVE  [Ledger!LedgerNext]_<<rows, steps>>
    <3>1. r \in Open /\ (Handle(r) \/ ContextEnds(r)) /\ UNCHANGED processVars
      BY <2>3 DEF Serve, LoseContext
    <3> QED
      BY <2>1, <3>1 DEF Open, Past
  <2>4. CASE \/ \E r \in Requests : Refused401(r) \/ Record(r)
             \/ Signal \/ Drained \/ Exit \/ Crash \/ Restart \/ UNCHANGED gatewayVars
    BY <2>4 DEF Refused401, Record, Signal, Drained, Exit, Crash, Restart, gatewayVars, vars,
       ledgerVars, LedgerLeft
  <2> QED
    BY <2>2, <2>3, <2>4 DEF GatewayNext
<1> QED
  BY <1>1, <1>2, ProcessInvariant, PTL DEF GatewaySpec, LedgerKept, Ledger!LedgerSpec

-----------------------------------------------------------------------------
(* The two counters of /metrics. *)

Tallies == [Statuses -> Nat]
Counted(n, S) == Cardinality(Answers(n, S))

LEMMA OneMore ==
  ASSUME NEW n \in Tallies, NEW S \in SUBSET Statuses, NEW s \in Statuses,
         IsFiniteSet(Answers(n, S))
  PROVE  /\ [n EXCEPT ![s] = @ + 1] \in Tallies
         /\ IsFiniteSet(Answers([n EXCEPT ![s] = @ + 1], S))
         /\ Counted(n, S) \in Nat
         /\ Counted([n EXCEPT ![s] = @ + 1], S) =
              IF s \in S THEN Counted(n, S) + 1 ELSE Counted(n, S)
<1> DEFINE m == [n EXCEPT ![s] = @ + 1]
           new == <<s, n[s] + 1>>
<1>1. /\ m \in Tallies /\ m[s] = n[s] + 1 /\ n[s] \in Nat
      /\ \A t \in Statuses \ {s} : m[t] = n[t]
  BY DEF Tallies
<1>2. 1 .. n[s] + 1 = (1 .. n[s]) \cup {n[s] + 1}
  BY <1>1
<1>3. new \notin Answers(n, S)
  BY <1>1 DEF Answers
<1> HIDE DEF m
<1>4. CASE s \in S
  <2>1. ASSUME NEW t \in S
        PROVE  {t} \X (1 .. m[t]) = ({t} \X (1 .. n[t])) \cup (IF t = s THEN {new} ELSE {})
    <3>1. CASE t = s
      BY <1>1, <1>2, <3>1
    <3>2. CASE t # s
      BY <1>1, <3>2
    <3> QED
      BY <3>1, <3>2
  <2> HIDE DEF new
  <2>2. Answers(m, S) = Answers(n, S) \cup {new}
    <3>1. ASSUME NEW p \in Answers(m, S) PROVE p \in Answers(n, S) \cup {new}
      BY <2>1 DEF Answers
    <3>2. ASSUME NEW p \in Answers(n, S) PROVE p \in Answers(m, S)
      BY <2>1 DEF Answers
    <3>3. new \in Answers(m, S)
      BY <1>4, <2>1 DEF Answers
    <3> QED
      BY <3>1, <3>2, <3>3
  <2>3. /\ IsFiniteSet(Answers(m, S))
        /\ Cardinality(Answers(m, S)) = Cardinality(Answers(n, S)) + 1
    BY <1>3, <2>2, FS_AddElement
  <2> QED
    BY <1>1, <1>4, <2>3, FS_CardinalityType DEF Counted, m
<1>5. CASE s \notin S
  <2>1. \A t \in S : m[t] = n[t]
    BY <1>1, <1>5
  <2>2. Answers(m, S) = Answers(n, S)
    BY <2>1 DEF Answers
  <2> QED
    BY <1>1, <1>5, <2>2, FS_CardinalityType DEF Counted, m
<1> QED
  BY <1>4, <1>5

LEMMA NothingCounted ==
  ASSUME NEW S
  PROVE  IsFiniteSet(Answers([s \in S |-> 0], S)) /\ Counted([s \in S |-> 0], S) = 0
<1>1. Answers([s \in S |-> 0], S) = {}
  BY DEF Answers
<1> QED
  BY <1>1, FS_EmptySet DEF Counted

LEMMA SomeOfThem ==
  ASSUME NEW n \in Tallies, IsFiniteSet(Answers(n, Statuses)), NEW S \in SUBSET Statuses
  PROVE  /\ IsFiniteSet(Answers(n, S))
         /\ Counted(n, S) \in Nat
         /\ Counted(n, S) <= Counted(n, Statuses)
<1>1. Answers(n, S) \in SUBSET Answers(n, Statuses)
  BY DEF Answers
<1> QED
  BY <1>1, FS_Subset, FS_CardinalityType DEF Counted

LEMMA EachOfThem ==
  ASSUME NEW n \in Tallies, IsFiniteSet(Answers(n, Statuses)), NEW s \in Statuses
  PROVE  n[s] <= Counted(n, Statuses)
<1>1. n[s] \in Nat
  BY DEF Tallies
<1>2. {s} \X (1 .. n[s]) \in SUBSET Answers(n, Statuses)
  BY DEF Answers
<1>3. IsFiniteSet(1 .. n[s]) /\ Cardinality(1 .. n[s]) = n[s]
  BY <1>1, FS_Interval
<1>4. IsFiniteSet({s}) /\ Cardinality({s}) = 1
  BY FS_Singleton
<1>5. Cardinality({s} \X (1 .. n[s])) = 1 * n[s]
  BY <1>3, <1>4, FS_Product
<1>6. Cardinality({s} \X (1 .. n[s])) <= Cardinality(Answers(n, Statuses))
  BY <1>2, FS_Subset
<1> QED
  BY <1>1, <1>5, <1>6 DEF Counted

(* Requests under way that will be, or were, answered as accepted. *)
Pending == {r \in Open : ~(pc[r] = "done" /\ reply[r] \in {400, 405})}

(* What is counted at the end was counted at the start, or is a 400 or 405. *)
(* An open request that has answered 400 may be either: some are refused    *)
(* after they were accepted.                                                *)
MeterBounds ==
  /\ CountOf(Statuses \ {400, 405}) + Cardinality(Pending) <= accepted
  /\ accepted <= CountOf(Statuses) + Cardinality(Open)
  /\ CountOf(Statuses) <= Cardinality(closed)

MeterInv ==
  /\ starts \in 1 .. MaxStarts
  /\ counted \in Tallies /\ IsFiniteSet(Answers(counted, Statuses))
  /\ accepted \in Nat
  /\ Up => MeterBounds
  /\ accepted <= Cardinality(Requests)
  /\ CountOf(Statuses) <= Cardinality(Requests)

(* Handlers start with Receive, work with Handle and keep what they         *)
(* answered.                                                                *)
LEMMA StagesOfReceive ==
  ASSUME PipelineTypeOK, NEW r \in Requests, Receive(r)
  PROVE  /\ pc[r] = "idle" /\ pc'[r] \in {"create", "done"}
         /\ pc'[r] = "done" => reply'[r] \in {400, 405}
BY DEF Receive, Invalid, Rejections, Code, Arrive, At, PipelineTypeOK

LEMMA StagesOfHandle ==
  ASSUME PipelineTypeOK, NEW r \in Requests, Handle(r) \/ ContextEnds(r)
  PROVE  pc[r] \notin {"idle", "done"} /\ pc'[r] # "idle"
<1>1. pc \in [Requests -> Before \cup Inside \cup Ending]
  BY DEF PipelineTypeOK
<1>2. ASSUME \/ CreateRow(r) \/ Normalize(r) \/ PolicyAllow(r) \/ PolicyReject(r)
             \/ AgentStub(r) \/ PassGate(r) \/ AdmissionStep(r) \/ ReadHealth(r)
             \/ RouteOk(r) \/ RouteNone(r) \/ RouteDead(r) \/ RouteStep(r) \/ SavePolicy(r)
             \/ RagUnconfigured(r)
      PROVE  pc[r] \notin {"idle", "done"} /\ pc'[r] # "idle"
  BY <1>1, <1>2 DEF CreateRow, Normalize, PolicyAllow, PolicyReject, AgentStub, PassGate,
     AdmissionStep, ReadHealth, RouteOk, RouteNone, RouteDead, RouteStep, SavePolicy,
     RagUnconfigured, At
<1>3. ASSUME \/ Retrieve(r) \/ Rerank(r) \/ InvokeOk(r) \/ FallBack(r) \/ GiveUp(r)
             \/ CallReturns(r) \/ CallFails(r) \/ FailRow(r) \/ Report(r) \/ Finalize(r)
             \/ MarkSuccess(r) \/ Release(r) \/ Answer(r)
      PROVE  pc[r] \notin {"idle", "done"} /\ pc'[r] # "idle"
  BY <1>1, <1>3 DEF Retrieve, Rerank, StageOk, StageFails, InvokeOk, FallBack, GiveUp,
     CallReturns, CallFails, FailRow, Report, Finalize, MarkSuccess, Release, Answer, At
<1>4. ASSUME ContextEnds(r) PROVE pc[r] \notin {"idle", "done"} /\ pc'[r] # "idle"
  BY <1>4 DEF ContextEnds
<1> QED
  BY <1>2, <1>3, <1>4 DEF Handle

(* The sets of requests that the bounds count. *)
LEMMA FiniteParts ==
  ASSUME NEW S \in SUBSET Requests
  PROVE  /\ IsFiniteSet(S) /\ Cardinality(S) \in Nat /\ Cardinality(S) <= Cardinality(Requests)
         /\ Cardinality(Requests) \in Nat
BY GateAssumption, FS_Subset, FS_CardinalityType

LEMMA OneRequestMore ==
  ASSUME NEW S \in SUBSET Requests, NEW r \in Requests
  PROVE  /\ r \notin S => Cardinality(S \cup {r}) = Cardinality(S) + 1
         /\ Cardinality(S) <= Cardinality(S \cup {r})
         /\ r \in S => Cardinality(S \ {r}) = Cardinality(S) - 1
<1>1. IsFiniteSet(S) /\ Cardinality(S) \in Nat
  BY FiniteParts
<1> QED
  BY <1>1, FS_AddElement, FS_RemoveElement

(* Who is counted has closed, who is accepted but not counted is open.      *)
LEMMA WithinRequests ==
  ASSUME NEW C \in SUBSET Requests, NEW O \in SUBSET Requests, C \cap O = {},
         NEW n \in Nat, NEW a \in Nat, a <= n + Cardinality(O), n <= Cardinality(C)
  PROVE  a <= Cardinality(Requests) /\ n <= Cardinality(Requests)
<1>1. /\ IsFiniteSet(O) /\ Cardinality(O) \in Nat
      /\ IsFiniteSet(C) /\ Cardinality(C) \in Nat
      /\ Cardinality(C) <= Cardinality(Requests)
      /\ Cardinality(C \cup O) <= Cardinality(Requests)
      /\ Cardinality(Requests) \in Nat
  BY FiniteParts
<1>2. Cardinality(C \cap O) = 0
  BY FS_EmptySet
<1>3. Cardinality(C \cup O) = Cardinality(C) + Cardinality(O) - Cardinality(C \cap O)
  BY <1>1, FS_Union
<1>4. ASSUME NEW x \in Nat, NEW y \in Nat, NEW z, z = 0 PROVE x + y - z = x + y
  BY <1>4
<1>5. Cardinality(C \cup O) = Cardinality(C) + Cardinality(O)
  BY <1>1, <1>2, <1>3, <1>4, Zenon
<1> QED
  BY <1>1, <1>5

LEMMA MeterParts ==
  ASSUME ProcessInv, MeterInv
  PROVE  /\ Open \in SUBSET Requests /\ Pending \in SUBSET Open
         /\ Cardinality(Open) \in Nat /\ Cardinality(Pending) \in Nat
         /\ Cardinality(closed) \in Nat /\ closed \in SUBSET Requests
         /\ CountOf(Statuses) \in Nat /\ CountOf(Statuses \ {400, 405}) \in Nat
         /\ CountOf(Statuses \ {400, 405}) <= CountOf(Statuses)
<1>1. Open \in SUBSET Requests /\ Pending \in SUBSET Requests /\ Pending \in SUBSET Open
  BY DEF Open, Pending
<1>2. closed \in SUBSET Requests
  BY DEF ProcessInv
<1>3. Statuses \in SUBSET Statuses /\ Statuses \ {400, 405} \in SUBSET Statuses
  OBVIOUS
<1>4. /\ Counted(counted, Statuses) \in Nat /\ Counted(counted, Statuses \ {400, 405}) \in Nat
      /\ Counted(counted, Statuses \ {400, 405}) <= Counted(counted, Statuses)
  BY <1>3, SomeOfThem DEF MeterInv
<1> QED
  BY <1>1, <1>2, <1>4, FiniteParts DEF Counted, CountOf

LEMMA AuthorizedMeters ==
  ASSUME ProcessInv, MeterInv, ProcessInv', NEW r \in Requests, Authorized(r)
  PROVE  MeterBounds'
<1>1. /\ PipelineTypeOK /\ Receive(r) /\ UNCHANGED processVars /\ counted' = counted /\ Up
      /\ accepted' = IF pc'[r] = "create" THEN accepted + 1 ELSE accepted
  BY DEF Authorized, ProcessInv, Up
<1>2. /\ pc[r] = "idle" /\ pc'[r] \in {"create", "done"}
      /\ pc'[r] = "done" => reply'[r] \in {400, 405}
  BY <1>1, StagesOfReceive
<1>3. r \notin closed \cup gone
  BY <1>2 DEF ProcessInv, Past, PastInv
<1>4. ASSUME NEW q \in Requests, q # r PROVE pc'[q] = pc[q] /\ reply'[q] = reply[q]
  BY <1>1, <1>4, OthersUnchanged DEF Same
<1>5. Open' = Open \cup {r} /\ r \notin Open
  BY <1>1, <1>2, <1>3, <1>4 DEF Open, processVars
<1>6. Pending' = IF pc'[r] = "create" THEN Pending \cup {r} ELSE Pending
  BY <1>2, <1>4, <1>5 DEF Pending, Open
<1>7. r \notin Pending
  BY <1>5 DEF Pending
<1>8. CountOf(Statuses)' = CountOf(Statuses)
      /\ CountOf(Statuses \ {400, 405})' = CountOf(Statuses \ {400, 405}) /\ closed' = closed
  BY <1>1 DEF CountOf, processVars
<1>9. /\ Cardinality(Open)' = Cardinality(Open) + 1
      /\ Cardinality(Pending)' =
           IF pc'[r] = "create" THEN Cardinality(Pending) + 1 ELSE Cardinality(Pending)
  BY <1>5, <1>6, <1>7, MeterParts, OneRequestMore
<1> QED
  BY <1>1, <1>8, <1>9, MeterParts DEF MeterInv, MeterBounds

LEMMA ServeMeters ==
  ASSUME ProcessInv, MeterInv, ProcessInv', NEW r \in Requests, Serve(r) \/ LoseContext(r)
  PROVE  MeterBounds'
<1>1. /\ PipelineTypeOK /\ UNCHANGED processVars /\ UNCHANGED meterVars /\ Up /\ r \in Open
      /\ Handle(r) \/ ContextEnds(r)
  BY DEF Serve, LoseContext, ProcessInv
<1>2. pc[r] \notin {"idle", "done"} /\ pc'[r] # "idle"
  BY <1>1, StagesOfHandle
<1>3. ASSUME NEW q \in Requests, q # r PROVE pc'[q] = pc[q] /\ reply'[q] = reply[q]
  BY <1>1, <1>3, OthersUnchanged DEF Same
<1>4. Open' = Open
  BY <1>1, <1>2, <1>3 DEF Open, processVars
<1>5. Pending' \in SUBSET Pending
  <2> SUFFICES ASSUME NEW q \in Pending' PROVE q \in Pending
    OBVIOUS
  <2>1. q \in Open /\ q \in Requests /\ ~(pc'[q] = "done" /\ reply'[q] \in {400, 405})
    BY <1>4 DEF Pending, Open
  <2>2. CASE q = r
    BY <1>2, <2>1, <2>2 DEF Pending
  <2>3. CASE q # r
    BY <1>3, <2>1, <2>3 DEF Pending
  <2> QED
    BY <2>2, <2>3
<1>6. CountOf(Statuses)' = CountOf(Statuses) /\ accepted' = accepted
      /\ CountOf(Statuses \ {400, 405})' = CountOf(Statuses \ {400, 405}) /\ closed' = closed
  BY <1>1 DEF CountOf, processVars, meterVars
<1>7. Cardinality(Pending)' \in Nat /\ Cardinality(Pending)' <= Cardinality(Pending)
  <2>1. Pending \in SUBSET Requests /\ Pending' \in SUBSET Requests
    BY <1>5, MeterParts
  <2> QED
    BY <1>5, <2>1, FiniteParts, FS_Subset
<1> QED
  BY <1>1, <1>4, <1>6, <1>7, MeterParts DEF MeterInv, MeterBounds

LEMMA RefusalMeters ==
  ASSUME ProcessInv, MeterInv, ProcessInv', NEW r \in Requests, Refused401(r)
  PROVE  MeterBounds'
<1>1. /\ PipelineTypeOK /\ pc[r] = "idle" /\ pc' = [pc EXCEPT ![r] = "done"]
      /\ reply' = [reply EXCEPT ![r] = Unauthorized] /\ closed' = closed \cup {r}
      /\ gone' = gone /\ counted' = counted /\ accepted' = accepted /\ Up
  BY DEF Refused401, At, ProcessInv, Up, meterVars
<1>2. ASSUME NEW q \in Requests, q # r PROVE pc'[q] = pc[q] /\ reply'[q] = reply[q]
  BY <1>1, <1>2
<1>3. Open' = Open /\ r \notin Open
  BY <1>1, <1>2 DEF Open
<1>4. Pending' = Pending
  BY <1>2, <1>3 DEF Pending, Open
<1>5. CountOf(Statuses)' = CountOf(Statuses)
      /\ CountOf(Statuses \ {400, 405})' = CountOf(Statuses \ {400, 405})
  BY <1>1 DEF CountOf
<1>6. Cardinality(closed') \in Nat /\ Cardinality(closed) <= Cardinality(closed')
  BY <1>1, MeterParts, OneRequestMore, FiniteParts
<1> QED
  BY <1>1, <1>3, <1>4, <1>5, <1>6, MeterParts DEF MeterInv, MeterBounds

LEMMA AnsweredStatus ==
  ASSUME ProcessInv, NEW r \in Open, pc[r] = "done"
  PROVE  reply[r] \in Statuses
<1>1. r \in Requests /\ LocalInv(r)
  BY DEF Open, ProcessInv, Past
<1>2. reply[r] = Code[Outcome(r)] /\ cause[r] \in Verdicts \cup {None}
  BY <1>1 DEF LocalInv, AnswerInv, CauseInv
<1>3. Outcome(r) \in Results
  BY <1>2 DEF Outcome, Verdicts, Rejections, Results, Code
<1> QED
  BY <1>2, <1>3 DEF Statuses

LEMMA RecordMeters ==
  ASSUME ProcessInv, MeterInv, ProcessInv', NEW r \in Requests, Record(r)
  PROVE  MeterBounds' /\ counted' \in Tallies /\ IsFiniteSet(Answers(counted', Statuses))
<1>1. /\ pc[r] = "done" /\ pc' = pc /\ reply' = reply /\ closed' = closed \cup {r}
      /\ gone' = gone /\ accepted' = accepted /\ Up /\ r \in Open
      /\ counted' = [counted EXCEPT ![reply[r]] = @ + 1]
  BY DEF Record, ProcessInv
<1>2. reply[r] \in Statuses
  BY <1>1, AnsweredStatus
<1>3. Open' = Open \ {r} /\ r \notin closed
  BY <1>1 DEF Open
<1>4. Pending' = Pending \ {r} /\ (r \in Pending <=> reply[r] \notin {400, 405})
  BY <1>1, <1>3 DEF Pending
<1>5. /\ counted' \in Tallies /\ IsFiniteSet(Answers(counted', Statuses))
      /\ CountOf(Statuses)' = CountOf(Statuses) + 1
  <2>1. Statuses \in SUBSET Statuses
    OBVIOUS
  <2> QED
    BY <1>1, <1>2, <2>1, OneMore DEF MeterInv, CountOf, Counted
<1>6. CountOf(Statuses \ {400, 405})' =
        IF reply[r] \notin {400, 405} THEN CountOf(Statuses \ {400, 405}) + 1
        ELSE CountOf(Statuses \ {400, 405})
  <2> DEFINE S == Statuses \ {400, 405}
  <2>1. S \in SUBSET Statuses /\ (reply[r] \in S <=> reply[r] \notin {400, 405})
    BY <1>2
  <2> HIDE DEF S
  <2>2. IsFiniteSet(Answers(counted, S))
    BY <2>1, SomeOfThem DEF MeterInv
  <2>3. Counted(counted', S) =
          IF reply[r] \in S THEN Counted(counted, S) + 1 ELSE Counted(counted, S)
    BY <1>1, <1>2, <2>1, <2>2, OneMore DEF MeterInv
  <2> QED
    BY <2>1, <2>3 DEF CountOf, Counted, S
<1>7. Cardinality(Open)' = Cardinality(Open) - 1
      /\ Cardinality(closed)' = Cardinality(closed) + 1
  BY <1>1, <1>3, MeterParts, OneRequestMore
<1>8. Cardinality(Pending)' =
        IF reply[r] \notin {400, 405} THEN Cardinality(Pending) - 1 ELSE Cardinality(Pending)
  <2>1. CASE r \in Pending
    BY <1>4, <2>1, MeterParts, OneRequestMore
  <2>2. CASE r \notin Pending
    BY <1>4, <2>2
  <2> QED
    BY <1>4, <2>1, <2>2
<1> QED
  BY <1>1, <1>5, <1>6, <1>7, <1>8, MeterParts DEF MeterInv, MeterBounds

(* A step of a request while the process is up keeps all of it. *)
LEMMA MetersKept ==
  ASSUME MeterInv, ProcessInv', accepted' \in Nat, starts' = starts, counted' \in Tallies,
         IsFiniteSet(Answers(counted', Statuses)), MeterBounds'
  PROVE  MeterInv'
<1>1. /\ closed' \in SUBSET Requests /\ Open' \in SUBSET Requests
      /\ closed' \cap Open' = {}
  BY DEF ProcessInv, Open
<1>2. Counted(counted', Statuses) \in Nat
  BY SomeOfThem
<1>3. /\ Counted(counted', Statuses) <= Cardinality(closed')
      /\ accepted' <= Counted(counted', Statuses) + Cardinality(Open')
  BY DEF MeterBounds, CountOf, Counted
<1>4. accepted' <= Cardinality(Requests)
      /\ Counted(counted', Statuses) <= Cardinality(Requests)
  BY <1>1, <1>2, <1>3, WithinRequests
<1> QED
  BY <1>4 DEF MeterInv, CountOf, Counted

LEMMA RestartMeters ==
  ASSUME ProcessInv, MeterInv, Restart
  PROVE  MeterInv'
<1>1. /\ starts' = starts + 1 /\ starts < MaxStarts /\ accepted' = 0 /\ counted' = NoCounts
      /\ closed' = closed /\ Open' = Open /\ Open = {}
  BY DEF Restart, ProcessInv, Open, vars
<1>2. Pending' = {}
  BY <1>1 DEF Pending
<1>3. Cardinality(Open)' = 0 /\ Cardinality(Pending)' = 0
  BY <1>1, <1>2, FS_EmptySet
<1>4. /\ counted' \in Tallies /\ IsFiniteSet(Answers(counted', Statuses))
      /\ CountOf(Statuses)' = 0
  BY <1>1, NothingCounted DEF NoCounts, Tallies, CountOf, Counted
<1>5. CountOf(Statuses \ {400, 405})' = 0
  <2>1. Statuses \ {400, 405} \in SUBSET Statuses
    OBVIOUS
  <2> QED
    BY <1>4, <2>1, SomeOfThem DEF CountOf, Counted
<1>6. Cardinality(closed) \in Nat /\ Cardinality(Requests) \in Nat
  BY FiniteParts DEF ProcessInv
<1> QED
  BY <1>1, <1>3, <1>4, <1>5, <1>6, GatewayAssumption DEF MeterInv, MeterBounds

LEMMA MetersInvariant == GatewaySpec => []MeterInv
<1>1. GatewayInit => MeterInv
  <2> SUFFICES ASSUME GatewayInit PROVE MeterInv
    OBVIOUS
  <2>1. Open = {} /\ Pending = {} /\ closed = {} /\ accepted = 0 /\ counted = NoCounts
    BY DEF GatewayInit, Init, Open, Pending
  <2>2. Cardinality(Open) = 0 /\ Cardinality(Pending) = 0 /\ Cardinality(closed) = 0
    BY <2>1, FS_EmptySet
  <2>3. /\ counted \in Tallies /\ IsFiniteSet(Answers(counted, Statuses))
        /\ CountOf(Statuses) = 0
    BY <2>1, NothingCounted DEF NoCounts, Tallies, CountOf, Counted
  <2>4. CountOf(Statuses \ {400, 405}) = 0
    <3>1. Statuses \ {400, 405} \in SUBSET Statuses
      OBVIOUS
    <3> QED
      BY <2>3, <3>1, SomeOfThem DEF CountOf, Counted
  <2>5. Cardinality(Requests) \in Nat
    BY FiniteParts
  <2> QED
    BY <2>1, <2>2, <2>3, <2>4, <2>5, GatewayAssumption DEF GatewayInit, MeterInv, MeterBounds
<1>2. ProcessInv /\ ProcessInv' /\ MeterInv /\ [GatewayNext]_gatewayVars => MeterInv'
  <2> SUFFICES ASSUME ProcessInv, ProcessInv', MeterInv, [GatewayNext]_gatewayVars
               PROVE  MeterInv'
    OBVIOUS
  <2>1. ASSUME NEW r \in Requests, Authorized(r) PROVE MeterInv'
    <3>1. accepted' \in Nat /\ starts' = starts /\ counted' = counted
      BY <2>1 DEF Authorized, processVars, MeterInv
    <3> QED
      BY <2>1, <3>1, AuthorizedMeters, MetersKept DEF MeterInv
  <2>2. ASSUME NEW r \in Requests, Serve(r) \/ LoseContext(r) PROVE MeterInv'
    <3>1. accepted' = accepted /\ starts' = starts /\ counted' = counted
      BY <2>2 DEF Serve, LoseContext, processVars, meterVars
    <3> QED
      BY <2>2, <3>1, ServeMeters, MetersKept DEF MeterInv
  <2>3. ASSUME NEW r \in Requests, Refused401(r) PROVE MeterInv'
    <3>1. accepted' = accepted /\ starts' = starts /\ counted' = counted
      BY <2>3 DEF Refused401, meterVars
    <3> QED
      BY <2>3, <3>1, RefusalMeters, MetersKept DEF MeterInv
  <2>4. ASSUME NEW r \in Requests, Record(r) PROVE MeterInv'
    <3>1. accepted' = accepted /\ starts' = starts
      BY <2>4 DEF Record
    <3> QED
      BY <2>4, <3>1, RecordMeters, MetersKept DEF MeterInv
  <2>5. CASE Signal \/ Drained \/ Exit \/ Crash \/ UNCHANGED gatewayVars
    <3>1. /\ starts' = starts /\ accepted' = accepted /\ counted' = counted
          /\ CountOf(Statuses)' = CountOf(Statuses)
          /\ CountOf(Statuses \ {400, 405})' = CountOf(Statuses \ {400, 405})
      BY <2>5 DEF Signal, Drained, Exit, Crash, gatewayVars, processVars, meterVars, CountOf
    <3>2. Up' => Up /\ Open' = Open /\ Pending' = Pending /\ closed' = closed
      BY <2>5 DEF Signal, Drained, Exit, Crash, gatewayVars, processVars, Up, vars, Open,
         Pending, endVars
    <3> QED
      BY <3>1, <3>2 DEF MeterInv, MeterBounds
  <2>6. CASE Restart
    BY <2>6, RestartMeters
  <2> QED
    BY <2>1, <2>2, <2>3, <2>4, <2>5, <2>6 DEF GatewayNext
<1> QED
  BY <1>1, <1>2, ProcessInvariant, PTL DEF GatewaySpec

(* CountersBracket: at every scrape, infercore_requests_total is no less    *)
(* than what was answered other than 400, and no more than what was         *)
(* answered and what is under way; also after a restart, when both start    *)
(* from 0 again.                                                            *)
THEOREM CountersAgree == GatewaySpec => []CountersBracket
<1>1. ProcessInv /\ MeterInv => CountersBracket
  BY MeterParts DEF MeterInv, MeterBounds, CountersBracket
<1> QED
  BY <1>1, ProcessInvariant, MetersInvariant, PTL

(* GatewayTypeOK: the types of the whole gateway; the counters stay within  *)
(* the number of requests.                                                  *)
THEOREM GatewayTypes == GatewaySpec => []GatewayTypeOK
<1>1. ASSUME ProcessInv, MeterInv PROVE GatewayTypeOK
  <2>1. Cardinality(Requests) \in Nat
    BY FiniteParts
  <2>2. ASSUME NEW s \in Statuses PROVE counted[s] \in 0 .. Cardinality(Requests)
    <3>1. counted[s] \in Nat /\ counted[s] <= Counted(counted, Statuses)
      BY <1>1, EachOfThem DEF MeterInv, Tallies
    <3>2. Counted(counted, Statuses) \in Nat
      BY <1>1, SomeOfThem DEF MeterInv
    <3>3. Counted(counted, Statuses) <= Cardinality(Requests)
      BY <1>1 DEF MeterInv, Counted, CountOf
    <3> QED
      BY <2>1, <3>1, <3>2, <3>3
  <2>3. counted \in [Statuses -> 0 .. Cardinality(Requests)]
    BY <1>1, <2>2 DEF MeterInv, Tallies
  <2> QED
    BY <1>1, <2>1, <2>3 DEF GatewayTypeOK, ProcessInv, MeterInv
<1>2. ProcessInv /\ MeterInv => GatewayTypeOK
  BY <1>1
<1> QED
  BY <1>2, ProcessInvariant, MetersInvariant, PTL
=============================================================================
