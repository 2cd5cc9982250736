--------------------------- MODULE RequestLedger ---------------------------
(***************************************************************************)
(* What the request ledger promises a reader, whichever driver keeps it    *)
(* and whichever of its writes fail: a row runs, may come to name the      *)
(* backend routing chose, and settles once; its steps are logged in order  *)
(* while it runs, a failed one being the last, and a success has none.     *)
(* `infercore trace`, replay and export-eval read rows at any moment of    *)
(* this life.  InferPipeline is shown to implement it.                     *)
(***************************************************************************)
EXTENDS LedgerStore

(* internal/inferexec/plan.go: the longest plan, that of rag. *)
LongestPlan == 8

IsRunning(r) == rows[r].status = "running"

NoFailedStep(r) == \A i \in DOMAIN steps[r] : steps[r][i].status = "success"

Open(r) ==
  /\ rows[r] = NoRow
  /\ rows' = [rows EXCEPT ![r] = [NoRow EXCEPT !.status = "running"]]
  /\ UNCHANGED steps

Log(r) ==
  /\ IsRunning(r) /\ NoFailedStep(r)
  /\ \E step \in [index : 0 .. LongestPlan - 1, type : StepTypes,
                  status : {"success", "failed"}] :
       /\ \A i \in DOMAIN steps[r] : steps[r][i].index < step.index
       /\ steps' = [steps EXCEPT ![r] = Append(@, step)]
  /\ UNCHANGED rows

NameBackend(r) ==
  /\ IsRunning(r) /\ rows[r].snapshot = None
  /\ \E b \in Backends :
       rows' = [rows EXCEPT ![r].selected = b, ![r].snapshot = b]
  /\ UNCHANGED steps

Succeed(r) ==
  /\ IsRunning(r) /\ NoFailedStep(r)
  /\ \E b \in Backends :
       rows' = [rows EXCEPT ![r].status = "success", ![r].selected = b]
  /\ UNCHANGED steps

Fail(r) ==
  /\ IsRunning(r)
  /\ rows' = [rows EXCEPT ![r].status = "failed"]
  /\ UNCHANGED steps

LedgerNext ==
  \E r \in Requests : Open(r) \/ Log(r) \/ NameBackend(r) \/ Succeed(r) \/ Fail(r)

LedgerSpec == LedgerInit /\ [][LedgerNext]_<<rows, steps>>
=============================================================================
