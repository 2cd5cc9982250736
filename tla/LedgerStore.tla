---------------------------- MODULE LedgerStore ----------------------------
(***************************************************************************)
(* The request ledger, internal/requests: one row per request and an       *)
(* ordered list of step rows.  Two kinds of driver implement it:           *)
(*   - memory: ignores the caller's context and never fails a write;       *)
(*   - SQL (sqlite, postgres): runs every statement under the caller's     *)
(*     context, so a context that has ended makes the write fail, and a    *)
(*     write may fail for reasons of the database's own.                   *)
(* A write that fails leaves the ledger as it was; the callers drop the    *)
(* error (internal/server/server.go, internal/execution/steps.go).         *)
(***************************************************************************)
EXTENDS Integers, Sequences

CONSTANTS
  Requests,
  Backends,
  None,         \* an empty string or absent value
  SqlStore,     \* TRUE: sqlite or postgres; FALSE: memory
  StoreFaults   \* TRUE: an SQL write under a live context may fail too

(* What a module that uses the ledger assumes of the constants. *)
LedgerConstants ==
  /\ None \notin Backends
  /\ SqlStore \in BOOLEAN
  /\ StoreFaults \in BOOLEAN

VARIABLES
  rows,         \* rows[r]: the row of request r, or NoRow
  steps         \* steps[r]: the step rows of r in index order

StepTypes == {"normalize", "policy_check", "admission", "route", "retrieve",
              "rerank", "backend_call", "finalize", "agent_stub"}

Settled == {"success", "failed"}

NoRow == [status |-> "absent", selected |-> None, snapshot |-> None]

(* selected is selected_backend, snapshot the primary_backend in the policy *)
(* snapshot.                                                                *)
Row == [status : {"absent", "running"} \cup Settled,
        selected : Backends \cup {None}, snapshot : Backends \cup {None}]

StepRow == [index : Nat, type : StepTypes, status : {"success", "failed"}]

LedgerTypeOK ==
  /\ rows \in [Requests -> Row]
  /\ steps \in [Requests -> Seq(StepRow)]

LedgerInit ==
  /\ rows = [r \in Requests |-> NoRow]
  /\ steps = [r \in Requests |-> <<>>]

Present(r) == rows[r].status # "absent"

(* The results a write may have, given whether the caller's context still   *)
(* runs: TRUE for written, FALSE for an error.                              *)
WriteResults(live) ==
  {ok \in BOOLEAN : IF ok THEN SqlStore => live ELSE SqlStore /\ (live => StoreFaults)}

CreateRequest(r, ok) ==
  /\ rows' = IF ok THEN [rows EXCEPT ![r] = [NoRow EXCEPT !.status = "running"]] ELSE rows
  /\ UNCHANGED steps

(* row is rows[r] with the fields that the patch names changed.  Without a  *)
(* row both drivers answer ErrNotFound.                                     *)
UpdateRequest(r, row, ok) ==
  /\ rows' = IF ok /\ Present(r) THEN [rows EXCEPT ![r] = row] ELSE rows
  /\ UNCHANGED steps

(* Without a row the step is refused: ErrNotFound, or the foreign key. *)
AppendStep(r, step, ok) ==
  /\ steps' = IF ok /\ Present(r) THEN [steps EXCEPT ![r] = Append(@, step)] ELSE steps
  /\ UNCHANGED rows
=============================================================================
