------------------------------- MODULE Replay -------------------------------
(***************************************************************************)
(* Who reads the ledger back: exact replay (internal/replay/replay.go) and *)
(* the export of rows into an evaluation set                               *)
(* (internal/eval/ledger_export.go).  Both are other processes than the    *)
(* gateway: they read a row once, at any moment of its life, and change    *)
(* nothing, so each is a function of the row, and what it would do is       *)
(* stated of every state of InferPipeline.                                 *)
(***************************************************************************)
EXTENDS InferPipeline

(* replayExact: the primary of the policy snapshot, else selected_backend;  *)
(* None stands for its error.  Without a row GetRequest has failed before.  *)
ExactBackendSelected(row) == IF row.selected # None THEN row.selected ELSE row.snapshot
ExactBackend(row) == IF row.snapshot # None THEN row.snapshot ELSE row.selected

(* ItemFromRequestRow: the expected_backend of the exported item.           *)
ExpectedBackendOfPlan(row) == row.snapshot
ExpectedBackend(row) == row.selected

(* replayExact forces one backend and switches fallback off: the errors of  *)
(* the recorded run cannot move it to another.                              *)
ExactCalls(r) ==
  IF Present(r) /\ ExactBackend(rows[r]) # None THEN {ExactBackend(rows[r])} ELSE {}

(* eval.Run compares the expectation with the backend a new run answers     *)
(* from: an item without an expectation always matches.                     *)
BackendMatch(row, selected) == ExpectedBackend(row) \in {None, selected}

-----------------------------------------------------------------------------
HasRun(r, type) == \E i \in DOMAIN ran[r] : ran[r][i].type = type

(* An exact replay may read a row that runs, failed, or misses writes.  It  *)
(* calls the backend routing chose, never one the request had no part of;   *)
(* only a lost snapshot write lets it take the backend that answered        *)
(* instead; and a request whose writes all arrived and whose backend was    *)
(* called can always be replayed.                                           *)
ExactReplayFollowsRoute ==
  \A r \in Requests :
    /\ ExactCalls(r) \subseteq {primary[r]} \cup (IF r \in lost THEN {served[r]} ELSE {})
    /\ HasRun(r, "backend_call") /\ Recorded(r) => ExactCalls(r) = {primary[r]}

(* What an exported item expects of a routing regression: for a success the *)
(* backend that answered, which only a rerun answered by it matches; for a  *)
(* failure, since selected_backend is written at routing, the primary, even *)
(* when a fallback target failed last; nothing for one that got no route.   *)
ExportTellsRun ==
  \A r \in Requests :
    Answered(r) /\ Recorded(r) =>
      /\ reply[r] = 200 => \A b \in Backends : BackendMatch(rows[r], b) <=> b = served[r]
      /\ reply[r] # 200 =>
           ExpectedBackend(rows[r]) = IF HasRun(r, "route") THEN primary[r] ELSE None
=============================================================================
