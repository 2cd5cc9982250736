----------------------------- MODULE Admission -----------------------------
(***************************************************************************)
(* beginInferLoad of internal/server/server.go, at the grain of its atomic *)
(* operations: Load, CompareAndSwap and Add on the counter inferInflight.  *)
(* Any number of handlers run the loop at once; between a Load and the     *)
(* CompareAndSwap of one handler the others may enter and leave.           *)
(***************************************************************************)
EXTENDS Integers, FiniteSets

CONSTANTS
  Requests,      \* the /infer calls, each running beginInferLoad once
  Configs,       \* the configurations: queue_limit as written (a 64-bit int),
                 \* whether it came through config.Load, and whether
                 \* overload.action is "reject" or "degrade"
  DefaultLimit,  \* the limit config.Load substitutes (200 in the code)
  Int32Half      \* 2^31 in the build: int32 ranges over -Int32Half..Int32Half-1

ASSUME AdmissionAssumption ==
  /\ IsFiniteSet(Requests)
  /\ Configs \subseteq [limit : Int, fromFile : BOOLEAN, reject : BOOLEAN]
  /\ DefaultLimit \in Nat \ {0}
  /\ Int32Half \in Nat \ {0}

VARIABLES
  conf,        \* the configuration of this server; it never changes
  inflight,    \* s.inferInflight
  pc,          \* where each request stands in beginInferLoad
  cur,         \* the value its last Load returned
  degraded     \* the overloadDegrade it was given

vars == <<conf, inflight, pc, cur, degraded>>

Places == {"idle", "load", "decide", "serving", "done", "refused"}

Types ==
  /\ conf \in Configs
  /\ inflight \in Int
  /\ pc \in [Requests -> Places]
  /\ cur \in [Requests -> Int]
  /\ degraded \in [Requests -> BOOLEAN]

(* The counter is a number of requests: never negative, never beyond those  *)
(* that exist, although Add(-1) and CompareAndSwap touch it unordered.      *)
TypeOK == Types /\ inflight \in 0 .. Cardinality(Requests)

(* A conversion to int32 keeps the low 32 bits. *)
Int32(n) ==
  IF n \in -Int32Half .. Int32Half - 1
  THEN n
  ELSE ((n + Int32Half) % (2 * Int32Half)) - Int32Half

(* config.Load replaces a limit that is not positive; a Config built in     *)
(* code, as the tests and embedders of the server do, keeps it.             *)
QueueLimit ==
  IF conf.fromFile /\ conf.limit <= 0 THEN DefaultLimit ELSE conf.limit

RejectMode == conf.reject

Disabled == QueueLimit <= 0
Lim == Int32(QueueLimit)

Holders == {r \in Requests : pc[r] = "serving"}

Init ==
  /\ conf \in Configs
  /\ inflight = 0
  /\ pc = [r \in Requests |-> "idle"]
  /\ cur = [r \in Requests |-> 0]
  /\ degraded = [r \in Requests |-> FALSE]

(* The orchestrator calls beginInferLoad. *)
Call(r) ==
  /\ pc[r] = "idle"
  /\ pc' = [pc EXCEPT ![r] = "load"]
  /\ UNCHANGED <<conf, inflight, cur, degraded>>

(* Gate disabled: an unconditional Add(1). *)
AddUnchecked(r) ==
  /\ pc[r] = "load" /\ Disabled
  /\ inflight' = inflight + 1
  /\ pc' = [pc EXCEPT ![r] = "serving"]
  /\ UNCHANGED <<conf, cur, degraded>>

Load(r) ==
  /\ pc[r] = "load" /\ ~Disabled
  /\ cur' = [cur EXCEPT ![r] = inflight]
  /\ pc' = [pc EXCEPT ![r] = "decide"]
  /\ UNCHANGED <<conf, inflight, degraded>>

(* cur >= lim in reject mode: the no-op release, reject = true. *)
Reject(r) ==
  /\ pc[r] = "decide"
  /\ RejectMode /\ cur[r] >= Lim
  /\ pc' = [pc EXCEPT ![r] = "refused"]
  /\ UNCHANGED <<conf, inflight, cur, degraded>>

(* Mutated form: Add instead of CompareAndSwap, trusting the loaded value. *)
AddAfterCheck(r) ==
  /\ pc[r] = "decide"
  /\ RejectMode => cur[r] < Lim
  /\ inflight' = inflight + 1
  /\ degraded' = [degraded EXCEPT ![r] = ~RejectMode /\ cur[r] >= Lim]
  /\ pc' = [pc EXCEPT ![r] = "serving"]
  /\ UNCHANGED <<conf, cur>>

(* Mutated form: Store(cur + 1) overwrites what others did meanwhile. *)
StoreLoaded(r) ==
  /\ pc[r] = "decide"
  /\ RejectMode => cur[r] < Lim
  /\ inflight' = cur[r] + 1
  /\ degraded' = [degraded EXCEPT ![r] = ~RejectMode /\ cur[r] >= Lim]
  /\ pc' = [pc EXCEPT ![r] = "serving"]
  /\ UNCHANGED <<conf, cur>>

(* CompareAndSwap(cur, cur + 1) succeeds: the slot is taken. *)
CasSucceeds(r) ==
  /\ pc[r] = "decide"
  /\ RejectMode => cur[r] < Lim
  /\ inflight = cur[r]
  /\ inflight' = cur[r] + 1
  /\ degraded' = [degraded EXCEPT ![r] = ~RejectMode /\ cur[r] >= Lim]
  /\ pc' = [pc EXCEPT ![r] = "serving"]
  /\ UNCHANGED <<conf, cur>>

(* Mutated form: a failed CompareAndSwap spins without loading again. *)
CasSpins(r) ==
  /\ pc[r] = "decide"
  /\ RejectMode => cur[r] < Lim
  /\ inflight # cur[r]
  /\ UNCHANGED vars

(* It fails: another request entered or left in between; load again. *)
CasFails(r) ==
  /\ pc[r] = "decide"
  /\ RejectMode => cur[r] < Lim
  /\ inflight # cur[r]
  /\ pc' = [pc EXCEPT ![r] = "load"]
  /\ UNCHANGED <<conf, inflight, cur, degraded>>

(* Mutated form: the handler returns without running its release. *)
LeakSlot(r) ==
  /\ pc[r] = "serving"
  /\ pc' = [pc EXCEPT ![r] = "done"]
  /\ UNCHANGED <<conf, inflight, cur, degraded>>

(* defer release() when Orchestrator.Run returns: Add(-1). *)
Release(r) ==
  /\ pc[r] = "serving"
  /\ inflight' = inflight - 1
  /\ pc' = [pc EXCEPT ![r] = "done"]
  /\ UNCHANGED <<conf, cur, degraded>>

Step(r) ==
  AddUnchecked(r) \/ Load(r) \/ Reject(r) \/ CasSucceeds(r) \/ CasFails(r) \/ Release(r)

Next == \E r \in Requests : Call(r) \/ Step(r)

(* A handler that entered keeps running: goroutines are scheduled fairly    *)
(* and the calls made while serving are bounded by the request's timeout.   *)
Spec == Init /\ [][Next]_vars /\ \A r \in Requests : WF_vars(Step(r))

-----------------------------------------------------------------------------
(* The counter is exactly the number of requests inside the pipeline, so    *)
(* /status, the exported gauge and the queue depth given to the router      *)
(* never drift, whatever the interleaving of Load, CAS and Add.             *)
InflightIsHolders == inflight = Cardinality(Holders)

(* "active /infer calls cannot exceed the limit (reject mode)": the comment *)
(* of beginInferLoad.                                                       *)
RejectBound ==
  RejectMode /\ ~Disabled => Cardinality(Holders) <= QueueLimit

(* A request that called beginInferLoad is admitted or refused, and every   *)
(* admitted one gives its slot back: the CAS loop cannot spin forever among *)
(* finitely many requests.                                                  *)
EveryCallSettles ==
  \A r \in Requests : pc[r] = "load" ~> pc[r] \in {"done", "refused"}

(* What the gate shows of the loop: a refusal takes effect at the Load that *)
(* saw the limit reached, an admission at the successful CAS.               *)
Refused ==
  {r \in Requests :
     \/ pc[r] = "refused"
     \/ pc[r] = "decide" /\ RejectMode /\ cur[r] >= Lim}

Gate == INSTANCE AdmissionGate WITH
  GateSettings <- [limit : Int, reject : BOOLEAN],
  setting <- [limit |-> QueueLimit, reject |-> RejectMode],
  holders <- Holders,
  shed <- {r \in Requests : degraded[r]},
  refused <- Refused

(* A limit that int32 cannot hold is cut to another number, and the loop    *)
(* gates by that one.                                                       *)
Fits == QueueLimit < Int32Half

(* The loop of beginInferLoad implements the counting gate, unless the cut  *)
(* changes the limit: callers see one atomic decision.                      *)
GateSpec == Gate!GateInit /\ [][Fits => Gate!GateNext]_Gate!gateVars
=============================================================================
