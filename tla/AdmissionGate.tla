--------------------------- MODULE AdmissionGate ---------------------------
(***************************************************************************)
(* What the overload gate of internal/server/server.go promises: a         *)
(* counting gate in front of the /infer pipeline.  A request that passes   *)
(* holds a slot until its handler returns; when queue_limit slots are held *)
(* the gate turns requests away (overload.action = reject) or lets them in *)
(* marked for load shedding (overload.action = degrade).                   *)
(*                                                                         *)
(* Admission.tla models the lock-free code and is shown to implement this  *)
(* specification; InferPipeline.tla composes this specification with the   *)
(* rest of a request's life.                                               *)
(***************************************************************************)
EXTENDS Integers, FiniteSets

CONSTANTS
  Requests,      \* the /infer calls that may reach the gate
  GateSettings   \* the values of reliability.overload: queue_limit (disabled
                 \* when <= 0), and whether action is "reject" or "degrade"

ASSUME GateAssumption ==
  /\ GateSettings \subseteq [limit : Int, reject : BOOLEAN]
  /\ IsFiniteSet(Requests)

VARIABLES
  setting,     \* the configuration of this server; it never changes
  holders,     \* requests that hold a slot
  shed,        \* requests admitted at or above the limit (overloadDegrade)
  refused      \* requests answered reject = TRUE

gateVars == <<setting, holders, shed, refused>>

GateTypeOK ==
  /\ setting \in GateSettings
  /\ holders \subseteq Requests
  /\ shed \subseteq Requests
  /\ refused \subseteq Requests

GateInit ==
  /\ setting \in GateSettings
  /\ holders = {} /\ shed = {} /\ refused = {}

(* At or above the limit, as every caller sees it at one instant. *)
Full == setting.limit > 0 /\ Cardinality(holders) >= setting.limit

(* A request takes a slot.  In reject mode only below the limit; in degrade *)
(* mode always, and the answer says whether the limit had been reached.     *)
Admit(r) ==
  /\ r \notin holders \cup refused
  /\ setting.reject => ~Full
  /\ holders' = holders \cup {r}
  /\ shed' = IF Full THEN shed \cup {r} ELSE shed
  /\ UNCHANGED <<setting, refused>>

(* A request is turned away: it never holds a slot. *)
Refuse(r) ==
  /\ r \notin holders \cup refused
  /\ setting.reject /\ Full
  /\ refused' = refused \cup {r}
  /\ UNCHANGED <<setting, holders, shed>>

(* The deferred release() of a request that was admitted. *)
Leave(r) ==
  /\ r \in holders
  /\ holders' = holders \ {r}
  /\ UNCHANGED <<setting, shed, refused>>

GateNext == \E r \in Requests : Admit(r) \/ Refuse(r) \/ Leave(r)

GateSpec == GateInit /\ [][GateNext]_gateVars
=============================================================================
