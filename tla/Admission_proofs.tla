-------------------------- MODULE Admission_proofs --------------------------
(***************************************************************************)
(* Proofs about the admission loop, for any finite set of requests and any *)
(* configured limit.                                                       *)
(***************************************************************************)
EXTENDS Admission, FiniteSetTheorems, TLAPS

(* The limit in force is a number, and refusing is the choice of the        *)
(* configuration.                                                           *)
LEMMA LimitIsInt ==
  ASSUME conf \in Configs
  PROVE  QueueLimit \in Int /\ RejectMode \in BOOLEAN
BY AdmissionAssumption DEF QueueLimit, RejectMode

(* No step changes the configuration, so none changes the limit.            *)
LEMMA SettingFixed ==
  ASSUME [Next]_vars
  PROVE  /\ conf' = conf
         /\ QueueLimit' = QueueLimit /\ RejectMode' = RejectMode
         /\ Disabled' = Disabled /\ Lim' = Lim
<1>1. conf' = conf
  BY DEF Next, Step, vars, Call, AddUnchecked, Load, Reject, CasSucceeds, CasFails, Release
<1>2. QueueLimit' = QueueLimit /\ RejectMode' = RejectMode
  BY <1>1 DEF QueueLimit, RejectMode
<1> QED
  BY <1>1, <1>2 DEF Disabled, Lim

(* The conversion of a positive limit to int32 never yields a larger limit. *)
LEMMA Int32NotLarger ==
  ASSUME conf \in Configs, ~Disabled
  PROVE  Lim \in Int /\ Lim <= QueueLimit
<1>1. QueueLimit \in Int
  BY LimitIsInt
<1>2. ASSUME QueueLimit \notin -Int32Half .. Int32Half - 1
      PROVE  Lim \in Int /\ Lim <= QueueLimit
  <2> DEFINE m == (QueueLimit + Int32Half) % (2 * Int32Half)
  <2>1. Int32Half \in Nat /\ Int32Half > 0 /\ QueueLimit >= Int32Half
    BY <1>1, <1>2, AdmissionAssumption DEF Disabled
  <2>2. 2 * Int32Half \in Nat /\ 2 * Int32Half > 0
    BY <2>1
  <2> DEFINE d == 2 * Int32Half
  <2>3. \A a \in Int, b \in Nat : b > 0 => a % b \in 0 .. b - 1
    OBVIOUS
  <2>4. m \in 0 .. d - 1
    BY <1>1, <2>1, <2>2, <2>3
  <2>5. Lim = m - Int32Half
    BY <1>2 DEF Lim, Int32
  <2> HIDE DEF m
  <2> QED
    BY <1>1, <2>1, <2>4, <2>5
<1>3. ASSUME QueueLimit \in -Int32Half .. Int32Half - 1
      PROVE  Lim \in Int /\ Lim <= QueueLimit
  BY <1>1, <1>3 DEF Lim, Int32
<1> QED
  BY <1>2, <1>3

(* Taking or giving back one slot changes the number of holders by one. *)
LEMMA HolderCount ==
  ASSUME NEW S \in SUBSET Requests, NEW r \in Requests
  PROVE  /\ IsFiniteSet(S) /\ Cardinality(S) \in Nat
         /\ r \notin S => Cardinality(S \cup {r}) = Cardinality(S) + 1
         /\ r \in S => Cardinality(S \ {r}) = Cardinality(S) - 1
<1>1. IsFiniteSet(S)
  BY AdmissionAssumption, FS_Subset
<1> QED
  BY <1>1, FS_CardinalityType, FS_AddElement, FS_RemoveElement

-----------------------------------------------------------------------------
(* The variables keep their types: no handler is ever in an unknown place   *)
(* of beginInferLoad.                                                       *)
LEMMA TypesCorrect == Spec => []Types
<1>1. Init => Types
  BY DEF Init, Types, Places
<1>2. Types /\ [Next]_vars => Types'
  <2> SUFFICES ASSUME Types, [Next]_vars PROVE Types'
    OBVIOUS
  <2> USE DEF Types, Places
  <2>1. ASSUME NEW r \in Requests, Call(r) PROVE Types'
    BY <2>1 DEF Call
  <2>2. ASSUME NEW r \in Requests, AddUnchecked(r) PROVE Types'
    BY <2>2 DEF AddUnchecked
  <2>3. ASSUME NEW r \in Requests, Load(r) PROVE Types'
    BY <2>3 DEF Load
  <2>4. ASSUME NEW r \in Requests, Reject(r) PROVE Types'
    BY <2>4 DEF Reject
  <2>5. ASSUME NEW r \in Requests, CasSucceeds(r) PROVE Types'
    BY <2>5 DEF CasSucceeds
  <2>6. ASSUME NEW r \in Requests, CasFails(r) PROVE Types'
    BY <2>6 DEF CasFails
  <2>7. ASSUME NEW r \in Requests, Release(r) PROVE Types'
    BY <2>7 DEF Release
  <2>8. CASE UNCHANGED vars
    BY <2>8 DEF vars
  <2> QED
    BY <2>1, <2>2, <2>3, <2>4, <2>5, <2>6, <2>7, <2>8 DEF Next, Step
<1> QED
  BY <1>1, <1>2, PTL DEF Spec

(* What each step does to the set of holders. *)
LEMMA HoldersStep ==
  ASSUME Types, NEW r \in Requests
  PROVE  /\ Holders \subseteq Requests
         /\ AddUnchecked(r) \/ CasSucceeds(r) =>
              r \notin Holders /\ Holders' = Holders \cup {r}
         /\ Release(r) => r \in Holders /\ Holders' = Holders \ {r}
         /\ Call(r) \/ Load(r) \/ Reject(r) \/ CasFails(r) => Holders' = Holders
BY DEF Types, Holders, AddUnchecked, CasSucceeds, Release, Call, Load, Reject, CasFails

CountInv == Types /\ InflightIsHolders /\ RejectBound

(* The counter never drifts from the set of requests that hold a slot, and  *)
(* in reject mode the holders never exceed the limit.  Inductive only       *)
(* together: the CAS compares with the counter, the bound is on the set.    *)
THEOREM CountCorrect == Spec => []CountInv
<1>1. Init => CountInv
  <2> SUFFICES ASSUME Init PROVE InflightIsHolders /\ RejectBound /\ Types
    BY DEF CountInv
  <2>1. Holders = {}
    BY DEF Init, Holders
  <2>2. Cardinality(Holders) = 0
    BY <2>1, FS_EmptySet
  <2>3. RejectBound
    BY <2>2, LimitIsInt DEF Init, RejectBound, Disabled
  <2> QED
    BY <2>2, <2>3 DEF Init, InflightIsHolders, Types, Places
<1>2. CountInv /\ Types' /\ [Next]_vars => CountInv'
  <2> SUFFICES ASSUME CountInv, Types', [Next]_vars
               PROVE  InflightIsHolders' /\ RejectBound'
    BY DEF CountInv
  <2>0. /\ Types /\ InflightIsHolders /\ RejectBound
        /\ QueueLimit \in Int
        /\ QueueLimit' = QueueLimit /\ RejectMode' = RejectMode /\ Disabled' = Disabled
    BY LimitIsInt, SettingFixed DEF CountInv, Types
  <2> DEFINE n == Cardinality(Holders)
  <2>1. Holders \subseteq Requests /\ n \in Nat
    <3>1. Holders \in SUBSET Requests
      BY DEF Holders
    <3> QED
      BY <3>1, AdmissionAssumption, FS_Subset, FS_CardinalityType
  <2>2. ASSUME NEW r \in Requests, AddUnchecked(r)
        PROVE  InflightIsHolders' /\ RejectBound'
    <3>1. Cardinality(Holders') = n + 1
      BY <2>0, <2>1, <2>2, HoldersStep, HolderCount
    <3>2. inflight' = inflight + 1 /\ Disabled
      BY <2>2 DEF AddUnchecked
    <3> QED
      BY <2>0, <3>1, <3>2 DEF InflightIsHolders, RejectBound
  <2>3. ASSUME NEW r \in Requests, CasSucceeds(r)
        PROVE  InflightIsHolders' /\ RejectBound'
    <3>1. Cardinality(Holders') = n + 1
      BY <2>0, <2>1, <2>3, HoldersStep, HolderCount
    <3>2. /\ inflight = cur[r] /\ inflight' = cur[r] + 1
          /\ RejectMode => cur[r] < Lim
      BY <2>3 DEF CasSucceeds
    <3>3. inflight = n
      BY <2>0 DEF InflightIsHolders
    <3>5. RejectMode /\ ~Disabled => n + 1 <= QueueLimit
      BY <2>0, <2>1, <3>2, <3>3, Int32NotLarger DEF Types
    <3>6. InflightIsHolders'
      BY <3>1, <3>2, <3>3 DEF InflightIsHolders
    <3> QED
      BY <2>0, <3>1, <3>5, <3>6 DEF RejectBound
  <2>4. ASSUME NEW r \in Requests, Release(r)
        PROVE  InflightIsHolders' /\ RejectBound'
    <3>1. Cardinality(Holders') = n - 1
      BY <2>0, <2>1, <2>4, HoldersStep, HolderCount
    <3>2. inflight' = inflight - 1
      BY <2>4 DEF Release
    <3> QED
      BY <2>0, <2>1, <3>1, <3>2 DEF InflightIsHolders, RejectBound
  <2>5. ASSUME NEW r \in Requests, Call(r) \/ Load(r) \/ Reject(r) \/ CasFails(r)
        PROVE  InflightIsHolders' /\ RejectBound'
    <3>1. Holders' = Holders
      BY <2>0, <2>5, HoldersStep
    <3>2. inflight' = inflight
      BY <2>5 DEF Call, Load, Reject, CasFails
    <3> QED
      BY <2>0, <3>1, <3>2 DEF InflightIsHolders, RejectBound
  <2>6. CASE UNCHANGED vars
    BY <2>0, <2>6 DEF vars, InflightIsHolders, RejectBound, Holders
  <2> QED
    BY <2>2, <2>3, <2>4, <2>5, <2>6 DEF Next, Step
<1> QED
  BY <1>1, <1>2, TypesCorrect, PTL DEF Spec

(* InflightIsHolders: whatever interleaving of Load, CAS and Add, the       *)
(* counter that /status and the router read is the number of requests       *)
(* between beginInferLoad and their release.                                *)
THEOREM CounterIsHolders == Spec => []InflightIsHolders
<1>1. CountInv => InflightIsHolders
  BY DEF CountInv
<1> QED
  BY <1>1, CountCorrect, PTL

(* "active /infer calls cannot exceed the limit (reject mode)", and the     *)
(* gauge tells the truth, for every limit, even one that int32 cuts short.  *)
THEOREM RejectModeBounded == Spec => [](RejectBound /\ InflightIsHolders)
<1>1. CountInv => RejectBound /\ InflightIsHolders
  BY DEF CountInv
<1> QED
  BY <1>1, CountCorrect, PTL

(* The variables keep their types, and the counter stays between zero and   *)
(* the number of requests however the atomic operations interleave.         *)
THEOREM TypeCorrect == Spec => []TypeOK
<1>1. CountInv => TypeOK
  <2>1. Holders \in SUBSET Requests
    BY DEF Holders
  <2>2. Cardinality(Holders) \in Nat /\ Cardinality(Requests) \in Nat
    BY <2>1, AdmissionAssumption, FS_Subset, FS_CardinalityType
  <2>3. Cardinality(Holders) <= Cardinality(Requests)
    BY <2>1, AdmissionAssumption, FS_Subset
  <2> QED
    BY <2>2, <2>3 DEF CountInv, TypeOK, InflightIsHolders
<1> QED
  BY <1>1, CountCorrect, PTL

-----------------------------------------------------------------------------
(* Only a request that was admitted carries the load-shedding mark, and the *)
(* compare-and-swap loop runs only when the gate is on.                     *)
MarkInv ==
  \A r \in Requests :
    /\ degraded[r] => pc[r] \in {"serving", "done"}
    /\ pc[r] = "decide" => ~Disabled

LEMMA MarkCorrect == Spec => []MarkInv
<1>1. Init => MarkInv
  BY DEF Init, MarkInv
<1>2. Types /\ MarkInv /\ [Next]_vars => MarkInv'
  BY SettingFixed
     DEF Types, MarkInv, Next, Step, vars, Call, AddUnchecked, Load, Reject,
         CasSucceeds, CasFails, Release
<1> QED
  BY <1>1, <1>2, TypesCorrect, PTL DEF Spec

(* Each atomic operation of the loop is a step of the counting gate, or     *)
(* changes nothing the gate shows, as long as int32 holds the limit.        *)
LEMMA StepRefines ==
  ASSUME Fits, CountInv, MarkInv, NEW r \in Requests,
         Call(r) \/ Step(r)
  PROVE  [Gate!GateNext]_Gate!gateVars
<1> DEFINE shed == {q \in Requests : degraded[q]}
<1>0. /\ Types /\ InflightIsHolders
      /\ QueueLimit \in Int /\ Int32Half \in Nat
      /\ QueueLimit < Int32Half
      /\ RejectMode \in BOOLEAN
  BY AdmissionAssumption, LimitIsInt DEF CountInv, Types, Fits
<1>00. /\ conf' = conf /\ Lim' = Lim
       /\ QueueLimit' = QueueLimit /\ RejectMode' = RejectMode
  BY SettingFixed DEF Next
<1>1. ~Disabled => Lim = QueueLimit
  BY <1>0 DEF Lim, Int32, Disabled
<1>2. Gate!Full <=> QueueLimit > 0 /\ inflight >= QueueLimit
  BY <1>0 DEF Gate!Full, Gate!Cardinality, Cardinality, InflightIsHolders
<1>3. Gate!Admit(r) \/ Gate!Refuse(r) \/ Gate!Leave(r) => Gate!GateNext
  BY DEF Gate!GateNext
<1>4. /\ Holders' = Holders /\ Refused' = Refused /\ shed' = shed
      => UNCHANGED Gate!gateVars
  BY <1>00 DEF Gate!gateVars
<1>5. CASE Call(r)
  <2>1. Holders' = Holders /\ shed' = shed
    BY <1>0, <1>5 DEF Types, Holders, Call
  <2>2. Refused' = Refused
    BY <1>00, <1>0, <1>5 DEF Types, Refused, Call
  <2> QED
    BY <2>1, <2>2, <1>4
<1>6. CASE AddUnchecked(r)
  <2>1. Holders' = Holders \cup {r} /\ shed' = shed /\ r \notin Holders
    BY <1>0, <1>6 DEF Types, Holders, AddUnchecked
  <2>2. Refused' = Refused /\ r \notin Refused
    BY <1>00, <1>0, <1>6 DEF Types, Refused, AddUnchecked
  <2>3. ~Gate!Full
    BY <1>0, <1>2, <1>6 DEF AddUnchecked, Disabled
  <2> QED
    BY <1>00, <1>3, <2>1, <2>2, <2>3 DEF Gate!Admit
<1>7. CASE Load(r)
  <2>1. Holders' = Holders /\ shed' = shed /\ r \notin Holders
    BY <1>0, <1>7 DEF Types, Holders, Load
  <2>2. /\ r \notin Refused
        /\ Refused' = IF RejectMode /\ inflight >= Lim
                      THEN Refused \cup {r} ELSE Refused
    BY <1>00, <1>0, <1>7 DEF Types, Refused, Load
  <2>3. QueueLimit > 0 /\ Lim = QueueLimit
    BY <1>0, <1>1, <1>7 DEF Load, Disabled
  <2>4. CASE RejectMode /\ inflight >= Lim
    BY <1>00, <1>2, <1>3, <2>1, <2>2, <2>3, <2>4 DEF Gate!Refuse
  <2>5. CASE ~(RejectMode /\ inflight >= Lim)
    BY <1>4, <2>1, <2>2, <2>5
  <2> QED
    BY <2>4, <2>5
<1>8. CASE Reject(r)
  <2>1. Holders' = Holders /\ shed' = shed
    BY <1>0, <1>8 DEF Types, Holders, Reject
  <2>2. Refused' = Refused
    BY <1>00, <1>0, <1>8 DEF Types, Refused, Reject
  <2> QED
    BY <2>1, <2>2, <1>4
<1>9. CASE CasSucceeds(r)
  <2> DEFINE mark == ~RejectMode /\ cur[r] >= Lim
  <2>1. Holders' = Holders \cup {r} /\ r \notin Holders
    BY <1>0, <1>9 DEF Types, Holders, CasSucceeds
  <2>5. ~Disabled
    BY <1>9 DEF MarkInv, CasSucceeds
  <2>6. cur[r] \in Int /\ Lim \in Int /\ (RejectMode => cur[r] < Lim)
    BY <1>0, <1>9, <2>5, Int32NotLarger DEF Types, CasSucceeds
  <2>2. Refused' = Refused /\ r \notin Refused
    <3>1. r \notin Refused
      BY <1>9, <2>6 DEF Refused, CasSucceeds
    <3>3. ASSUME NEW q \in Requests PROVE q \in Refused' <=> q \in Refused
      BY <1>00, <3>1, <1>0, <1>9 DEF Types, Refused, CasSucceeds
    <3> QED
      BY <3>1, <3>3 DEF Refused
  <2>3. r \notin shed
    BY <1>9 DEF MarkInv, CasSucceeds
  <2>4. shed' = IF mark THEN shed \cup {r} ELSE shed
    <3>1. degraded' = [degraded EXCEPT ![r] = mark]
      BY <1>9 DEF CasSucceeds
    <3>2. mark \in BOOLEAN
      OBVIOUS
    <3> HIDE DEF mark
    <3> QED
      BY <1>0, <2>3, <3>1, <3>2 DEF Types
  <2>7. QueueLimit > 0 /\ Lim = QueueLimit /\ inflight = cur[r]
    BY <1>0, <1>1, <1>9, <2>5 DEF CasSucceeds, Disabled
  <2>8. Gate!Full <=> cur[r] >= Lim
    BY <1>2, <2>7
  <2>9. mark <=> (~RejectMode /\ Gate!Full)
    BY <2>6, <2>8
  <2>10. RejectMode => ~Gate!Full
    BY <2>6, <2>8
  <2> HIDE DEF mark
  <2> QED
    BY <1>00, <1>3, <2>1, <2>2, <2>4, <2>9, <2>10 DEF Gate!Admit
<1>10. CASE CasFails(r)
  <2>1. Holders' = Holders /\ shed' = shed
    BY <1>0, <1>10 DEF Types, Holders, CasFails
  <2>2. cur[r] \in Int /\ Lim \in Int /\ (RejectMode => cur[r] < Lim)
    BY <1>0, <1>10, Int32NotLarger DEF Types, CasFails, MarkInv
  <2>4. ASSUME NEW q \in Requests PROVE q \in Refused' <=> q \in Refused
    BY <1>00, <1>0, <1>10, <2>2 DEF Types, Refused, CasFails
  <2>5. Refused' = Refused
    BY <2>4 DEF Refused
  <2> QED
    BY <1>4, <2>1, <2>5
<1>11. CASE Release(r)
  <2>1. Holders' = Holders \ {r} /\ r \in Holders /\ shed' = shed
    BY <1>0, <1>11 DEF Types, Holders, Release
  <2>2. Refused' = Refused
    BY <1>00, <1>0, <1>11 DEF Types, Refused, Release
  <2> QED
    BY <1>00, <1>3, <2>1, <2>2 DEF Gate!Leave
<1> QED
  BY <1>5, <1>6, <1>7, <1>8, <1>9, <1>10, <1>11 DEF Step


(* The compare-and-swap loop implements the counting gate, as long as the   *)
(* limit survives its conversion to int32: seen from the rest of the        *)
(* server, a request is let in or turned away in one step, on the number of *)
(* slots held at that instant.                                              *)
THEOREM ImplementsGate == Spec => GateSpec
<1>1. Init => Gate!GateInit
  <2> SUFFICES ASSUME Init PROVE Gate!GateInit
    OBVIOUS
  <2>1. Holders = {} /\ {q \in Requests : degraded[q]} = {} /\ Refused = {}
    BY DEF Init, Holders, Refused
  <2> QED
    BY <2>1, LimitIsInt DEF Init, Gate!GateInit
<1>2. CountInv /\ MarkInv /\ [Next]_vars => [Fits => Gate!GateNext]_Gate!gateVars
  <2>1. CASE UNCHANGED vars
    BY <2>1, SettingFixed DEF vars, Gate!gateVars, Holders, Refused
  <2>2. CASE Fits
    BY <2>1, <2>2, StepRefines DEF Next
  <2>3. CASE ~Fits
    BY <2>3
  <2> QED
    BY <2>2, <2>3
<1> QED
  BY <1>1, <1>2, CountCorrect, MarkCorrect, PTL DEF Spec, GateSpec
=============================================================================
