---------------------------- MODULE Router_proofs ----------------------------
(***************************************************************************)
(* Proofs about what config.Load accepts (ConfigLoad) and what the router  *)
(* makes of it, for files with any number of backends, rules and fallback  *)
(* rules, any names and costs, and every health snapshot.                  *)
(***************************************************************************)
EXTENDS Router, FiniteSetTheorems, TLAPS

-----------------------------------------------------------------------------
(* The first of the places found, by the well-foundedness of finite sets.   *)

Below(n) == 0 .. n - 1

LEMMA HasLeast ==
  ASSUME NEW S \in SUBSET Nat, S # {}
  PROVE  LeastOf(S) \in S /\ \A m \in S : LeastOf(S) <= m
<1> DEFINE Family == {Below(n) : n \in S}
<1>1. Family \subseteq FiniteSubsetsOf(Nat) /\ Family # {}
  <2>1. ASSUME NEW n \in S PROVE Below(n) \in SUBSET Nat /\ IsFiniteSet(Below(n))
    BY FS_Interval DEF Below
  <2> QED
    BY <2>1 DEF FiniteSubsetsOf
<1>2. PICK T \in Family : \A U \in Family : <<U, T>> \notin StrictSubsetOrdering(Nat)
  <2> HIDE DEF Family
  <2> QED
    BY <1>1, FS_StrictSubsetOrderingWellFounded, WFMin
<1>3. PICK n \in S : T = Below(n)
  BY <1>2
<1>4. ASSUME NEW m \in S, m < n PROVE FALSE
  <2>1. /\ Below(m) \in SUBSET Nat /\ Below(n) \in SUBSET Nat
        /\ Below(m) \subseteq Below(n) /\ m \in Below(n) /\ m \notin Below(m)
    BY <1>4 DEF Below
  <2>2. Below(m) # Below(n)
    BY <2>1
  <2>3. <<Below(m), Below(n)>> \notin StrictSubsetOrdering(Nat)
    BY <1>2, <1>3
  <2> QED
    BY <2>1, <2>2, <2>3 DEF StrictSubsetOrdering
<1>5. \A m \in S : n <= m
  BY <1>4
<1> QED
  BY <1>5 DEF LeastOf

LEMMA LeastIsUnique ==
  ASSUME NEW S \in SUBSET Nat, NEW n \in S, \A m \in S : n <= m
  PROVE  LeastOf(S) = n
<1> DEFINE l == LeastOf(S)
<1>1. l \in S /\ l <= n
  BY HasLeast
<1>2. n <= l
  BY <1>1
<1>3. l \in Nat /\ n \in Nat
  BY <1>1
<1> HIDE DEF l
<1>4. l = n
  BY <1>1, <1>2, <1>3
<1> QED
  BY <1>4 DEF l

-----------------------------------------------------------------------------
(* The parts of a file. *)
Backend == [name : Texts, type : STRING, given : SUBSET STRING, unit : Int,
            capable : BOOLEAN]

LEMMA FileParts ==
  ASSUME NEW f \in File
  PROVE  /\ DOMAIN f.backends = 1 .. Len(f.backends) /\ Len(f.backends) \in Nat
         /\ \A i \in DOMAIN f.backends : f.backends[i] \in Backend
         /\ DOMAIN f.rules = 1 .. Len(f.rules) /\ Len(f.rules) \in Nat
<1>1. f.backends \in Seq(Backend)
  BY DEF File, Backend
<1>2. \A i \in DOMAIN f.backends : f.backends[i] \in Backend
  BY <1>1
<1> QED
  BY <1>1, <1>2 DEF File

(* What Load leaves as it is in the file. *)
LEMMA LoadKeeps ==
  ASSUME NEW f \in File
  PROVE  /\ Load(f).backends = f.backends /\ Load(f).rules = f.rules
         /\ Load(f).fallbacks = f.fallbacks /\ Load(f).knowledge = f.knowledge
BY DEF Load, File

(* BackendByName answers a place of the file whose name is written so, or 0 *)
(* when there is none.                                                      *)
LEMMA FoundByName ==
  ASSUME NEW f \in File, NEW name
  PROVE  LET b == BackendByName(Load(f), name) IN
         /\ b \in DOMAIN f.backends \cup {0}
         /\ b # 0 => f.backends[b].name = name
         /\ b = 0 => \A i \in DOMAIN f.backends : f.backends[i].name # name
<1> DEFINE found == {i \in DOMAIN f.backends : f.backends[i].name = name}
<1>1. BackendByName(Load(f), name) = IF found = {} THEN 0 ELSE LeastOf(found)
  BY LoadKeeps DEF BackendByName
<1>2. DOMAIN f.backends = 1 .. Len(f.backends) /\ Len(f.backends) \in Nat
  BY DEF File
<1>3. found \in SUBSET Nat
  BY <1>2
<1>4. found # {} => LeastOf(found) \in found
  <2> HIDE DEF found
  <2> QED
    BY <1>3, HasLeast
<1> QED
  BY <1>1, <1>2, <1>4

(* Validation compares names without the spaces around them; in a file      *)
(* that has no such spaces, what it found every lookup finds.               *)
LEMMA ValidNamesAreFound ==
  ASSUME NEW f \in File, ~Padded(f), NEW name \in BackendNames(Load(f))
  PROVE  BackendByName(Load(f), name) \in DOMAIN f.backends
<1>1. PICK i \in DOMAIN f.backends : name = Trimmed(f.backends[i].name)
  BY LoadKeeps DEF BackendNames
<1>2. f.backends[i].name \in Texts /\ ~f.backends[i].name.padded
  <2>1. f.backends[i] \in Backend
    BY FileParts
  <2> QED
    BY <2>1 DEF Backend, Padded
<1>3. name = f.backends[i].name
  BY <1>1, <1>2 DEF Trimmed, Plain, Text, Texts
<1> QED
  BY <1>3, FoundByName

-----------------------------------------------------------------------------
(* What the rules, the default and the order lead to.                       *)

InputsOK ==
  /\ file \in File /\ budget \in Int /\ degrade \in BOOLEAN
  /\ healthy \subseteq DOMAIN file.backends

LEMMA DecidingRule ==
  ASSUME InputsOK, Deciding # {}
  PROVE  /\ LeastOf(Deciding) \in DOMAIN file.rules
         /\ UseOf(LeastOf(Deciding)) \in healthy \cup {0}
<1>1. Deciding \in SUBSET Nat
  BY FileParts DEF InputsOK, Deciding
<1>2. LeastOf(Deciding) \in Deciding
  <2> HIDE DEF Deciding
  <2> QED
    BY <1>1, HasLeast
<1> QED
  BY <1>2 DEF Deciding

LEMMA FirstHealthy ==
  ASSUME InputsOK, healthy # {}
  PROVE  LeastOf(healthy) \in healthy
<1>1. healthy \in SUBSET Nat
  BY FileParts DEF InputsOK
<1> QED
  BY <1>1, HasLeast

LEMMA AtIsDecision ==
  ASSUME InputsOK, NEW b \in DOMAIN file.backends
  PROVE  /\ At(b) \in [backend : DOMAIN file.backends, cost : Int]
         /\ At(b).backend = b /\ At(b) # Undecided
<1>1. file.backends[b] \in Backend /\ b \in 1 .. Len(file.backends)
  BY FileParts DEF InputsOK
<1>2. Unit(b) \in Int
  BY <1>1 DEF Unit, Backend
<1>3. 1000 * Unit(b) \in Int
  BY <1>2
<1> QED
  BY <1>1, <1>3 DEF At, Undecided

(* A base decision is a healthy backend; without one, none is healthy, or a *)
(* name led nowhere.                                                        *)
LEMMA BaseIsHealthy ==
  ASSUME InputsOK, Base # Undecided
  PROVE  Base.backend \in healthy /\ Base = At(Base.backend)
<1> DEFINE default == BackendByName(conf, conf.default)
           use == UseOf(LeastOf(Deciding))
           first == LeastOf(healthy)
<1>1. CASE Deciding # {}
  <2>1. Base = AtFound(use) /\ use \in healthy \cup {0}
    BY <1>1, DecidingRule DEF Base
  <2> HIDE DEF use
  <2>2. use \in healthy /\ Base = At(use)
    BY <2>1 DEF AtFound
  <2> QED
    BY <2>2, AtIsDecision DEF InputsOK
<1>2. CASE Deciding = {} /\ default \in healthy \cup {0}
  <2>1. Base = AtFound(default)
    BY <1>2 DEF Base
  <2> HIDE DEF default
  <2>2. default \in healthy /\ Base = At(default)
    BY <1>2, <2>1 DEF AtFound
  <2> QED
    BY <2>2, AtIsDecision DEF InputsOK
<1>3. CASE Deciding = {} /\ default \notin healthy \cup {0}
  <2>1. healthy # {} /\ Base = At(first)
    BY <1>3 DEF Base
  <2>2. first \in healthy
    BY <2>1, FirstHealthy
  <2> HIDE DEF first
  <2> QED
    BY <2>1, <2>2, AtIsDecision DEF InputsOK
<1> QED
  BY <1>1, <1>2, <1>3

LEMMA NoBaseNoneHealthy ==
  ASSUME InputsOK, Accepted(file), Base = Undecided, ~Padded(file)
  PROVE  healthy = {}
<1> DEFINE default == BackendByName(conf, conf.default)
           use == UseOf(LeastOf(Deciding))
<1>1. ASSUME Deciding # {} PROVE FALSE
  <2>1. Base = AtFound(use) /\ use \in healthy \cup {0} /\ LeastOf(Deciding) \in DOMAIN file.rules
    BY <1>1, DecidingRule DEF Base
  <2>2. file.rules[LeastOf(Deciding)].use \in BackendNames(conf)
    BY <2>1, LoadKeeps DEF InputsOK, Accepted, Valid, RulesValid, conf
  <2>3. use \in DOMAIN file.backends
    BY <2>2, ValidNamesAreFound DEF InputsOK, UseOf, conf
  <2> HIDE DEF use
  <2>4. use # 0
    BY <2>3, FileParts DEF InputsOK
  <2> QED
    BY <2>1, <2>3, <2>4, AtIsDecision DEF AtFound
<1>2. default \in DOMAIN file.backends
  BY ValidNamesAreFound DEF InputsOK, Accepted, Valid, DefaultValid, conf
<1>3. default # 0
  <2> HIDE DEF default
  <2> QED
    BY <1>2, FileParts DEF InputsOK
<1>4. CASE default \in healthy
  <2>1. Base = At(default)
    BY <1>1, <1>3, <1>4 DEF Base, AtFound
  <2> HIDE DEF default
  <2> QED
    BY <1>2, <2>1, AtIsDecision
<1>5. CASE default \notin healthy /\ healthy # {}
  <2>1. Base = At(LeastOf(healthy))
    BY <1>1, <1>3, <1>5 DEF Base
  <2> QED
    BY <1>5, <2>1, FirstHealthy, AtIsDecision DEF InputsOK
<1> QED
  BY <1>4, <1>5

(* buildFallback compares names as written, a reader of the file without    *)
(* the spaces around them.                                                  *)
LEMMA FallbackIsMeant ==
  ASSUME InputsOK, Accepted(file), ~Padded(file), decision.backend \in DOMAIN file.backends
  PROVE  Fallback(decision.backend) = Meant
<1>1. ASSUME NEW text \in BackendNames(conf)
      PROVE  Trimmed(text) = text
  BY <1>1 DEF BackendNames, Trimmed, Plain, Text
<1>2. ASSUME NEW b \in DOMAIN file.backends
      PROVE  Trimmed(file.backends[b].name) = file.backends[b].name
  <2>1. file.backends[b].name \in Texts /\ ~file.backends[b].name.padded
    BY <1>2, FileParts DEF InputsOK, Backend, Padded
  <2> QED
    BY <2>1 DEF Trimmed, Plain, Text, Texts
<1>3. ASSUME NEW j \in DOMAIN file.fallbacks
      PROVE  /\ file.fallbacks[j].from \in BackendNames(conf)
             /\ file.fallbacks[j].to \in BackendNames(conf)
  BY <1>3, LoadKeeps DEF InputsOK, Accepted, Valid, FallbacksValid, conf
<1>4. ASSUME NEW a \in DOMAIN file.backends, NEW b \in DOMAIN file.backends,
             file.backends[a].name = file.backends[b].name
      PROVE  a = b
  <2>1. Distinct(BackendTexts(conf))
    BY DEF Accepted, Valid, BackendsValid, conf
  <2>2. conf.backends = file.backends
    BY LoadKeeps DEF InputsOK, conf
  <2>3. BackendTexts(conf) = [i \in DOMAIN file.backends |-> file.backends[i].name]
    BY <2>2 DEF BackendTexts
  <2> QED
    BY <1>4, <2>1, <2>3 DEF Distinct
<1>5. ASSUME NEW j \in DOMAIN file.fallbacks
      PROVE  BackendByName(conf, file.fallbacks[j].to) \in healthy
               <=> \E b \in healthy : Names(file.fallbacks[j].to, b)
  <2> DEFINE target == BackendByName(conf, file.fallbacks[j].to)
  <2>1. /\ target \in DOMAIN file.backends
        /\ file.backends[target].name = file.fallbacks[j].to
    <3>1. target \in DOMAIN file.backends
      BY <1>3, <1>5, ValidNamesAreFound DEF InputsOK, conf
    <3>2. target # 0
      <4> HIDE DEF target
      <4> QED
        BY <3>1, FileParts DEF InputsOK
    <3>3. target # 0 => file.backends[target].name = file.fallbacks[j].to
      BY FoundByName DEF InputsOK, conf
    <3> QED
      BY <3>1, <3>2, <3>3
  <2> HIDE DEF target
  <2>2. ASSUME NEW b \in healthy
        PROVE  Names(file.fallbacks[j].to, b) <=> target = b
    <3>1. b \in DOMAIN file.backends
      BY <2>2 DEF InputsOK
    <3>2. Names(file.fallbacks[j].to, b) <=> file.fallbacks[j].to = file.backends[b].name
      BY <1>1, <1>2, <1>3, <1>5, <3>1 DEF Names
    <3> QED
      BY <1>4, <2>1, <3>1, <3>2
  <2>3. target \in healthy <=> \E b \in healthy : Names(file.fallbacks[j].to, b)
    BY <2>2
  <2> QED
    BY <2>3 DEF target
<1>6. ASSUME NEW j \in DOMAIN file.fallbacks
      PROVE  file.fallbacks[j].from = file.backends[decision.backend].name
               <=> Names(file.fallbacks[j].from, decision.backend)
  BY <1>1, <1>2, <1>3, <1>6 DEF Names
<1> QED
  BY <1>5, <1>6 DEF Fallback, Meant

-----------------------------------------------------------------------------
(* The pass over the costs.                                                 *)

(* The eligible backends that optimizeByCost has looked at.                 *)
Looked == {b \in Eligible : b < turn}

(* The best of those so far: the cheapest, and the first of its price.      *)
BestOfLooked ==
  IF degrade \/ Looked = {} THEN decision = Base
  ELSE /\ decision.backend \in Looked
       /\ decision = [backend |-> decision.backend, cost |-> Estimate(decision.backend)]
       /\ \A c \in Looked :
            /\ Estimate(decision.backend) <= Estimate(c)
            /\ c < decision.backend => Estimate(decision.backend) < Estimate(c)

IInv ==
  /\ InputsOK
  /\ pc \in {"started", "refused", "route_error", "optimizing", "routed"}
  /\ turn \in 1 .. Len(file.backends) + 1
  /\ pc = "started" => turn = 1
  /\ pc \in {"route_error", "optimizing", "routed"} => Accepted(file)
  /\ pc = "route_error" => Base = Undecided
  /\ pc \in {"optimizing", "routed"} => Base # Undecided /\ BestOfLooked
  /\ pc = "routed" => /\ degrade \/ turn = Len(file.backends) + 1
                      /\ fallback = Fallback(decision.backend)

LEMMA Costs ==
  ASSUME InputsOK, NEW b \in DOMAIN file.backends
  PROVE  Unit(b) \in Int /\ Estimate(b) \in Int
<1>1. Unit(b) \in Int
  BY FileParts DEF InputsOK, Unit, Backend
<1>2. ASSUME NEW u \in Int PROVE (1000 + MaxTokens) * u \in Int
  BY RouterAssumption
<1> QED
  BY <1>1, <1>2 DEF Estimate

(* Whole estimates are ordered as unit costs are. *)
LEMMA EstimatesFollowUnits ==
  ASSUME InputsOK, NEW a \in DOMAIN file.backends, NEW b \in DOMAIN file.backends
  PROVE  Estimate(a) <= Estimate(b) <=> Unit(a) <= Unit(b)
<1>1. Unit(a) \in Int /\ Unit(b) \in Int
  BY Costs
<1>2. ASSUME NEW k \in Nat \ {0}, NEW x \in Int, NEW y \in Int
      PROVE  k * x <= k * y <=> x <= y
  OBVIOUS
<1>3. 1000 + MaxTokens \in Nat \ {0}
  BY RouterAssumption
<1> QED
  BY <1>1, <1>2, <1>3 DEF Estimate

(* What the steps leave alone decides everything but the pass. *)
LEMMA InputsDecide ==
  ASSUME UNCHANGED inputs
  PROVE  /\ InputsOK' = InputsOK /\ Accepted(file)' = Accepted(file) /\ Base' = Base
         /\ Eligible' = Eligible /\ degrade' = degrade /\ file' = file /\ healthy' = healthy
         /\ \A b : Estimate(b)' = Estimate(b) /\ Fallback(b)' = Fallback(b)
BY DEF inputs, InputsOK, Accepted, Base, Eligible, Estimate, Unit, Deciding, UseOf, conf,
       AtFound, At, Affordable, Capable, Fallback

(* One round of the loop. *)
LEMMA ConsiderStep ==
  ASSUME IInv, Consider
  PROVE  BestOfLooked'
<1>1. /\ InputsOK /\ ~degrade /\ Base # Undecided /\ BestOfLooked
      /\ turn \in DOMAIN file.backends /\ turn' = turn + 1 /\ UNCHANGED inputs
  BY FileParts DEF IInv, Consider, InputsOK
<1>2. /\ Eligible' = Eligible /\ Base' = Base /\ degrade' = degrade
      /\ \A b : Estimate(b)' = Estimate(b)
  BY <1>1, InputsDecide
<1>3. Eligible \subseteq DOMAIN file.backends /\ DOMAIN file.backends \subseteq Nat
  BY <1>1, FileParts DEF InputsOK, Eligible
<1>4. Looked' = IF turn \in Eligible THEN Looked \cup {turn} ELSE Looked
  BY <1>1, <1>2, <1>3 DEF Looked
<1>5. \A b \in DOMAIN file.backends : Estimate(b) \in Int
  BY <1>1, Costs
<1>6. Base = At(Base.backend) /\ Base.backend \in DOMAIN file.backends /\ Base.cost \in Int
  <2>1. Base.backend \in healthy /\ Base = At(Base.backend)
    BY <1>1, BaseIsHealthy
  <2> QED
    BY <1>1, <2>1, AtIsDecision DEF InputsOK
<1>7. decision.cost \in Int /\ decision.cost <= Base.cost
      /\ (Looked # {} => decision.cost < Base.cost)
  <2>1. CASE Looked = {}
    BY <1>1, <1>6, <2>1 DEF BestOfLooked
  <2>2. CASE Looked # {}
    <3>1. /\ decision.backend \in Looked
          /\ decision.cost = Estimate(decision.backend)
      BY <1>1, <2>2 DEF BestOfLooked
    <3>2. Estimate(decision.backend) < Base.cost
      BY <3>1 DEF Looked, Eligible
    <3> QED
      BY <1>3, <1>5, <1>6, <3>1, <3>2 DEF Looked
  <2> QED
    BY <2>1, <2>2
<1> DEFINE better == /\ turn \in healthy /\ turn \in Capable /\ Affordable(turn)
                     /\ Estimate(turn) < decision.cost
<1>8. CASE better
  <2>1. decision' = [backend |-> turn, cost |-> Estimate(turn)]
    BY <1>8 DEF Consider, Better
  <2>2. turn \in Eligible
    BY <1>1, <1>5, <1>6, <1>7, <1>8 DEF Eligible
  <2>3. ASSUME NEW c \in Looked PROVE Estimate(turn) < Estimate(c)
    <3>1. /\ decision.cost = Estimate(decision.backend)
          /\ Estimate(decision.backend) <= Estimate(c)
      BY <1>1, <2>3 DEF BestOfLooked
    <3> QED
      BY <1>1, <1>3, <1>5, <1>7, <1>8, <2>3, <3>1 DEF Looked
  <2>4. Looked' = Looked \cup {turn}
    BY <1>4, <2>2
  <2>5. ASSUME NEW c \in Looked'
        PROVE  /\ Estimate(turn) <= Estimate(c)
               /\ c < turn => Estimate(turn) < Estimate(c)
    BY <1>1, <1>3, <1>5, <2>3, <2>4, <2>5 DEF Looked
  <2>6. /\ decision'.backend = turn
        /\ decision' = [backend |-> turn, cost |-> Estimate(turn)]
        /\ turn \in Looked'
    BY <2>1, <2>4
  <2> QED
    BY <1>1, <1>2, <2>5, <2>6 DEF BestOfLooked
<1>9. CASE ~better
  <2>1. decision' = decision
    BY <1>9 DEF Consider, Better
  <2>2. turn \in Eligible => decision.cost <= Estimate(turn)
    BY <1>1, <1>5, <1>7, <1>9 DEF Eligible
  <2>3. CASE Looked = {}
    <3>1. turn \notin Eligible
      BY <1>1, <1>5, <1>6, <2>2, <2>3 DEF BestOfLooked, Eligible
    <3> QED
      BY <1>1, <1>2, <1>4, <2>1, <2>3, <3>1 DEF BestOfLooked
  <2>4. CASE Looked # {}
    <3>1. /\ decision.backend \in Looked
          /\ decision = [backend |-> decision.backend, cost |-> Estimate(decision.backend)]
          /\ \A c \in Looked :
               /\ Estimate(decision.backend) <= Estimate(c)
               /\ c < decision.backend => Estimate(decision.backend) < Estimate(c)
      BY <1>1, <2>4 DEF BestOfLooked
    <3>2. decision.cost = Estimate(decision.backend)
      BY <3>1
    <3>3. decision.backend < turn
      BY <3>1 DEF Looked
    <3>4. \A c \in Looked' :
            /\ Estimate(decision.backend) <= Estimate(c)
            /\ c < decision.backend => Estimate(decision.backend) < Estimate(c)
      BY <1>1, <1>3, <1>4, <2>2, <3>1, <3>2, <3>3 DEF Looked
    <3> QED
      BY <1>1, <1>2, <1>4, <2>1, <2>4, <3>1, <3>4 DEF BestOfLooked
  <2> QED
    BY <2>3, <2>4
<1> QED
  BY <1>8, <1>9

LEMMA Invariant == Spec => []IInv
<1>1. Init => IInv
  <2> SUFFICES ASSUME Init PROVE IInv
    OBVIOUS
  <2>1. InputsOK
    BY RouterAssumption DEF Init, InputsOK
  <2> QED
    BY <2>1, FileParts DEF Init, IInv, InputsOK
<1>2. IInv /\ [Next]_vars => IInv'
  <2> SUFFICES ASSUME IInv, [Next]_vars PROVE IInv'
    OBVIOUS
  <2>1. UNCHANGED inputs
    BY DEF Next, Refuse, SelectByRules, Consider, Return, vars
  <2>2. /\ InputsOK' = InputsOK /\ Accepted(file)' = Accepted(file) /\ Base' = Base
        /\ Eligible' = Eligible /\ degrade' = degrade /\ file' = file
        /\ \A b : Estimate(b)' = Estimate(b) /\ Fallback(b)' = Fallback(b)
    BY <2>1, InputsDecide
  <2>3. Len(file.backends) \in Nat
    BY FileParts DEF IInv, InputsOK
  <2>4. turn' = turn /\ decision' = decision => BestOfLooked' = BestOfLooked
    BY <2>2 DEF BestOfLooked, Looked
  <2>5. CASE Refuse
    BY <2>2, <2>5 DEF Refuse, IInv
  <2>6. CASE SelectByRules /\ Base = Undecided
    BY <2>2, <2>6 DEF SelectByRules, IInv
  <2>7. CASE SelectByRules /\ Base # Undecided
    <3>1. turn = 1 /\ turn' = 1 /\ decision' = Base
      BY <2>7 DEF SelectByRules, IInv
    <3>2. Eligible \subseteq DOMAIN file.backends /\ DOMAIN file.backends = 1 .. Len(file.backends)
      BY FileParts DEF IInv, InputsOK, Eligible
    <3>3. Looked' = {}
      BY <2>2, <2>3, <3>1, <3>2 DEF Looked
    <3>4. BestOfLooked'
      BY <2>2, <3>1, <3>3 DEF BestOfLooked
    <3> QED
      BY <2>2, <2>7, <3>1, <3>4 DEF SelectByRules, IInv
  <2>8. CASE Consider
    <3>1. BestOfLooked'
      BY <2>8, ConsiderStep
    <3> QED
      BY <2>2, <2>3, <2>8, <3>1 DEF Consider, IInv
  <2>9. CASE Return
    BY <2>2, <2>3, <2>4, <2>9 DEF Return, IInv
  <2>10. CASE UNCHANGED vars
    BY <2>2, <2>4, <2>10 DEF vars, IInv
  <2> QED
    BY <2>5, <2>6, <2>7, <2>8, <2>9, <2>10 DEF Next
<1> QED
  BY <1>1, <1>2, PTL DEF Spec

-----------------------------------------------------------------------------
(* OptimizesToCheapest: after the pass the decision is that of the rules,   *)
(* or the cheapest healthy backend that can do the task within the budget   *)
(* and whose whole estimate undercuts it, the first among equals.           *)
THEOREM TakesTheCheapest == Spec => []OptimizesToCheapest
<1>1. ASSUME IInv, Routed PROVE OptimizesToCheapest
  <2>1. /\ InputsOK /\ BestOfLooked /\ (degrade \/ turn = Len(file.backends) + 1)
    BY <1>1 DEF IInv, Routed
  <2>2. Eligible \subseteq DOMAIN file.backends
        /\ DOMAIN file.backends = 1 .. Len(file.backends) /\ Len(file.backends) \in Nat
    BY <2>1, FileParts DEF InputsOK, Eligible
  <2>3. CASE degrade \/ Eligible = {}
    BY <2>1, <2>3 DEF BestOfLooked, Looked, OptimizesToCheapest
  <2>4. CASE ~degrade /\ Eligible # {}
    <3> DEFINE Cheapest == {b \in Eligible : \A c \in Eligible : Unit(b) <= Unit(c)}
               best == decision.backend
    <3>1. Looked = Eligible
      BY <2>1, <2>2, <2>4 DEF Looked
    <3>2. /\ best \in Eligible
          /\ \A c \in Eligible : /\ Estimate(best) <= Estimate(c)
                                 /\ c < best => Estimate(best) < Estimate(c)
      BY <2>1, <2>4, <3>1 DEF BestOfLooked
    <3>3. \A b \in Eligible : Estimate(b) \in Int
      BY <2>1, <2>2, Costs
    <3>4. \A b, c \in Eligible : Estimate(b) <= Estimate(c) <=> Unit(b) <= Unit(c)
      BY <2>1, <2>2, EstimatesFollowUnits
    <3> HIDE DEF best
    <3>5. best \in Cheapest
      BY <3>2, <3>4
    <3>6. \A c \in Cheapest : best <= c
      <4>1. ASSUME NEW c \in Cheapest, c < best PROVE FALSE
        <5>1. c \in Eligible /\ Estimate(c) <= Estimate(best) /\ Estimate(best) < Estimate(c)
          BY <3>2, <3>4, <4>1
        <5> QED
          BY <3>2, <3>3, <5>1
      <4> QED
        BY <2>2, <3>2, <4>1
    <3>7. Cheapest \in SUBSET Nat
      BY <2>2
    <3> HIDE DEF Cheapest
    <3>8. LeastOf(Cheapest) = best
      BY <3>5, <3>6, <3>7, LeastIsUnique
    <3> QED
      BY <2>4, <3>8 DEF OptimizesToCheapest, Cheapest, best
  <2> QED
    BY <2>3, <2>4
<1>2. IInv => OptimizesToCheapest
  BY <1>1 DEF OptimizesToCheapest
<1> QED
  BY <1>2, Invariant, PTL

(* AcceptedConfigWorks: a file that config.Load accepted leads every        *)
(* request to a healthy backend or, when there is none, to an error;        *)
(* fallback rules, adapters, knowledge bases and the ledger are what the    *)
(* file says.  Spaces around the name of a backend are the one exception.   *)
THEOREM AcceptedFilesWork == Spec => []AcceptedConfigWorks
<1>1. ASSUME IInv, Routed PROVE decision.backend \in healthy
  <2>1. InputsOK /\ BestOfLooked /\ Base # Undecided
    BY <1>1 DEF IInv, Routed
  <2> QED
    BY <2>1, BaseIsHealthy DEF BestOfLooked, Looked, Eligible
<1>2. ASSUME IInv, pc = "route_error" PROVE healthy = {} \/ Padded(file)
  BY <1>2, NoBaseNoneHealthy DEF IInv
<1>3. ASSUME IInv, Routed PROVE fallback = Meant \/ Padded(file)
  BY <1>1, <1>3, FallbackIsMeant DEF IInv, InputsOK, Routed
<1>4. ASSUME IInv, pc \in {"routed", "route_error"}
      PROVE  /\ \A i \in DOMAIN conf.backends : HasAdapter(conf.backends[i])
             /\ \A i \in DOMAIN conf.knowledge : HasRetrieval(conf.knowledge[i])
             /\ conf.ledger.enabled => HasLedger(conf)
  <2>1. Valid(conf)
    BY <1>4 DEF IInv, Accepted, conf
  <2>2. DOMAIN BackendNeeds = AdapterTypes
    BY DEF BackendNeeds, AdapterTypes
  <2>3. ASSUME NEW kb, Meets(KnowledgeNeeds, kb) PROVE Meets(RetrievalNeeds, kb)
    BY <2>3 DEF Meets, KnowledgeNeeds, RetrievalNeeds
  <2> QED
    BY <2>1, <2>2, <2>3 DEF Valid, BackendsValid, KnowledgeValid, LedgerValid, Meets, HasAdapter,
       HasRetrieval, HasLedger
<1>5. IInv => AcceptedConfigWorks
  BY <1>1, <1>2, <1>3, <1>4 DEF AcceptedConfigWorks
<1> QED
  BY <1>5, Invariant, PTL
=============================================================================
