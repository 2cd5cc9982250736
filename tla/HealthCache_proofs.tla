------------------------- MODULE HealthCache_proofs -------------------------
(***************************************************************************)
(* Proofs about the health cache, for any callers, any number of backends, *)
(* any TTL and any timeout of a check.                                     *)
(***************************************************************************)
EXTENDS HealthCache, TLAPS

(* The time n checks may take.  The two facts are all the proofs need of    *)
(* multiplication.                                                          *)
Span(n) == n * PerCheck

LEMMA Spans ==
  /\ \A n \in Nat : Span(n) \in Nat
  /\ Span(0) = 0
  /\ \A n \in Nat : Span(n + 1) = Span(n) + PerCheck
  /\ Oldest = TTL - 1 + Span(Backends - 1)
BY CacheAssumption DEF Span, Oldest

(* Oldest and Cap are numbers. *)
LEMMA OldestNat == Oldest \in Nat /\ Cap \in Nat /\ Cap = Oldest + 1
BY Spans, CacheAssumption DEF Cap

(* The types of all variables but stored, which only Store changes.         *)
Types ==
  /\ age \in 0 .. TTL
  /\ seen \in [1 .. Backends -> 0 .. Cap]
  /\ stage \in {"none", "recheck", "check", "store", "finish"}
  /\ turn \in 1 .. Backends
  /\ elapsed \in 0 .. PerCheck
  /\ found \in [1 .. Backends -> 0 .. Cap]
  /\ pc \in [Callers -> {"idle", "peek", "join", "lead", "wait", "done"}]
  /\ got \in [Callers -> 0 .. Cap]

(* They keep their types: ages stay under their cap (Older). *)
LEMMA TypesCorrect == Spec => []Types
<1>1. Init => Types
  BY OldestNat, CacheAssumption DEF Init, Types
<1>2. Types /\ [Next]_vars => Types'
  <2> SUFFICES ASSUME Types, [Next]_vars PROVE Types'
    OBVIOUS
  <2> USE OldestNat, CacheAssumption DEF Types, snapVars, flightVars
  <2>1. CASE Tick
    <3>1. \A n \in 0 .. Cap : Older(n) \in 0 .. Cap
      BY DEF Older
    <3>2. seen' \in [1 .. Backends -> 0 .. Cap] /\ found' \in [1 .. Backends -> 0 .. Cap]
      BY <2>1, <3>1 DEF Tick
    <3>3. age' \in 0 .. TTL
      BY <2>1 DEF Tick
    <3>4. elapsed' \in 0 .. PerCheck
      BY <2>1 DEF Tick
    <3> QED
      BY <2>1, <3>2, <3>3, <3>4 DEF Tick
  <2>2. CASE Recheck
    BY <2>2 DEF Recheck
  <2>3. CASE CheckAnswers
    BY <2>3 DEF CheckAnswers
  <2>4. CASE Store
    BY <2>4 DEF Store
  <2>5. CASE Finish
    BY <2>5 DEF Finish, AgeOf
  <2>6. ASSUME NEW c \in Callers, Call(c) PROVE Types'
    BY <2>6 DEF Call, Move
  <2>7. ASSUME NEW c \in Callers, PeekHit(c) PROVE Types'
    BY <2>7 DEF PeekHit, Move, AgeOf
  <2>8. ASSUME NEW c \in Callers, PeekMiss(c) \/ Wait(c) PROVE Types'
    BY <2>8 DEF PeekMiss, Wait, Move
  <2>9. ASSUME NEW c \in Callers, Lead(c) PROVE Types'
    BY <2>9 DEF Lead, Move
  <2>10. ASSUME NEW c \in Callers, Return(c) PROVE Types'
    BY <2>10 DEF Return, Move
  <2>11. CASE UNCHANGED vars
    BY <2>11 DEF vars
  <2> QED
    BY <2>1, <2>2, <2>3, <2>4, <2>5, <2>6, <2>7, <2>8, <2>9, <2>10, <2>11
       DEF Next, Flight, CallerStep
<1> QED
  BY <1>1, <1>2, PTL DEF Spec

(* healthSnapshot, healthAt and the flight keep their types at every step. *)
THEOREM TypeCorrect == Spec => []TypeOK
<1> DEFINE Flag == stored \in BOOLEAN
<1>1. Init => Flag
  BY Zenon DEF Init
<1>2. Flag /\ [Next]_vars => Flag'
  <2> SUFFICES ASSUME Flag, [Next]_vars PROVE Flag'
    OBVIOUS
  <2>1. stored' = stored \/ stored' = TRUE
    BY DEF Next, vars, snapVars, Tick, Flight, Recheck, CheckAnswers, Store, Finish, Call,
           CallerStep, PeekHit, PeekMiss, Lead, Wait, Return
  <2> QED
    BY <2>1, Zenon
<1>3. Types /\ Flag => TypeOK
  BY Zenon DEF Types, TypeOK
<1> QED
  BY <1>1, <1>2, <1>3, TypesCorrect, PTL DEF Spec

-----------------------------------------------------------------------------
(* Where the oldest check may stand: in the snapshot, by its age; in the    *)
(* flight, by the checks after it.  Time stands still outside the checks.   *)
Lag == Span(Backends - 1)

SnapAge == age < TTL => seen[1] <= age + Lag

FlightAge ==
  /\ stage = "check" /\ turn > 1 => found[1] <= Span(turn - 2) + elapsed
  /\ stage = "store" => found[1] <= Lag
  /\ stage = "finish" => found[1] <= Oldest

AgeInv == SnapAge /\ FlightAge /\ StalenessBounded

(* What arithmetic needs to know of a state with Types. *)
LEMMA Numbers ==
  ASSUME Types
  PROVE  /\ seen[1] \in 0 .. Cap /\ found[1] \in 0 .. Cap
         /\ age \in 0 .. TTL /\ elapsed \in 0 .. PerCheck /\ turn \in 1 .. Backends
         /\ Lag \in Nat /\ Oldest = TTL - 1 + Lag
         /\ TTL \in Nat \ {0} /\ PerCheck \in Nat \ {0} /\ Backends \in Nat \ {0}
<1>1. 1 \in 1 .. Backends /\ Backends - 1 \in Nat
  BY CacheAssumption
<1> QED
  BY <1>1, Spans, CacheAssumption DEF Types, Lag

(* No step of a caller, of the flight or of time breaks AgeInv. *)
LEMMA AgeStep ==
  ASSUME Types, AgeInv, [Next]_vars
  PROVE  AgeInv'
<1>0. Fresh => age < TTL
  BY DEF Fresh
<1>00. SnapAge /\ FlightAge /\ StalenessBounded
  BY DEF AgeInv
<1>1. CASE Tick
  <2>1. \A n \in 0 .. Cap : Older(n) \in Nat /\ Older(n) <= n + 1
    BY OldestNat DEF Older
  <2>2. 1 \in 1 .. Backends
    BY CacheAssumption
  <2>3. /\ seen'[1] \in Nat /\ seen'[1] <= seen[1] + 1
        /\ found'[1] \in Nat /\ found'[1] <= found[1] + 1
    BY <1>1, <2>1, <2>2, Numbers DEF Tick
  <2>4. SnapAge'
    <3>1. age' = IF age < TTL THEN age + 1 ELSE age
      BY <1>1 DEF Tick
    <3> QED
      BY <1>00, <2>3, <3>1, Numbers DEF SnapAge, Lag
  <2>5. FlightAge'
    <3>1. stage' = stage /\ turn' = turn /\ (stage = "none" \/ stage = "check")
      BY <1>1 DEF Tick
    <3>2. CASE stage = "none"
      BY <3>1, <3>2 DEF FlightAge
    <3>3. CASE stage = "check"
      <4>1. elapsed' = elapsed + 1
        BY <1>1, <3>3 DEF Tick
      <4>2. ASSUME turn > 1 PROVE found'[1] <= Span(turn - 2) + elapsed'
        <5>1. Span(turn - 2) \in Nat
          BY <4>2, Numbers, Spans
        <5>2. found[1] <= Span(turn - 2) + elapsed
          BY <1>00, <3>3, <4>2 DEF FlightAge
        <5> HIDE DEF Span
        <5> QED
          BY <2>3, <4>1, <5>1, <5>2, Numbers
      <4> QED
        BY <3>1, <3>3, <4>2 DEF FlightAge
    <3> QED
      BY <3>1, <3>2, <3>3
  <2>6. StalenessBounded'
    BY <1>1, <1>00 DEF Tick, StalenessBounded
  <2> QED
    BY <2>4, <2>5, <2>6 DEF AgeInv
<1>2. CASE Recheck
  <2>1. SnapAge' /\ StalenessBounded'
    BY <1>2, <1>00 DEF Recheck, SnapAge, StalenessBounded, snapVars
  <2>2. CASE Fresh
    <3>1. found' = seen /\ stage' = "finish"
      BY <1>2, <2>2 DEF Recheck
    <3>2. seen[1] <= Oldest
      BY <1>0, <1>00, <2>2, Numbers DEF SnapAge
    <3> QED
      BY <2>1, <3>1, <3>2 DEF AgeInv, FlightAge
  <2>3. CASE ~Fresh
    <3>1. stage' = "check" /\ turn' = 1
      BY <1>2, <2>3 DEF Recheck
    <3> QED
      BY <2>1, <3>1 DEF AgeInv, FlightAge
  <2> QED
    BY <2>2, <2>3
<1>3. CASE CheckAnswers
  <2>1. SnapAge' /\ StalenessBounded'
    BY <1>3, <1>00 DEF CheckAnswers, SnapAge, StalenessBounded, snapVars
  <2>2. /\ stage = "check" /\ found' = [found EXCEPT ![turn] = 0] /\ elapsed' = 0
        /\ turn < Backends => turn' = turn + 1 /\ stage' = "check"
        /\ ~(turn < Backends) => turn' = turn /\ stage' = "store"
    BY <1>3 DEF CheckAnswers
  <2>3. Span(turn - 1) \in Nat /\ found'[1] \in Nat /\ found'[1] <= Span(turn - 1)
    <3>1. CASE turn = 1
      <4>1. found'[1] = 0
        BY <2>2, <3>1, Numbers DEF Types
      <4> QED
        BY <3>1, <4>1, Spans
    <3>2. CASE turn > 1
      <4>1. turn - 2 \in Nat /\ (turn - 2) + 1 = turn - 1
        BY <3>2, Numbers
      <4>2. Span(turn - 2) \in Nat /\ Span(turn - 1) = Span(turn - 2) + PerCheck
        BY <4>1, Spans
      <4>3. found'[1] = found[1]
        BY <2>2, <3>2, Numbers DEF Types
      <4>4. found[1] <= Span(turn - 2) + elapsed
        BY <1>00, <2>2, <3>2 DEF FlightAge
      <4> QED
        BY <4>2, <4>3, <4>4, Numbers
    <3> QED
      BY <3>1, <3>2, Numbers
  <2>4. FlightAge'
    <3>1. CASE turn < Backends
      <4>1. turn' - 2 = turn - 1
        BY <2>2, <3>1, Numbers
      <4> QED
        BY <2>2, <2>3, <3>1, <4>1 DEF FlightAge
    <3>2. CASE ~(turn < Backends)
      <4>1. turn = Backends
        BY <3>2, Numbers
      <4> QED
        BY <2>2, <2>3, <3>2, <4>1 DEF FlightAge, Lag
    <3> QED
      BY <3>1, <3>2
  <2> QED
    BY <2>1, <2>4 DEF AgeInv
<1>4. CASE Store
  <2>1. SnapAge'
    <3>1. age' = 0 /\ seen' = found /\ found[1] <= Lag
      BY <1>4, <1>00 DEF Store, FlightAge
    <3> QED
      BY <3>1, Numbers DEF SnapAge, Lag
  <2>2. FlightAge'
    <3>1. stage' = "finish" /\ found' = found /\ found[1] <= Lag
      BY <1>4, <1>00 DEF Store, FlightAge
    <3>2. found[1] <= Oldest
      BY <3>1, Numbers
    <3> QED
      BY <3>1, <3>2 DEF FlightAge
  <2>3. StalenessBounded'
    BY <1>4, <1>00 DEF Store, StalenessBounded
  <2> QED
    BY <2>1, <2>2, <2>3 DEF AgeInv
<1>5. CASE Finish
  <2>1. SnapAge' /\ FlightAge'
    BY <1>5, <1>00 DEF Finish, SnapAge, FlightAge, snapVars
  <2>2. StalenessBounded'
    <3>1. found[1] <= Oldest
      BY <1>5, <1>00 DEF Finish, FlightAge
    <3> QED
      BY <1>5, <1>00, <3>1 DEF Finish, StalenessBounded, AgeOf, Types
  <2> QED
    BY <2>1, <2>2 DEF AgeInv
<1>6. ASSUME NEW c \in Callers, Call(c) \/ PeekMiss(c) \/ Wait(c) PROVE AgeInv'
  <2>1. SnapAge' /\ FlightAge'
    BY <1>6, <1>00 DEF Call, PeekMiss, Wait, snapVars, flightVars, SnapAge, FlightAge
  <2>2. StalenessBounded'
    BY <1>6, <1>00 DEF Call, PeekMiss, Wait, Move, StalenessBounded, Types
  <2> QED
    BY <2>1, <2>2 DEF AgeInv
<1>7. ASSUME NEW c \in Callers, PeekHit(c) PROVE AgeInv'
  <2>1. SnapAge' /\ FlightAge'
    BY <1>7, <1>00 DEF PeekHit, snapVars, flightVars, SnapAge, FlightAge
  <2>2. seen[1] <= Oldest
    <3>1. Fresh
      BY <1>7 DEF PeekHit
    <3> QED
      BY <1>0, <1>00, <3>1, Numbers DEF SnapAge
  <2>3. /\ pc' = [pc EXCEPT ![c] = "done"]
        /\ got' = [got EXCEPT ![c] = seen[1]]
    BY <1>7 DEF PeekHit, Move, AgeOf
  <2>4. StalenessBounded'
    BY <1>00, <2>2, <2>3 DEF StalenessBounded, Types
  <2> QED
    BY <2>1, <2>4 DEF AgeInv
<1>8. ASSUME NEW c \in Callers, Lead(c) PROVE AgeInv'
  <2>1. SnapAge' /\ FlightAge'
    BY <1>8, <1>00 DEF Lead, snapVars, SnapAge, FlightAge
  <2>2. StalenessBounded'
    BY <1>8, <1>00 DEF Lead, Move, StalenessBounded, Types
  <2> QED
    BY <2>1, <2>2 DEF AgeInv
<1>9. ASSUME NEW c \in Callers, Return(c) PROVE AgeInv'
  <2>1. SnapAge' /\ FlightAge'
    BY <1>9, <1>00 DEF Return, snapVars, flightVars, SnapAge, FlightAge
  <2>2. StalenessBounded'
    BY <1>9, <1>00 DEF Return, Move, StalenessBounded, Types
  <2> QED
    BY <2>1, <2>2 DEF AgeInv
<1>10. CASE UNCHANGED vars
  BY <1>10, <1>00 DEF vars, snapVars, flightVars, AgeInv, SnapAge, FlightAge, StalenessBounded
<1> QED
  BY <1>1, <1>2, <1>3, <1>4, <1>5, <1>6, <1>7, <1>8, <1>9, <1>10
     DEF Next, Flight, CallerStep

(* Whatever callers and checks do, no caller is handed a check older than   *)
(* the TTL and the checks after it (cachedBackendHealth).                   *)
THEOREM StalenessIsBounded == Spec => []StalenessBounded
<1>1. Init => AgeInv
  <2>1. Types /\ Init => SnapAge
    BY Numbers DEF Init, SnapAge
  <2>2. Init => Types
    BY OldestNat, CacheAssumption DEF Init, Types
  <2>3. Init => FlightAge /\ StalenessBounded
    BY DEF Init, FlightAge, StalenessBounded
  <2> QED
    BY <2>1, <2>2, <2>3 DEF AgeInv
<1>2. Types /\ AgeInv /\ [Next]_vars => AgeInv'
  BY AgeStep
<1>3. AgeInv => StalenessBounded
  BY DEF AgeInv
<1> QED
  BY <1>1, <1>2, <1>3, TypesCorrect, PTL DEF Spec

-----------------------------------------------------------------------------
(* A flight that probes found the snapshot old, and it stays old: only the  *)
(* flight itself replaces it.                                               *)
FlightInv == stage \in {"check", "store"} => ~stored \/ age >= TTL

(* A snapshot is replaced only after it has lived its TTL: the second look  *)
(* inside the flight catches every late leader (server.go:291).             *)
THEOREM SnapshotLives == Spec => SnapshotLivesTTL
<1>1. Init => FlightInv
  BY DEF Init, FlightInv
<1>2. Types /\ FlightInv /\ [Next]_vars => FlightInv'
  <2> SUFFICES ASSUME Types, FlightInv, [Next]_vars PROVE FlightInv'
    OBVIOUS
  <2> USE CacheAssumption DEF Types, FlightInv, snapVars, flightVars
  <2>1. CASE Tick
    BY <2>1 DEF Tick
  <2>2. CASE Flight
    BY <2>2 DEF Flight, Recheck, CheckAnswers, Store, Finish, Fresh
  <2>3. ASSUME NEW c \in Callers, Call(c) \/ CallerStep(c) \/ Return(c) PROVE FlightInv'
    BY <2>3 DEF Call, CallerStep, PeekHit, PeekMiss, Lead, Wait, Return
  <2>4. CASE UNCHANGED vars
    BY <2>4 DEF vars
  <2> QED
    BY <2>1, <2>2, <2>3, <2>4 DEF Next
<1>3. FlightInv /\ [Next]_vars => [Store => ~stored \/ age >= TTL]_vars
  BY DEF FlightInv, Store
<1> QED
  BY <1>1, <1>2, <1>3, TypesCorrect, PTL DEF Spec, SnapshotLivesTTL
=============================================================================
