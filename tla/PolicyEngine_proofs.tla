------------------------ MODULE PolicyEngine_proofs ------------------------
(***************************************************************************)
(* Proofs about the policy engine.  First its rate limiter by itself, for  *)
(* any requests, tenants, limits and length of the run; then that Evaluate *)
(* implements it, so that what is proved of allowByRateLimit holds of      *)
(* Evaluate, and what a call that was let through is known to satisfy.     *)
(***************************************************************************)
EXTENDS PolicyEngine, TLAPS

-----------------------------------------------------------------------------
(* The rate limiter. *)

(* Changing one count, or one cell of the grant history, changes no other. *)
LEMMA GrantCell ==
  ASSUME granted \in [Tenants -> [Seconds -> Nat]],
         NEW u \in Tenants, NEW z \in Seconds,
         granted' = [granted EXCEPT ![u][z] = @ + 1]
  PROVE  /\ granted' \in [Tenants -> [Seconds -> Nat]]
         /\ \A t \in Tenants, s \in Seconds :
              granted'[t][s] = IF t = u /\ s = z THEN granted[t][s] + 1 ELSE granted[t][s]
OBVIOUS

(* The variables keep their types and no count passes its limit. *)
THEOREM TypeCorrect == Spec => []TypeOK
<1>1. Init => TypeOK
  BY RateAssumption DEF Init, TypeOK, Seconds
<1>2. TypeOK /\ [Next]_vars => TypeOK'
  <2> SUFFICES ASSUME TypeOK, [Next]_vars PROVE TypeOK'
    OBVIOUS
  <2> USE RateAssumption DEF TypeOK
  <2>1. CASE Tick
    BY <2>1 DEF Tick, Seconds
  <2>2. ASSUME NEW r \in Requests, Unlimited(r) PROVE TypeOK'
    BY <2>2 DEF Unlimited
  <2>3. ASSUME NEW r \in Requests, ReadClock(r) PROVE TypeOK'
    BY <2>3 DEF ReadClock
  <2>4. ASSUME NEW r \in Requests, Deny(r) PROVE TypeOK'
    <3>1. opened' \in [Seconds -> Nat] /\ windowSecond' \in Seconds
      BY <2>4 DEF Deny, MoveWindow
    <3> QED
      BY <2>4, <3>1 DEF Deny, CountsFor
  <2>5. ASSUME NEW r \in Requests, Allow(r) PROVE TypeOK'
    <3>1. opened' \in [Seconds -> Nat] /\ windowSecond' \in Seconds
      BY <2>5 DEF Allow, MoveWindow
    <3>2. granted' \in [Tenants -> [Seconds -> Nat]]
      BY <2>5, GrantCell DEF Allow
    <3>3. /\ counts' \in [Tenants -> Nat]
          /\ \A t \in Tenants : counts'[t] <= IF Limit[t] > 0 THEN Limit[t] ELSE 0
      BY <2>5 DEF Allow, CountsFor
    <3> QED
      BY <2>5, <3>1, <3>2, <3>3 DEF Allow
  <2>6. CASE UNCHANGED vars
    BY <2>6 DEF vars
  <2> QED
    BY <2>1, <2>2, <2>3, <2>4, <2>5, <2>6 DEF Next
<1> QED
  BY <1>1, <1>2, PTL DEF Spec

-----------------------------------------------------------------------------
(* The bound needs the window's own second apart: there, the grants not yet *)
(* in the current count were made in earlier openings of that second.       *)
GrantInv ==
  \A t \in Tenants : Limit[t] > 0 =>
    \A s \in Seconds :
      IF s = windowSecond
      THEN /\ opened[s] >= 1
           /\ counts[t] <= granted[t][s]
           /\ granted[t][s] <= Limit[t] * (opened[s] - 1) + counts[t]
      ELSE granted[t][s] <= Limit[t] * opened[s]

LEMMA Product ==
  ASSUME NEW k \in Nat, NEW m \in Nat
  PROVE  k * m \in Nat /\ k * (m - 1) + k = k * m /\ k * ((m + 1) - 1) = k * m
OBVIOUS

LEMMA GrantInvBounds == TypeOK /\ GrantInv => GrantsBounded
<1> SUFFICES ASSUME TypeOK, GrantInv, NEW t \in Tenants, NEW s \in Seconds, Limit[t] > 0
             PROVE  granted[t][s] <= Limit[t] * opened[s]
  BY DEF GrantsBounded
<1>1. Limit[t] \in Nat /\ opened[s] \in Nat /\ counts[t] \in Nat /\ counts[t] <= Limit[t]
  BY RateAssumption DEF TypeOK
<1>2. CASE s # windowSecond
  BY <1>2 DEF GrantInv
<1>3. CASE s = windowSecond
  <2>1. granted[t][s] <= Limit[t] * (opened[s] - 1) + counts[t]
    BY <1>3 DEF GrantInv
  <2>2. granted[t][s] \in Nat /\ opened[s] - 1 \in Int
    BY <1>1 DEF TypeOK
  <2>3. Limit[t] * (opened[s] - 1) \in Int
    BY <1>1, <2>2
  <2>4. Limit[t] * (opened[s] - 1) + Limit[t] = Limit[t] * opened[s]
    BY <1>1, Product
  <2>5. Limit[t] * opened[s] \in Nat
    BY <1>1, Product
  <2> QED
    BY <1>1, <2>1, <2>2, <2>3, <2>4, <2>5
<1> QED
  BY <1>2, <1>3

(* Counting one call under the lock keeps the bound, whether or not the     *)
(* call moved the window.                                                   *)
LEMMA AllowKeepsBound ==
  ASSUME TypeOK, GrantInv, NEW r \in Requests, Allow(r)
  PROVE  GrantInv'
<1> SUFFICES ASSUME NEW t \in Tenants, Limit[t] > 0, NEW s \in Seconds
             PROVE  IF s = windowSecond'
                    THEN /\ opened'[s] >= 1
                         /\ counts'[t] <= granted'[t][s]
                         /\ granted'[t][s] <= Limit[t] * (opened'[s] - 1) + counts'[t]
                    ELSE granted'[t][s] <= Limit[t] * opened'[s]
  BY DEF GrantInv
<1> DEFINE u == tenant[r]
           z == stamp[r]
<1>1. u \in Tenants /\ z \in Seconds /\ Limit[t] \in Nat
  BY RateAssumption DEF TypeOK
<1>2. /\ windowSecond' = z
      /\ counts' = [CountsFor(r) EXCEPT ![u] = @ + 1]
      /\ opened' = IF Moves(r) THEN [opened EXCEPT ![z] = @ + 1] ELSE opened
  BY DEF Allow, MoveWindow
<1>3. granted'[t][s] = IF t = u /\ s = z THEN granted[t][s] + 1 ELSE granted[t][s]
  BY <1>1, GrantCell DEF Allow, TypeOK
<1>4. /\ granted[t][s] \in Nat /\ opened[s] \in Nat /\ counts[t] \in Nat
      /\ counts \in [Tenants -> Nat] /\ opened \in [Seconds -> Nat]
  BY DEF TypeOK
<1>5. Limit[t] * opened[s] \in Nat /\ Limit[t] * (opened[s] - 1) \in Int
  BY <1>1, <1>4
<1>6. GrantsBounded
  BY GrantInvBounds
<1>7. CASE s # z
  <2>1. granted'[t][s] = granted[t][s] /\ opened'[s] = opened[s]
    BY <1>1, <1>2, <1>3, <1>4, <1>7
  <2> QED
    BY <1>2, <1>6, <1>7, <2>1 DEF GrantsBounded
<1>8. CASE s = z /\ Moves(r)
  <2>1. opened'[s] = opened[s] + 1 /\ counts'[t] = IF t = u THEN 1 ELSE 0
    BY <1>1, <1>2, <1>4, <1>8 DEF CountsFor
  <2>2. Limit[t] * (opened'[s] - 1) = Limit[t] * opened[s]
    BY <1>1, <1>4, <2>1, Product
  <2>3. granted[t][s] <= Limit[t] * opened[s]
    BY <1>6 DEF GrantsBounded
  <2> QED
    BY <1>2, <1>3, <1>4, <1>5, <1>8, <2>1, <2>2, <2>3
<1>9. CASE s = z /\ ~Moves(r)
  <2>1. s = windowSecond /\ opened' = opened
    BY <1>2, <1>9 DEF Moves
  <2>2. counts'[t] = IF t = u THEN counts[t] + 1 ELSE counts[t]
    BY <1>1, <1>2, <1>4, <1>9 DEF CountsFor
  <2>3. /\ opened[s] >= 1
        /\ counts[t] <= granted[t][s]
        /\ granted[t][s] <= Limit[t] * (opened[s] - 1) + counts[t]
    BY <2>1 DEF GrantInv
  <2> QED
    BY <1>2, <1>3, <1>4, <1>5, <1>9, <2>1, <2>2, <2>3
<1> QED
  BY <1>7, <1>8, <1>9

(* A denial may move the window too, and then starts its counts from zero. *)
LEMMA DenyKeepsBound ==
  ASSUME TypeOK, GrantInv, NEW r \in Requests, Deny(r)
  PROVE  GrantInv'
<1>1. CASE ~Moves(r)
  BY <1>1 DEF Deny, MoveWindow, CountsFor, Moves, GrantInv
<1>2. CASE Moves(r)
  <2>1. tenant[r] \in Tenants /\ stamp[r] \in Seconds /\ Limit[tenant[r]] \in Int
    BY RateAssumption DEF TypeOK
  <2>2. 0 >= Limit[tenant[r]]
    BY <1>2, <2>1 DEF Deny, CountsFor
  <2>3. counts' = [t \in Tenants |-> 0] /\ granted' = granted /\ windowSecond' = stamp[r]
    BY <1>2 DEF Deny, CountsFor, MoveWindow
  <2>4. opened' = [opened EXCEPT ![stamp[r]] = @ + 1]
    BY <1>2 DEF Deny, MoveWindow
  <2> SUFFICES ASSUME NEW t \in Tenants, Limit[t] > 0, NEW s \in Seconds
               PROVE  IF s = windowSecond'
                      THEN /\ opened'[s] >= 1
                           /\ counts'[t] <= granted'[t][s]
                           /\ granted'[t][s] <= Limit[t] * (opened'[s] - 1) + counts'[t]
                      ELSE granted'[t][s] <= Limit[t] * opened'[s]
    BY DEF GrantInv
  <2>5. Limit[t] \in Nat /\ opened[s] \in Nat /\ granted[t][s] \in Nat
    BY RateAssumption DEF TypeOK
  <2>6. granted[t][s] <= Limit[t] * opened[s]
    BY GrantInvBounds DEF GrantsBounded
  <2>7. CASE s # stamp[r]
    BY <2>1, <2>3, <2>4, <2>6, <2>7 DEF TypeOK
  <2>8. CASE s = stamp[r]
    <3>1. opened'[s] = opened[s] + 1 /\ counts'[t] = 0
      BY <2>1, <2>3, <2>4, <2>8 DEF TypeOK
    <3>2. Limit[t] * (opened'[s] - 1) = Limit[t] * opened[s] /\ Limit[t] * opened[s] \in Nat
      BY <2>5, <3>1, Product
    <3> QED
      BY <2>3, <2>5, <2>6, <2>8, <3>1, <3>2
  <2> QED
    BY <2>7, <2>8
<1> QED
  BY <1>1, <1>2

LEMMA BoundCorrect == Spec => []GrantInv
<1>1. Init => GrantInv
  <2> SUFFICES ASSUME Init, NEW t \in Tenants, Limit[t] > 0, NEW s \in Seconds
               PROVE  IF s = windowSecond
                      THEN /\ opened[s] >= 1
                           /\ counts[t] <= granted[t][s]
                           /\ granted[t][s] <= Limit[t] * (opened[s] - 1) + counts[t]
                      ELSE granted[t][s] <= Limit[t] * opened[s]
    BY DEF GrantInv
  <2>1. /\ granted[t][s] = 0 /\ counts[t] = 0 /\ windowSecond = 0
        /\ opened[s] = IF s = 0 THEN 1 ELSE 0
    BY DEF Init
  <2>2. Limit[t] * 0 = 0
    BY RateAssumption
  <2> QED
    BY <2>1, <2>2
<1>2. TypeOK /\ GrantInv /\ [Next]_vars => GrantInv'
  <2> SUFFICES ASSUME TypeOK, GrantInv, [Next]_vars PROVE GrantInv'
    OBVIOUS
  <2>1. CASE Tick \/ UNCHANGED vars \/ \E r \in Requests : Unlimited(r) \/ ReadClock(r)
    BY <2>1 DEF Tick, vars, Unlimited, ReadClock, GrantInv
  <2> QED
    BY <2>1, AllowKeepsBound, DenyKeepsBound DEF Next
<1> QED
  BY <1>1, <1>2, TypeCorrect, PTL DEF Spec

(* A tenant never gets more than its limit per opening of the window on a   *)
(* second: with the clock read before the lock, this is all that holds.     *)
THEOREM GrantsAreBounded == Spec => []GrantsBounded
BY GrantInvBounds, BoundCorrect, TypeCorrect, PTL

-----------------------------------------------------------------------------
(* A tenant is denied only for calls of its own, stamped with the second    *)
(* the denied call read: tenants do not spend each other's limits.          *)
THEOREM DenialsAreEarned == Spec => []DenialEarned
<1>1. Init => DenialEarned
  BY DEF Init, DenialEarned
<1>2. TypeOK /\ GrantInv /\ DenialEarned /\ [Next]_vars => DenialEarned'
  <2> SUFFICES ASSUME TypeOK, GrantInv, DenialEarned, [Next]_vars,
                      NEW q \in Requests, pc'[q] = "limited"
               PROVE  granted'[tenant'[q]][stamp'[q]] >= Limit[tenant'[q]]
    BY DEF DenialEarned
  <2>0. /\ tenant[q] \in Tenants /\ stamp[q] \in Seconds
        /\ granted[tenant[q]][stamp[q]] \in Nat /\ Limit[tenant[q]] \in Int
    BY RateAssumption DEF TypeOK
  <2>1. ASSUME NEW r \in Requests, Allow(r)
        PROVE  granted'[tenant'[q]][stamp'[q]] >= Limit[tenant'[q]]
    <3>1. pc[q] = "limited" /\ tenant'[q] = tenant[q] /\ stamp'[q] = stamp[q]
      BY <2>1 DEF Allow, TypeOK
    <3>2. granted'[tenant[q]][stamp[q]] >= granted[tenant[q]][stamp[q]]
      BY <2>0, <2>1, GrantCell DEF Allow, TypeOK
    <3>3. granted'[tenant[q]][stamp[q]] \in Nat
      BY <2>0, <2>1, GrantCell DEF Allow, TypeOK
    <3> QED
      BY <2>0, <3>1, <3>2, <3>3 DEF DenialEarned
  <2>2. ASSUME NEW r \in Requests, Deny(r)
        PROVE  granted'[tenant'[q]][stamp'[q]] >= Limit[tenant'[q]]
    <3>1. granted' = granted /\ tenant' = tenant /\ stamp' = stamp
      BY <2>2 DEF Deny
    <3>2. CASE q # r
      BY <2>2, <3>1, <3>2 DEF Deny, TypeOK, DenialEarned
    <3>3. CASE q = r
      <4>1. CASE Moves(r)
        BY <2>0, <2>2, <3>1, <3>3, <4>1 DEF Deny, CountsFor
      <4>2. CASE ~Moves(r)
        <5>1. stamp[q] = windowSecond /\ counts[tenant[q]] >= Limit[tenant[q]]
          BY <2>2, <3>3, <4>2 DEF Deny, CountsFor, Moves
        <5>2. Limit[tenant[q]] > 0 => counts[tenant[q]] <= granted[tenant[q]][stamp[q]]
          BY <2>0, <5>1 DEF GrantInv
        <5>3. counts[tenant[q]] \in Nat
          BY <2>0 DEF TypeOK
        <5> QED
          BY <2>0, <3>1, <5>1, <5>2, <5>3
      <4> QED
        BY <4>1, <4>2
    <3> QED
      BY <3>2, <3>3
  <2>3. ASSUME NEW r \in Requests, Unlimited(r) \/ ReadClock(r)
        PROVE  granted'[tenant'[q]][stamp'[q]] >= Limit[tenant'[q]]
    <3>1. pc[q] = "limited" /\ stamp'[q] = stamp[q] /\ tenant' = tenant /\ granted' = granted
      BY <2>3 DEF Unlimited, ReadClock, TypeOK
    <3> QED
      BY <3>1 DEF DenialEarned
  <2>4. CASE Tick \/ UNCHANGED vars
    BY <2>4 DEF Tick, vars, DenialEarned
  <2> QED
    BY <2>1, <2>2, <2>3, <2>4 DEF Next
<1> QED
  BY <1>1, <1>2, TypeCorrect, BoundCorrect, PTL DEF Spec

-----------------------------------------------------------------------------
(* Evaluate. *)

(* A call that Evaluate refused has never reached the limiter. *)
Barred(f) == [r \in Requests |-> IF f[r] = "rejected" THEN "idle" ELSE f[r]]

PcType == pc \in [Requests -> {"idle", "rejected", "stamped", "allowed", "limited"}]

(* Where a call of Evaluate stands. *)
LEMMA PcTypeCorrect == PolicySpec => []PcType
<1>1. PolicyInit => PcType
  BY DEF PolicyInit, Init, PcType
<1>2. PcType /\ [PolicyNext]_policyVars => PcType'
  BY DEF PcType, PolicyNext, policyVars, vars, Tick, Begin, Reject, Unlimited, ReadClock,
         Deny, Allow
<1> QED
  BY <1>1, <1>2, PTL DEF PolicySpec

(* A refused call has not moved for the limiter; any other moves with it.   *)
LEMMA BarMoves ==
  ASSUME PcType, NEW r \in Requests, NEW here, NEW there,
         pc[r] = here, here # "rejected", there # "rejected",
         pc' = [pc EXCEPT ![r] = there]
  PROVE  /\ Barred(pc)[r] = here
         /\ Barred(pc)' = [Barred(pc) EXCEPT ![r] = there]
BY DEF PcType, Barred

(* Evaluate reaches the limiter with the requests that pass every other     *)
(* check, and spends a token on nothing else (basic_engine.go:69).          *)
THEOREM ImplementsLimiter == PolicySpec => LimiterKept
<1>1. PolicyInit => Limiter!Init
  BY DEF PolicyInit, Init, Limiter!Init, Seconds, Limiter!Seconds
<1>2. PcType /\ [PolicyNext]_policyVars => [Limiter!Next]_Limiter!vars
  <2> SUFFICES ASSUME PcType, [PolicyNext]_policyVars PROVE [Limiter!Next]_Limiter!vars
    OBVIOUS
  <2>1. CASE Tick
    BY <2>1 DEF Tick, Limiter!Next, Limiter!Tick
  <2>2. ASSUME NEW r \in Requests, pc[r] = "idle", Reject(r)
        PROVE  UNCHANGED Limiter!vars
    <3>1. Barred(pc)' = Barred(pc)
      BY <2>2 DEF Reject, PcType, Barred
    <3> QED
      BY <2>2, <3>1 DEF Reject, Barred, Limiter!vars
  <2>3. ASSUME NEW r \in Requests, Unlimited(r) PROVE Limiter!Unlimited(r)
    <3>1. Barred(pc)[r] = "idle" /\ Barred(pc)' = [Barred(pc) EXCEPT ![r] = "allowed"]
      BY <2>3, BarMoves DEF Unlimited
    <3> QED
      BY <2>3, <3>1 DEF Unlimited, Limiter!Unlimited, Barred
  <2>4. ASSUME NEW r \in Requests, ReadClock(r) PROVE Limiter!ReadClock(r)
    <3>1. Barred(pc)[r] = "idle" /\ Barred(pc)' = [Barred(pc) EXCEPT ![r] = "stamped"]
      BY <2>4, BarMoves DEF ReadClock
    <3> QED
      BY <2>4, <3>1 DEF ReadClock, Limiter!ReadClock, Barred
  <2>5. ASSUME NEW r \in Requests, Deny(r) PROVE Limiter!Deny(r)
    <3>1. Barred(pc)[r] = "stamped" /\ Barred(pc)' = [Barred(pc) EXCEPT ![r] = "limited"]
      BY <2>5, BarMoves DEF Deny
    <3> QED
      BY <2>5, <3>1 DEF Deny, CountsFor, Moves, MoveWindow, Barred,
         Limiter!Deny, Limiter!CountsFor, Limiter!Moves, Limiter!MoveWindow
  <2>6. ASSUME NEW r \in Requests, Allow(r) PROVE Limiter!Allow(r)
    <3>1. Barred(pc)[r] = "stamped" /\ Barred(pc)' = [Barred(pc) EXCEPT ![r] = "allowed"]
      BY <2>6, BarMoves DEF Allow
    <3> QED
      BY <2>6, <3>1 DEF Allow, CountsFor, Moves, MoveWindow, Barred,
         Limiter!Allow, Limiter!CountsFor, Limiter!Moves, Limiter!MoveWindow
  <2>7. CASE UNCHANGED policyVars
    BY <2>7 DEF policyVars, vars, Limiter!vars
  <2> QED
    BY <2>1, <2>2, <2>3, <2>4, <2>5, <2>6, <2>7 DEF PolicyNext, Begin, Limiter!Next
<1> QED
  BY <1>1, <1>2, PcTypeCorrect, PTL DEF PolicySpec, LimiterKept, Limiter!Spec

-----------------------------------------------------------------------------
(* A call that is past the checks still passes them: no step changes its    *)
(* tenant or what it asks.                                                  *)
CheckedInv ==
  /\ PcType
  /\ tenant \in [Requests -> Tenants]
  /\ ask \in [Requests -> Asks]
  /\ beyond \in Int
  /\ \A r \in Requests : pc[r] \in {"stamped", "allowed", "limited"} => Passes(r)

(* Evaluate reads the clock and the counts only after every other check.    *)
LEMMA CheckedCorrect == PolicySpec => []CheckedInv
<1>1. PolicyInit => CheckedInv
  BY PolicyAssumption DEF PolicyInit, Init, CheckedInv, PcType
<1>2. CheckedInv /\ [PolicyNext]_policyVars => CheckedInv'
  <2> SUFFICES ASSUME CheckedInv, [PolicyNext]_policyVars PROVE CheckedInv'
    OBVIOUS
  <2>1. tenant' = tenant /\ ask' = ask /\ beyond' = beyond
    BY DEF PolicyNext, policyVars, vars, Tick, Begin, Reject, Unlimited, ReadClock, Deny, Allow
  <2>2. \A r \in Requests : Passes(r)' = Passes(r)
    BY <2>1 DEF Passes, WithinLimits, WithinBudget, Over, Overflows, Read, ForbiddenTools,
       Consumption
  <2>3. PcType'
    BY DEF CheckedInv, PcType, PolicyNext, policyVars, vars, Tick, Begin, Reject, Unlimited,
           ReadClock, Deny, Allow
  <2>4. ASSUME NEW r \in Requests, pc'[r] \in {"stamped", "allowed", "limited"}
        PROVE  pc[r] \in {"stamped", "allowed", "limited"} \/ Passes(r)
    <3>1. CASE Tick \/ UNCHANGED policyVars
      BY <2>4, <3>1 DEF Tick, policyVars, vars
    <3>2. ASSUME NEW q \in Requests, Begin(q)
          PROVE  pc[r] \in {"stamped", "allowed", "limited"} \/ Passes(r)
      BY <2>4, <3>2 DEF Begin, Reject, Unlimited, ReadClock, CheckedInv, PcType
    <3>3. ASSUME NEW q \in Requests, Deny(q) \/ Allow(q)
          PROVE  pc[r] \in {"stamped", "allowed", "limited"} \/ Passes(r)
      BY <2>4, <3>3 DEF Deny, Allow, CheckedInv, PcType
    <3> QED
      BY <3>1, <3>2, <3>3 DEF PolicyNext
  <2> QED
    BY <2>1, <2>2, <2>3, <2>4 DEF CheckedInv
<1> QED
  BY <1>1, <1>2, PTL DEF PolicySpec

(* toInt cuts off less than one step of a number that fits an int: a value  *)
(* that passes the check is below the next whole one, or fits no int and    *)
(* was turned into one that passes.                                         *)
LEMMA CutOff ==
  ASSUME NEW f, NEW v \in Nat, NEW cap \in Nat, beyond \in Int,
         ~(Read(f, v) > 10 * cap)
  PROVE  v < 10 * (cap + 1) \/ (Overflows(f, v) /\ beyond <= cap)
<1>1. v < 10 * (v \div 10) + 10 /\ v \div 10 \in Nat
  OBVIOUS
<1>2. CASE f \in WholeFields /\ ~Overflows(f, v)
  <2>1. Read(f, v) = 10 * (v \div 10)
    BY <1>2 DEF Read
  <2> QED
    BY <1>1, <2>1
<1>3. CASE Overflows(f, v)
  <2>1. Read(f, v) = 10 * beyond
    BY <1>3 DEF Read, Overflows
  <2> QED
    BY <1>3, <2>1
<1>4. CASE f \notin WholeFields
  <2>1. Read(f, v) = v
    BY <1>4 DEF Read, Overflows
  <2> QED
    BY <2>1
<1> QED
  BY <1>2, <1>3, <1>4

(* AllowedWithinTenant: what Evaluate lets through keeps the tools and the  *)
(* budget of its tenant, and its limits but for a number that fits no int,  *)
(* whatever they are (validateAgentTenantLimits, toInt,                     *)
(* estimateBudgetConsumption).                                              *)
THEOREM AllowedStaysWithinTenant == PolicySpec => []AllowedWithinTenant
<1>1. ASSUME CheckedInv, NEW r \in Requests, pc[r] \in {"stamped", "allowed"}
      PROVE  /\ tenant[r] \in Known
             /\ Budget[tenant[r]] > 0 =>
                  ask[r].tokens <= 256 * (Budget[tenant[r]] - 1)
             /\ ask[r].agent =>
                  /\ AllowedTools[tenant[r]] # {} =>
                       ask[r].tools \subseteq AllowedTools[tenant[r]]
                  /\ \A f \in Fields :
                       Caps[tenant[r]][f] > 0 /\ ask[r].declares[f] # Absent =>
                         \/ ask[r].declares[f] < 10 * (Caps[tenant[r]][f] + 1)
                         \/ /\ Overflows(f, ask[r].declares[f])
                            /\ beyond <= Caps[tenant[r]][f]
  <2>1. Passes(r) /\ tenant[r] \in Tenants /\ ask[r] \in Asks
    BY <1>1 DEF CheckedInv
  <2>2. /\ Budget[tenant[r]] \in Nat /\ ask[r].tokens \in Nat
        /\ ask[r].declares \in [Fields -> Nat \cup {Absent}]
        /\ Caps[tenant[r]] \in [Fields -> 0 .. MaxInt] /\ MaxInt \in Nat
    BY <2>1, PolicyAssumption
  <2>3. tenant[r] \in Known
    BY <2>1 DEF Passes
  <2>4. Budget[tenant[r]] > 0 => ask[r].tokens <= 256 * (Budget[tenant[r]] - 1)
    BY <2>1, <2>2 DEF Passes, WithinBudget, Consumption
  <2>5. ask[r].agent /\ AllowedTools[tenant[r]] # {} =>
          ask[r].tools \subseteq AllowedTools[tenant[r]]
    BY <2>1 DEF Passes, WithinLimits, ForbiddenTools
  <2>6. ASSUME ask[r].agent, NEW f \in Fields, Caps[tenant[r]][f] > 0,
               ask[r].declares[f] # Absent
        PROVE  \/ ask[r].declares[f] < 10 * (Caps[tenant[r]][f] + 1)
               \/ Overflows(f, ask[r].declares[f]) /\ beyond <= Caps[tenant[r]][f]
    <3>1. ask[r].declares[f] \in Nat /\ Caps[tenant[r]][f] \in Nat
      BY <2>2, <2>6
    <3>2. ~(Read(f, ask[r].declares[f]) > 10 * Caps[tenant[r]][f])
      BY <2>1, <2>6 DEF Passes, WithinLimits, Over
    <3> QED
      BY <1>1, <3>1, <3>2, CutOff DEF CheckedInv
  <2> QED
    BY <2>3, <2>4, <2>5, <2>6
<1>2. CheckedInv => AllowedWithinTenant
  BY <1>1 DEF AllowedWithinTenant
<1> QED
  BY <1>2, CheckedCorrect, PTL
=============================================================================
