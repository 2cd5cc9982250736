---------------------------- MODULE RateLimiter ----------------------------
(***************************************************************************)
(* allowByRateLimit of internal/policy/basic_engine.go: a per-tenant       *)
(* request count for the current second, shared by all handlers.  The      *)
(* clock is read before the mutex is taken, so a handler may carry a       *)
(* second that has passed by the time it holds the lock, and the window    *)
(* moves back to it.                                                       *)
(***************************************************************************)
EXTENDS Integers, FiniteSets

CONSTANTS
  Requests,    \* Evaluate calls that reach the rate limit
  Tenants,
  Limit,       \* Limit[t]: tenants[].rate_limit_rps; <= 0 means no limit
  MaxSecond    \* bound of the clock

ASSUME RateAssumption ==
  /\ Limit \in [Tenants -> Int]
  /\ MaxSecond \in Nat \ {0}

Seconds == 0 .. MaxSecond

VARIABLES
  now,          \* the wall clock, in seconds
  windowSecond, \* e.windowSecond
  counts,       \* e.tenantCounts; a missing key counts as 0
  pc,           \* where each call stands
  tenant,       \* the tenant of each call
  stamp,        \* nowSec: the second the call read
  granted,      \* history: granted[t][s], calls of t let through with stamp s
  opened        \* history: opened[s], times the window was moved to s

vars == <<now, windowSecond, counts, pc, tenant, stamp, granted, opened>>

(* A tenant's count never passes its limit, and is never kept for a tenant  *)
(* that has none.                                                           *)
TypeOK ==
  /\ now \in Seconds
  /\ windowSecond \in Seconds
  /\ counts \in [Tenants -> Nat]
  /\ \A t \in Tenants : counts[t] <= IF Limit[t] > 0 THEN Limit[t] ELSE 0
  /\ pc \in [Requests -> {"idle", "stamped", "allowed", "limited"}]
  /\ tenant \in [Requests -> Tenants]
  /\ stamp \in [Requests -> Seconds]
  /\ granted \in [Tenants -> [Seconds -> Nat]]
  /\ opened \in [Seconds -> Nat]

(* The engine starts with windowSecond = 0, which is long past.             *)
Init ==
  /\ now = 1
  /\ windowSecond = 0
  /\ counts = [t \in Tenants |-> 0]
  /\ pc = [r \in Requests |-> "idle"]
  /\ tenant \in [Requests -> Tenants]
  /\ stamp = [r \in Requests |-> 0]
  /\ granted = [t \in Tenants |-> [s \in Seconds |-> 0]]
  /\ opened = [s \in Seconds |-> IF s = 0 THEN 1 ELSE 0]

Tick ==
  /\ now < MaxSecond
  /\ now' = now + 1
  /\ UNCHANGED <<windowSecond, counts, pc, tenant, stamp, granted, opened>>

(* limit <= 0: allowed without looking at the clock or the counts. *)
Unlimited(r) ==
  /\ pc[r] = "idle" /\ Limit[tenant[r]] <= 0
  /\ pc' = [pc EXCEPT ![r] = "allowed"]
  /\ UNCHANGED <<now, windowSecond, counts, tenant, stamp, granted, opened>>

(* nowSec := time.Now().Unix(), outside the lock. *)
ReadClock(r) ==
  /\ pc[r] = "idle" /\ Limit[tenant[r]] > 0
  /\ stamp' = [stamp EXCEPT ![r] = now]
  /\ pc' = [pc EXCEPT ![r] = "stamped"]
  /\ UNCHANGED <<now, windowSecond, counts, tenant, granted, opened>>

(* The counts the call works on: a window that is not the call's second is  *)
(* replaced, with the counts of every tenant.                               *)
Moves(r) == windowSecond # stamp[r]

CountsFor(r) == IF Moves(r) THEN [t \in Tenants |-> 0] ELSE counts

MoveWindow(r) ==
  /\ windowSecond' = stamp[r]
  /\ opened' = IF Moves(r) THEN [opened EXCEPT ![stamp[r]] = @ + 1] ELSE opened

(* Under the mutex: the limit is reached, the call is limited. *)
Deny(r) ==
  /\ pc[r] = "stamped"
  /\ CountsFor(r)[tenant[r]] >= Limit[tenant[r]]
  /\ MoveWindow(r)
  /\ counts' = CountsFor(r)
  /\ pc' = [pc EXCEPT ![r] = "limited"]
  /\ UNCHANGED <<now, tenant, stamp, granted>>

(* Mutated form: the comparison lets one more call through. *)
AllowOneMore(r) ==
  LET t == tenant[r] IN
  /\ pc[r] = "stamped"
  /\ CountsFor(r)[t] <= Limit[t]
  /\ MoveWindow(r)
  /\ counts' = [CountsFor(r) EXCEPT ![t] = @ + 1]
  /\ granted' = [granted EXCEPT ![t][stamp[r]] = @ + 1]
  /\ pc' = [pc EXCEPT ![r] = "allowed"]
  /\ UNCHANGED <<now, tenant, stamp>>

(* Mutated form: a call is counted against every tenant. *)
AllowChargesAll(r) ==
  LET t == tenant[r] IN
  /\ pc[r] = "stamped"
  /\ CountsFor(r)[t] < Limit[t]
  /\ MoveWindow(r)
  /\ counts' = [u \in Tenants |-> CountsFor(r)[u] + 1]
  /\ granted' = [granted EXCEPT ![t][stamp[r]] = @ + 1]
  /\ pc' = [pc EXCEPT ![r] = "allowed"]
  /\ UNCHANGED <<now, tenant, stamp>>

(* Under the mutex: the call is counted and allowed. *)
Allow(r) ==
  LET t == tenant[r] IN
  /\ pc[r] = "stamped"
  /\ CountsFor(r)[t] < Limit[t]
  /\ MoveWindow(r)
  /\ counts' = [CountsFor(r) EXCEPT ![t] = @ + 1]
  /\ granted' = [granted EXCEPT ![t][stamp[r]] = @ + 1]
  /\ pc' = [pc EXCEPT ![r] = "allowed"]
  /\ UNCHANGED <<now, tenant, stamp>>

Next ==
  \/ Tick
  \/ \E r \in Requests : Unlimited(r) \/ ReadClock(r) \/ Deny(r) \/ Allow(r)

Spec == Init /\ [][Next]_vars

-----------------------------------------------------------------------------
(* README.md:314 calls it a "per-tenant RPS limit (in-memory, 1s window)".  *)
(* A tenant gets at most its limit each time the window is opened on a      *)
(* second: going over takes a handler that moved the window back.           *)
GrantsBounded ==
  \A t \in Tenants, s \in Seconds :
    Limit[t] > 0 => granted[t][s] <= Limit[t] * opened[s]

(* A tenant is only turned away when its own calls used up its limit for    *)
(* the second the call read: no other tenant's traffic is charged to it.    *)
DenialEarned ==
  \A r \in Requests :
    pc[r] = "limited" => granted[tenant[r]][stamp[r]] >= Limit[tenant[r]]
=============================================================================
