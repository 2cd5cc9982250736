---------------------------- MODULE HealthCache ----------------------------
(***************************************************************************)
(* The backend health snapshot of internal/server/server.go                *)
(* (cachedBackendHealth, peekFreshHealthSnapshot, probeBackendHealth),     *)
(* shared by every /infer request and by GET /status.  A caller takes the  *)
(* snapshot while it is younger than health_cache_ttl_ms; otherwise it     *)
(* joins a single flight, whose leader checks the snapshot again and then  *)
(* asks every adapter in turn, each for at most                            *)
(* health_check_per_backend_ms.                                            *)
(*                                                                         *)
(* Time is a number of ticks and only ages are kept: of the snapshot, of   *)
(* what it says of each backend, and of the check under way.  What a check *)
(* answers is left out: the pipeline takes any answer.  Code between two   *)
(* checks takes no time.                                                   *)
(***************************************************************************)
EXTENDS Naturals, Sequences

CONSTANTS
  Callers,    \* requests and status calls
  Backends,   \* how many backends there are; they are checked 1, 2, ...
  TTL,        \* server.health_cache_ttl_ms
  PerCheck    \* server.health_check_per_backend_ms

ASSUME CacheAssumption ==
  /\ Backends \in Nat \ {0}
  /\ TTL \in Nat \ {0}
  /\ PerCheck \in Nat \ {0}

VARIABLES
  stored,     \* TRUE once a snapshot exists (healthSnapshot # nil)
  age,        \* ticks since it was stored (healthAt), counted up to TTL
  seen,       \* seen[b]: ticks since the check of b that it holds
  stage,      \* of the flight: "none", "recheck", "check", "store", "finish"
  turn,       \* the backend being checked
  elapsed,    \* ticks that check has taken
  found,      \* found[b]: ticks since the flight checked b
  pc,         \* each caller: "idle", "peek", "join", "lead", "wait", "done"
  got         \* got[c]: the age of the oldest check c was handed

snapVars == <<stored, age, seen>>
flightVars == <<stage, turn, elapsed, found>>
vars == <<snapVars, flightVars, pc, got>>

(* The oldest a check can be when a caller is handed it: the first backend  *)
(* was asked before the others were.                                        *)
Oldest == TTL - 1 + (Backends - 1) * PerCheck

(* Ages are counted to one more than that. *)
Cap == Oldest + 1
Older(n) == IF n < Cap THEN n + 1 ELSE n

TypeOK ==
  /\ stored \in BOOLEAN
  /\ age \in 0 .. TTL
  /\ seen \in [1 .. Backends -> 0 .. Cap]
  /\ stage \in {"none", "recheck", "check", "store", "finish"}
  /\ turn \in 1 .. Backends
  /\ elapsed \in 0 .. PerCheck
  /\ found \in [1 .. Backends -> 0 .. Cap]
  /\ pc \in [Callers -> {"idle", "peek", "join", "lead", "wait", "done"}]
  /\ got \in [Callers -> 0 .. Cap]

Init ==
  /\ stored = FALSE
  /\ age = 0
  /\ seen = [b \in 1 .. Backends |-> 0]
  /\ stage = "none"
  /\ turn = 1
  /\ elapsed = 0
  /\ found = [b \in 1 .. Backends |-> 0]
  /\ pc = [c \in Callers |-> "idle"]
  /\ got = [c \in Callers |-> 0]

-----------------------------------------------------------------------------

Fresh == stored /\ age < TTL

(* The age of the oldest check in a snapshot: the first to be made. *)
AgeOf(checks) == checks[1]

Move(c, here, there) == pc[c] = here /\ pc' = [pc EXCEPT ![c] = there]

Call(c) ==
  /\ Move(c, "idle", "peek")
  /\ UNCHANGED <<snapVars, flightVars, got>>

(* peekFreshHealthSnapshot: a copy of a snapshot that is fresh. *)
PeekHit(c) ==
  /\ Fresh
  /\ Move(c, "peek", "done")
  /\ got' = [got EXCEPT ![c] = AgeOf(seen)]
  /\ UNCHANGED <<snapVars, flightVars>>

PeekMiss(c) ==
  /\ ~Fresh
  /\ Move(c, "peek", "join")
  /\ UNCHANGED <<snapVars, flightVars, got>>

(* singleflight.Group.Do: the first caller leads, the others wait for it. *)
Lead(c) ==
  /\ stage = "none"
  /\ Move(c, "join", "lead")
  /\ stage' = "recheck"
  /\ UNCHANGED <<snapVars, turn, elapsed, found, got>>

Wait(c) ==
  /\ stage # "none"
  /\ Move(c, "join", "wait")
  /\ UNCHANGED <<snapVars, flightVars, got>>

(* The leader looks again: the flight before it may have stored a snapshot  *)
(* after the leader's own peek.                                             *)
RecheckSkipped ==
  /\ stage = "recheck"
  /\ stage' = "check"
  /\ turn' = 1
  /\ elapsed' = 0
  /\ UNCHANGED <<snapVars, found, pc, got>>
Recheck ==
  /\ stage = "recheck"
  /\ IF Fresh
     THEN /\ found' = seen
          /\ stage' = "finish"
          /\ UNCHANGED <<turn, elapsed>>
     ELSE /\ stage' = "check"
          /\ turn' = 1
          /\ elapsed' = 0
          /\ UNCHANGED found
  /\ UNCHANGED <<snapVars, pc, got>>

(* adapter.Health answers, or its own timeout makes it. *)
CheckAnswers ==
  /\ stage = "check"
  /\ found' = [found EXCEPT ![turn] = 0]
  /\ elapsed' = 0
  /\ IF turn < Backends
     THEN turn' = turn + 1 /\ UNCHANGED stage
     ELSE stage' = "store" /\ UNCHANGED turn
  /\ UNCHANGED <<snapVars, pc, got>>

Store ==
  /\ stage = "store"
  /\ stored' = TRUE
  /\ age' = 0
  /\ seen' = found
  /\ stage' = "finish"
  /\ UNCHANGED <<turn, elapsed, found, pc, got>>

(* The flight ends: its leader and all who waited return what it found. *)
FinishLeaderOnly ==
  /\ stage = "finish"
  /\ stage' = "none"
  /\ pc' = [c \in Callers |-> IF pc[c] = "lead" THEN "done" ELSE pc[c]]
  /\ got' = [c \in Callers |-> IF pc[c] = "lead" THEN AgeOf(found) ELSE got[c]]
  /\ UNCHANGED <<snapVars, turn, elapsed, found>>
Finish ==
  /\ stage = "finish"
  /\ stage' = "none"
  /\ pc' = [c \in Callers |-> IF pc[c] \in {"lead", "wait"} THEN "done" ELSE pc[c]]
  /\ got' = [c \in Callers |-> IF pc[c] \in {"lead", "wait"} THEN AgeOf(found) ELSE got[c]]
  /\ UNCHANGED <<snapVars, turn, elapsed, found>>

Return(c) ==
  /\ Move(c, "done", "idle")
  /\ got' = [got EXCEPT ![c] = 0]
  /\ UNCHANGED <<snapVars, flightVars>>

(* Time passes between calls and while a check runs, never beyond the       *)
(* timeout of the check.                                                    *)
TickUntimed ==
  /\ stage \in {"none", "check"}
  /\ elapsed' = IF stage = "check" /\ elapsed < PerCheck THEN elapsed + 1 ELSE elapsed
  /\ age' = IF age < TTL THEN age + 1 ELSE age
  /\ seen' = [b \in 1 .. Backends |-> Older(seen[b])]
  /\ found' = [b \in 1 .. Backends |-> Older(found[b])]
  /\ UNCHANGED <<stored, stage, turn, pc, got>>
Tick ==
  /\ stage = "none" \/ (stage = "check" /\ elapsed < PerCheck)
  /\ elapsed' = IF stage = "check" THEN elapsed + 1 ELSE elapsed
  /\ age' = IF age < TTL THEN age + 1 ELSE age
  /\ seen' = [b \in 1 .. Backends |-> Older(seen[b])]
  /\ found' = [b \in 1 .. Backends |-> Older(found[b])]
  /\ UNCHANGED <<stored, stage, turn, pc, got>>

Flight == Recheck \/ CheckAnswers \/ Store \/ Finish

CallerStep(c) == PeekHit(c) \/ PeekMiss(c) \/ Lead(c) \/ Wait(c)

Next == Tick \/ Flight \/ \E c \in Callers : Call(c) \/ CallerStep(c) \/ Return(c)

(* Callers and the leader run when they can.  A check ends because Health   *)
(* is given a context that times out, which every adapter honours.          *)
Spec ==
  /\ Init
  /\ [][Next]_vars
  /\ WF_vars(Flight)
  /\ \A c \in Callers : WF_vars(CallerStep(c))

-----------------------------------------------------------------------------

(* Routing never acts on a check older than the TTL plus the time that the  *)
(* checks after it may take: "skips backends failing adapter.Health, cached with  *)
(* server.health_cache_ttl_ms" (README.md, Tenant policy & routing).        *)
StalenessBounded == \A c \in Callers : pc[c] = "done" => got[c] <= Oldest

(* However callers interleave, a snapshot is replaced only after it has     *)
(* lived its TTL: late leaders do not probe the backends again.             *)
SnapshotLivesTTL ==
  [][Store => ~stored \/ age >= TTL]_vars

(* A caller that asks is answered, with slow checks and any other callers.  *)
EveryCallerAnswered == \A c \in Callers : pc[c] = "peek" ~> pc[c] = "done"
=============================================================================
