------------------------------ MODULE Gateway ------------------------------
(***************************************************************************)
(* The gateway process around the requests of InferPipeline: the HTTP      *)
(* wrappers of Server.Routes (API key, request metrics), the life of the   *)
(* process in serveCmd of cmd/infercore/main.go (a signal, the drain of    *)
(* http.Server.Shutdown, the deferred Server.Shutdown), its death at any   *)
(* point, and a restart over the ledger that was left.                     *)
(***************************************************************************)
EXTENDS InferPipeline

CONSTANTS
  KeyRequired,  \* an API key is configured
  MaxStarts     \* bound: how often the process is started

ASSUME GatewayAssumption ==
  /\ KeyRequired \in BOOLEAN
  /\ MaxStarts \in Nat \ {0}

VARIABLES
  life,      \* serving, draining (signal seen), closing (drained), exited, crashed
  starts,    \* how often the process was started
  closed,    \* requests whose connection is idle or closed again
  gone,      \* requests that died with the process
  accepted,  \* infercore_requests_total
  counted    \* infercore_http_requests_total of /infer, by status

processVars == <<life, starts, closed, gone>>
meterVars == <<accepted, counted>>
gatewayVars == <<vars, processVars, meterVars>>

Unauthorized == 401
Statuses == {Code[c] : c \in Results} \cup {Unauthorized}

NoCounts == [s \in Statuses |-> 0]

GatewayTypeOK ==
  /\ PipelineTypeOK
  /\ life \in {"serving", "draining", "closing", "exited", "crashed"}
  /\ starts \in 1 .. MaxStarts
  /\ closed \subseteq Requests
  /\ gone \subseteq Requests
  /\ accepted \in 0 .. Cardinality(Requests)
  /\ counted \in [Statuses -> 0 .. Cardinality(Requests)]

GatewayInit ==
  /\ Init
  /\ life = "serving" /\ starts = 1
  /\ closed = {} /\ gone = {}
  /\ accepted = 0 /\ counted = NoCounts

(* The answers counted with a status of S when n[s] were counted with s, as *)
(* pairs <<status, number>>, and how many there are now.                    *)
Answers(n, S) == UNION {{s} \X (1 .. n[s]) : s \in S}
CountOf(S) == Cardinality(Answers(counted, S))

Up == life \in {"serving", "draining", "closing"}

(* Requests whose handler runs: their connections are not idle. *)
Open == {r \in Requests : pc[r] # "idle"} \ (closed \cup gone)

(* What a handler knew goes with it; the ledger, the counters and the       *)
(* answer already sent remain.                                              *)
Cleared(f, S, v) == [r \in Requests |-> IF r \in S THEN v ELSE f[r]]

Forget(S) ==
  /\ kind' = Cleared(kind, S, "inference") /\ ctx' = Cleared(ctx, S, "live")
  /\ snap' = Cleared(snap, S, {}) /\ primary' = Cleared(primary, S, None)
  /\ at' = Cleared(at, S, 0)
  /\ err' = Cleared(err, S, None) /\ served' = Cleared(served, S, None)
  /\ ran' = Cleared(ran, S, <<>>) /\ traces' = Cleared(traces, S, <<>>)
  /\ cause' = Cleared(cause, S, None)
  /\ late' = late \ S /\ noted' = noted \ S

-----------------------------------------------------------------------------
(* Requests. *)

(* A request reaches the handler while the server serves, and during the    *)
(* drain on a connection accepted before.  Server.infer counts it once its  *)
(* validation has passed.                                                   *)
Authorized(r) ==
  /\ life \in {"serving", "draining"}
  /\ Receive(r)
  /\ accepted' = IF pc'[r] = "create" THEN accepted + 1 ELSE accepted
  /\ UNCHANGED <<processVars, counted>>

(* withOptionalInfercoreAuth answers before the wrapper that counts. *)
UnauthorizedCounted(r) ==
  /\ life \in {"serving", "draining"}
  /\ KeyRequired
  /\ At(r, "idle", "done")
  /\ reply' = [reply EXCEPT ![r] = Unauthorized]
  /\ closed' = closed \cup {r}
  /\ counted' = [counted EXCEPT ![Unauthorized] = @ + 1]
  /\ UNCHANGED <<runVars, routeVars, callVars, stepVars, cause, late, noted, traces,
                 gateVars, ledgerVars, life, starts, gone, accepted>>
Refused401(r) ==
  /\ life \in {"serving", "draining"}
  /\ KeyRequired
  /\ At(r, "idle", "done")
  /\ reply' = [reply EXCEPT ![r] = Unauthorized]
  /\ closed' = closed \cup {r}
  /\ UNCHANGED <<runVars, routeVars, callVars, stepVars, cause, late, noted, traces,
                 gateVars, ledgerVars, life, starts, gone, meterVars>>

Serve(r) ==
  /\ Up /\ r \in Open
  /\ Handle(r)
  /\ UNCHANGED <<processVars, meterVars>>

(* The handler has returned: withRequestLoggingAndMetrics counts the status *)
(* and net/http closes the connection or sets it idle.                      *)
Record(r) ==
  /\ Up /\ r \in Open
  /\ pc[r] = "done"
  /\ counted' = [counted EXCEPT ![reply[r]] = @ + 1]
  /\ closed' = closed \cup {r}
  /\ Forget({r})
  /\ UNCHANGED <<pc, reply, lost, gateVars, ledgerVars, life, starts, gone, accepted>>

LoseContext(r) ==
  /\ Up /\ r \in Open
  /\ ContextEnds(r)
  /\ UNCHANGED <<processVars, meterVars>>

-----------------------------------------------------------------------------
(* The process. *)

(* SIGINT or SIGTERM; later ones find nobody reading the channel. *)
Signal ==
  /\ life = "serving"
  /\ life' = "draining"
  /\ UNCHANGED <<vars, starts, closed, gone, meterVars>>

(* http.Server.Shutdown(context.Background()) returns once no connection is *)
(* active; it waits without a limit of its own.                             *)
DrainedAtOnce ==
  /\ life = "draining"
  /\ life' = "closing"
  /\ UNCHANGED <<vars, starts, closed, gone, meterVars>>
DrainedByCounters ==
  /\ life = "draining"
  /\ CountOf(Statuses) = accepted
  /\ life' = "closing"
  /\ UNCHANGED <<vars, starts, closed, gone, meterVars>>
Drained ==
  /\ life = "draining"
  /\ Open = {}
  /\ life' = "closing"
  /\ UNCHANGED <<vars, starts, closed, gone, meterVars>>

(* A memory ledger ends with the process. *)
LedgerLeft ==
  IF SqlStore THEN UNCHANGED ledgerVars
  ELSE /\ rows' = [r \in Requests |-> NoRow]
       /\ steps' = [r \in Requests |-> <<>>]

(* The deferred Server.Shutdown closes the ledger, and main returns. *)
Exit ==
  /\ life = "closing"
  /\ life' = "exited"
  /\ LedgerLeft
  /\ UNCHANGED <<pc, runVars, routeVars, callVars, stepVars, endVars, gateVars,
                 starts, closed, gone, meterVars>>

(* The process is killed, or log.Fatalf ends it: whatever ran stops where   *)
(* it stands.  (A panic of a handler net/http recovers; none is modelled.)  *)
Crash ==
  /\ Up
  /\ life' = "crashed"
  /\ gone' = gone \cup Open
  /\ pc' = Cleared(pc, Open, "done")
  /\ Forget(Open)
  /\ holders' = {}
  /\ LedgerLeft
  /\ UNCHANGED <<lost, reply, setting, shed, refused, starts, closed, meterVars>>

(* NewWithDependencies: everything but the SQL ledger starts from nothing.  *)
Restart ==
  /\ life \in {"exited", "crashed"}
  /\ starts < MaxStarts
  /\ life' = "serving"
  /\ starts' = starts + 1
  /\ accepted' = 0
  /\ counted' = NoCounts
  /\ UNCHANGED <<vars, closed, gone>>

GatewayNext ==
  \/ \E r \in Requests :
       Authorized(r) \/ Refused401(r) \/ Serve(r) \/ Record(r) \/ LoseContext(r)
  \/ Signal \/ Drained \/ Exit \/ Crash \/ Restart

(* A goroutine that can run does; so does main once the drain is over.      *)
(* Nothing makes a request arrive, a context end, or the process stop.      *)
GatewaySpec ==
  /\ GatewayInit
  /\ [][GatewayNext]_gatewayVars
  /\ \A r \in Requests : WF_gatewayVars(Serve(r)) /\ WF_gatewayVars(Record(r))
  /\ WF_gatewayVars(Drained) /\ WF_gatewayVars(Exit)

-----------------------------------------------------------------------------
(* Properties. *)

(* A signal loses nothing: when Server.Shutdown closes the ledger, every    *)
(* request that was let in has been answered and counted, and, unless one   *)
(* of its writes was lost, its row is settled.  The drain in main.go comes  *)
(* before the deferred Shutdown, and only a handler's return ends it.       *)
GracefulStop ==
  life \in {"closing", "exited"} =>
    \A r \in Requests :
      pc[r] # "idle" /\ r \notin gone =>
        /\ Answered(r) /\ r \in closed
        /\ Present(r) => rows[r].status \in Settled \/ r \in lost

(* Nothing repairs a row after the fact, neither at start nor at shutdown:  *)
(* a row that says running without a handler at work is either one of a     *)
(* process that died, or one of which a write was lost.                     *)
UnfinishedRowExplained ==
  \A r \in Requests :
    rows[r].status = "running" => r \in Open \cup gone \cup lost

(* The two counters of /metrics are incremented at the two ends of a        *)
(* request, by different code.  At every scrape what was answered other     *)
(* than 400 or 405 was accepted before, and what was accepted is answered   *)
(* or under way; a request of another method is in the second only, and one *)
(* without the key in neither.                                              *)
CountersBracket ==
  Up =>
    /\ CountOf(Statuses \ {400, 405}) <= accepted
    /\ accepted <= CountOf(Statuses) + Cardinality(Open)

(* The process that was told to stop does, however its requests fare: the   *)
(* drain waits for them without a limit, and they end within their budgets. *)
StopsOnSignal == life = "draining" ~> life \in {"exited", "crashed"}
=============================================================================
