------------------------- MODULE TelemetryExporter -------------------------
(***************************************************************************)
(* The batching exporter of internal/telemetry/otlp_http_exporter.go       *)
(* (telemetry.exporter = otlp-http-json).  The goroutine that records      *)
(* telemetry appends it to the buffer of its kind under a lock; if that    *)
(* buffer has reached the batch size, or the flush interval has passed     *)
(* since the last flush, the same goroutine takes all three buffers and    *)
(* posts them, kind by kind, with retries.  There is no timer and no       *)
(* Shutdown: Server.Shutdown finds nothing to call.                        *)
(*                                                                         *)
(* A record is named by the emitter that makes it.  The collector may take *)
(* a batch and still have its answer lost, so that it is posted again.     *)
(***************************************************************************)
EXTENDS Integers, Sequences, FiniteSets

CONSTANTS
  Emitters,    \* calls of EmitMetric, EmitEvent and EmitTrace
  Kinds,       \* "metrics", "events", "traces"
  BatchSize,   \* telemetry.otlp_batch_size, 10 by default
  Retries      \* telemetry.otlp_retries

ASSUME ExporterAssumption ==
  /\ IsFiniteSet(Emitters)
  /\ "none" \notin Kinds
  /\ BatchSize \in Nat \ {0}
  /\ Retries \in Nat

VARIABLES
  buffer,      \* buffer[k]: the records of kind k waiting for a flush
  overdue,     \* the flush interval has passed since lastFlush
  pc,          \* each emitter: "idle", "append", "flush", "post", "done"
  kindOf,      \* the kind of its record
  batch,       \* batch[m]: what m took from each buffer and has not settled
  posting,     \* the kind m is posting, or "none"
  tries,       \* posts of that batch so far
  sentRecords, \* StatusSummary's sent_records
  delivered,   \* records whose batch was acknowledged
  dropped,     \* records whose batch was given up
  copies,      \* copies[m]: how often the collector took m's record
  closed       \* the process has shut down

batchVars == <<batch, posting, tries>>
tallyVars == <<sentRecords, delivered, dropped>>
vars == <<buffer, overdue, pc, kindOf, batchVars, tallyVars, copies, closed>>

NoBatch == [k \in Kinds |-> {}]

TypeOK ==
  /\ buffer \in [Kinds -> SUBSET Emitters]
  /\ overdue \in BOOLEAN
  /\ pc \in [Emitters -> {"idle", "flush", "post", "done"}]
  /\ kindOf \in [Emitters -> Kinds]
  /\ batch \in [Emitters -> [Kinds -> SUBSET Emitters]]
  /\ posting \in [Emitters -> Kinds \cup {"none"}]
  /\ tries \in [Emitters -> 0 .. Retries + 1]
  /\ sentRecords \in Nat
  /\ delivered \subseteq Emitters
  /\ dropped \subseteq Emitters
  /\ copies \in [Emitters -> Nat]
  /\ closed \in BOOLEAN

Init ==
  /\ buffer = NoBatch
  /\ overdue = FALSE
  /\ pc = [m \in Emitters |-> "idle"]
  /\ kindOf \in [Emitters -> Kinds]
  /\ batch = [m \in Emitters |-> NoBatch]
  /\ posting = [m \in Emitters |-> "none"]
  /\ tries = [m \in Emitters |-> 0]
  /\ sentRecords = 0
  /\ delivered = {}
  /\ dropped = {}
  /\ copies = [m \in Emitters |-> 0]
  /\ closed = FALSE

-----------------------------------------------------------------------------

IntervalPasses ==
  /\ ~overdue
  /\ overdue' = TRUE
  /\ UNCHANGED <<buffer, pc, kindOf, batchVars, tallyVars, copies, closed>>

(* enqueue: append, and decide under the same lock whether to flush. *)
FlushDueLate(k) == Cardinality(buffer[k]) > BatchSize \/ overdue
FlushDue(k) == Cardinality(buffer[k]) + 1 >= BatchSize \/ overdue

Enqueue(m) ==
  /\ ~closed
  /\ pc[m] = "idle"
  /\ buffer' = [buffer EXCEPT ![kindOf[m]] = @ \cup {m}]
  /\ pc' = [pc EXCEPT ![m] = IF FlushDue(kindOf[m]) THEN "flush" ELSE "done"]
  /\ UNCHANGED <<overdue, kindOf, batchVars, tallyVars, copies, closed>>

(* flush takes whatever is there now, all kinds, under one lock. *)
TakeAllUncleared(m) ==
  /\ pc[m] = "flush"
  /\ batch' = [batch EXCEPT ![m] = buffer]
  /\ overdue' = FALSE
  /\ pc' = [pc EXCEPT ![m] = "post"]
  /\ UNCHANGED <<buffer, kindOf, posting, tries, tallyVars, copies, closed>>
TakeAll(m) ==
  /\ pc[m] = "flush"
  /\ batch' = [batch EXCEPT ![m] = buffer]
  /\ buffer' = NoBatch
  /\ overdue' = FALSE
  /\ pc' = [pc EXCEPT ![m] = "post"]
  /\ UNCHANGED <<kindOf, posting, tries, tallyVars, copies, closed>>

(* The map of buffers is ranged over in any order; empty kinds are skipped. *)
PickKind(m) ==
  /\ pc[m] = "post" /\ posting[m] = "none"
  /\ \E k \in Kinds : batch[m][k] # {} /\ posting' = [posting EXCEPT ![m] = k]
  /\ tries' = [tries EXCEPT ![m] = 0]
  /\ UNCHANGED <<buffer, overdue, pc, kindOf, batch, tallyVars, copies, closed>>

Records(m) == batch[m][posting[m]]

Settle(m) ==
  /\ batch' = [batch EXCEPT ![m][posting[m]] = {}]
  /\ posting' = [posting EXCEPT ![m] = "none"]
  /\ UNCHANGED <<buffer, overdue, pc, kindOf, tries, closed>>

Taken(m) == copies' = [n \in Emitters |-> IF n \in Records(m) THEN copies[n] + 1 ELSE copies[n]]

(* A post is acknowledged: 2xx. *)
PostAcked(m) ==
  /\ pc[m] = "post" /\ posting[m] # "none" /\ tries[m] <= Retries
  /\ sentRecords' = sentRecords + Cardinality(Records(m))
  /\ delivered' = delivered \cup Records(m)
  /\ Taken(m)
  /\ Settle(m)
  /\ UNCHANGED dropped

(* A post fails; the collector may have taken the batch all the same. *)
PostFails(m) ==
  /\ pc[m] = "post" /\ posting[m] # "none" /\ tries[m] <= Retries
  /\ tries' = [tries EXCEPT ![m] = @ + 1]
  /\ Taken(m) \/ UNCHANGED copies
  /\ UNCHANGED <<buffer, overdue, pc, kindOf, batch, posting, tallyVars, closed>>

(* The retries are used up: the batch is gone, and lastError says so. *)
GiveUp(m) ==
  /\ pc[m] = "post" /\ posting[m] # "none" /\ tries[m] > Retries
  /\ dropped' = dropped \cup Records(m)
  /\ Settle(m)
  /\ UNCHANGED <<sentRecords, delivered, copies>>

FlushReturns(m) ==
  /\ pc[m] = "post" /\ posting[m] = "none" /\ batch[m] = NoBatch
  /\ pc' = [pc EXCEPT ![m] = "done"]
  /\ UNCHANGED <<buffer, overdue, kindOf, batchVars, tallyVars, copies, closed>>

(* http.Server.Shutdown waits for the handlers, which are the emitters;     *)
(* Server.Shutdown then looks for a Shutdown method and finds none.         *)
Shutdown ==
  /\ ~closed
  /\ \A m \in Emitters : pc[m] \in {"idle", "done"}
  /\ closed' = TRUE
  /\ UNCHANGED <<buffer, overdue, pc, kindOf, batchVars, tallyVars, copies>>

Step(m) ==
  \/ Enqueue(m) \/ TakeAll(m) \/ PickKind(m) \/ PostAcked(m) \/ PostFails(m)
  \/ GiveUp(m) \/ FlushReturns(m)

Next == IntervalPasses \/ Shutdown \/ \E m \in Emitters : Step(m)

Spec == Init /\ [][Next]_vars /\ \A m \in Emitters : WF_vars(Step(m))

-----------------------------------------------------------------------------

(* Where a record is, once its emitter has handed it over. *)
Places(m) ==
  {p \in {"buffer"} \X Kinds : m \in buffer[p[2]]}
    \cup {p \in {"flush"} \X Emitters \X Kinds : m \in batch[p[2]][p[3]]}
    \cup {p \in {<<"acknowledged">>} : m \in delivered}
    \cup {p \in {<<"given up">>} : m \in dropped}

(* However enqueuers and flushers interleave, a record is in exactly one    *)
(* place: waiting, in one flush under way, acknowledged, or given up.  So   *)
(* sent_records of GET /status counts the records acknowledged, each once,  *)
(* and the collector takes no record more often than one flush tried.       *)
EachRecordInOnePlace ==
  /\ \A m \in Emitters : Cardinality(Places(m)) = IF pc[m] = "idle" THEN 0 ELSE 1
  /\ sentRecords = Cardinality(delivered)
  /\ \A m \in Emitters : copies[m] <= Retries + 1 /\ (m \in delivered => copies[m] >= 1)

(* A buffer at or over the batch size has someone on the way to flush it:   *)
(* batches cannot pile up behind a lost decision, and what Shutdown loses   *)
(* is less than a batch of each kind.                                       *)
FullBufferHasFlusher ==
  \A k \in Kinds :
    Cardinality(buffer[k]) >= BatchSize => \E m \in Emitters : pc[m] = "flush"
=============================================================================
