------------------------------ MODULE SLOStore ------------------------------
(***************************************************************************)
(* The in-memory SLO store of internal/slo/memory_engine.go and the order  *)
(* in which a request uses it (internal/inferexec/orchestrator.go and      *)
(* writeAIResponse of internal/server/server.go): RecordStart before the   *)
(* backends are called, then RecordFirstToken, RecordCompletion, perhaps   *)
(* RecordFallback, and Snapshot, whose answer goes into the response.      *)
(* Every Record call creates the record if it is missing and then evicts:  *)
(* records past max_age, then the oldest beyond max_records.  Each call    *)
(* holds the store's lock; the calls of other requests come in between.    *)
(***************************************************************************)
EXTENDS Integers, FiniteSets, FiniteSetsExt

CONSTANTS
  Requests,
  MaxRecords,  \* slo.max_records
  MaxAge,      \* slo.max_age_ms
  MaxTime      \* bound on the clock

ASSUME StoreAssumption ==
  /\ IsFiniteSet(Requests)
  /\ MaxRecords \in Nat \ {0}
  /\ MaxAge \in Nat
  /\ MaxTime \in Nat \ {0}

VARIABLES
  now,       \* the clock; 0 is Go's zero time, so it starts at 1
  records,   \* records[r]: the record of r, or Absent
  pc,        \* the next call each request makes
  begun,     \* the time r's backends were called (ExecStart)
  fellBack,  \* requests a fallback backend answered (UsedFallback)
  evicted,   \* requests whose record was evicted at some time
  told       \* told[r]: what Snapshot answered for the response

vars == <<now, records, pc, begun, fellBack, evicted, told>>

Times == 0 .. MaxTime
Absent == [inserted |-> 0, started |-> FALSE, ended |-> 0, fallback |-> FALSE]
Record == [inserted : Times, started : BOOLEAN, ended : Times, fallback : BOOLEAN]
Untold == [timed |-> FALSE, fallback |-> FALSE]

TypeOK ==
  /\ now \in 1 .. MaxTime
  /\ records \in [Requests -> Record]
  /\ pc \in [Requests -> {"start", "call", "first", "completion", "fallback", "snapshot",
                          "answered", "failed"}]
  /\ begun \in [Requests -> Times]
  /\ fellBack \subseteq Requests
  /\ evicted \subseteq Requests
  /\ told \in [Requests -> [timed : BOOLEAN, fallback : BOOLEAN]]

Init ==
  /\ now = 1
  /\ records = [r \in Requests |-> Absent]
  /\ pc = [r \in Requests |-> "start"]
  /\ begun = [r \in Requests |-> 0]
  /\ fellBack = {}
  /\ evicted = {}
  /\ told = [r \in Requests |-> Untold]

-----------------------------------------------------------------------------

Present(rs) == {r \in Requests : rs[r].inserted # 0}

(* What eviction goes by: the end of a completed request, else its insertion. *)
Key(rec) == IF rec.ended # 0 THEN rec.ended ELSE rec.inserted

Expired(rec) == now - Key(rec) > MaxAge

(* ensureRecord. *)
Ensured(r) == IF r \in Present(records) THEN records[r] ELSE [Absent EXCEPT !.inserted = now]

(* evictLocked: the records that may be left of rs.  The oldest go first;   *)
(* among equals the order of Go's map decides.                              *)
KeptForever(rs) ==
  {K \in kSubset(Min({MaxRecords, Cardinality(Present(rs))}), Present(rs)) :
     \A k \in K, d \in Present(rs) \ K : Key(rs[d]) <= Key(rs[k])}
Kept(rs) ==
  LET live == {r \in Present(rs) : ~Expired(rs[r])}
  IN {K \in kSubset(Min({MaxRecords, Cardinality(live)}), live) :
        \A k \in K, d \in live \ K : Key(rs[d]) <= Key(rs[k])}

(* A Record call of r that leaves it with the record rec. *)
Put(r, rec) ==
  LET written == [records EXCEPT ![r] = rec]
  IN \E K \in Kept(written) :
       /\ records' = [q \in Requests |-> IF q \in K THEN written[q] ELSE Absent]
       /\ evicted' = evicted \cup (Present(written) \ K)

Goes(r, here, there) == pc[r] = here /\ pc' = [pc EXCEPT ![r] = there]

RecordStart(r) ==
  /\ Goes(r, "start", "call")
  /\ begun' = [begun EXCEPT ![r] = now]
  /\ Put(r, [Ensured(r) EXCEPT !.started = TRUE])
  /\ UNCHANGED <<now, fellBack, told>>

(* The backends answer, the primary or a fallback, or all fail; the record  *)
(* of a failed request gets no end.                                         *)
Succeeds(r) ==
  /\ Goes(r, "call", "first")
  /\ \E S \in {fellBack, fellBack \cup {r}} : fellBack' = S
  /\ UNCHANGED <<now, records, begun, evicted, told>>

Fails(r) ==
  /\ Goes(r, "call", "failed")
  /\ UNCHANGED <<now, records, begun, fellBack, evicted, told>>

RecordFirstToken(r) ==
  /\ Goes(r, "first", "completion")
  /\ Put(r, Ensured(r))
  /\ UNCHANGED <<now, begun, fellBack, told>>

(* The end is the start of the calls plus the latency that the adapter of   *)
(* the last one reports, so it may lie before now.                          *)
RecordCompletionRestarts(r) ==
  /\ Goes(r, "completion", IF r \in fellBack THEN "fallback" ELSE "snapshot")
  /\ \E ts \in begun[r] .. now : Put(r, [Ensured(r) EXCEPT !.ended = ts, !.started = TRUE])
  /\ UNCHANGED <<now, begun, fellBack, told>>
RecordCompletion(r) ==
  /\ Goes(r, "completion", IF r \in fellBack THEN "fallback" ELSE "snapshot")
  /\ \E ts \in begun[r] .. now : Put(r, [Ensured(r) EXCEPT !.ended = ts])
  /\ UNCHANGED <<now, begun, fellBack, told>>

RecordFallback(r) ==
  /\ Goes(r, "fallback", "snapshot")
  /\ Put(r, [Ensured(r) EXCEPT !.fallback = TRUE])
  /\ UNCHANGED <<now, begun, fellBack, told>>

SnapshotOfEarlier(r) ==
  /\ Goes(r, "snapshot", "answered")
  /\ told' = [told EXCEPT ![r] = [timed |-> TRUE, fallback |-> FALSE]]
  /\ UNCHANGED <<now, records, begun, fellBack, evicted>>
Snapshot(r) ==
  /\ Goes(r, "snapshot", "answered")
  /\ told' = [told EXCEPT ![r] = [timed |-> records[r].started /\ records[r].ended # 0,
                                  fallback |-> records[r].fallback]]
  /\ UNCHANGED <<now, records, begun, fellBack, evicted>>

Tick ==
  /\ now < MaxTime
  /\ now' = now + 1
  /\ UNCHANGED <<records, pc, begun, fellBack, evicted, told>>

Step(r) ==
  \/ RecordStart(r) \/ Succeeds(r) \/ Fails(r) \/ RecordFirstToken(r)
  \/ RecordCompletion(r) \/ RecordFallback(r) \/ Snapshot(r)

Next == Tick \/ \E r \in Requests : Step(r)

Spec == Init /\ [][Next]_vars

-----------------------------------------------------------------------------

(* ScalingAggregates samples the records that have a start and an end. *)
Samples == {r \in Present(records) : records[r].started /\ records[r].ended # 0}

(* The store is "bounded by slo.max_records / slo.max_age_ms" (README.md):   *)
(* whatever touches it leaves nothing older than max_age in it.             *)
TouchExpires ==
  [][records' # records => \A r \in Present(records') : ~Expired(records'[r])]_vars

(* As long as a request's record is not evicted, its response tells the     *)
(* truth: whether a fallback answered, and real latencies.                  *)
KeptRecordTellsTruth ==
  \A r \in Requests :
    pc[r] = "answered" /\ r \notin evicted =>
      told[r] = [timed |-> TRUE, fallback |-> r \in fellBack]

(* A record that was evicted and created again by a later call carries half *)
(* of a request; the autoscaler's ratios are computed from whole ones.      *)
SamplesAreWhole ==
  \A r \in Samples :
    r \notin evicted /\ pc[r] \in {"fallback", "snapshot", "answered"}

(* docs/observability.md:101: fallback_triggered is "returned in /infer     *)
(* response": a response whose text came from a fallback says so.           *)
ResponseTellsFallback ==
  \A r \in Requests : pc[r] = "answered" => told[r].fallback = (r \in fellBack)
=============================================================================
