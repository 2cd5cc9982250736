---------------------- MODULE TelemetryExporter_proofs ----------------------
(***************************************************************************)
(* Proofs about the batching exporter, for any number of emitters, any     *)
(* batch size and any number of retries.                                   *)
(***************************************************************************)
EXTENDS TelemetryExporter, FiniteSetTheorems, TLAPS

(* m's record is waiting in the buffer, or in n's flush.                    *)
Waiting(m) == m \in buffer[kindOf[m]]
FlushedBy(m, n) == m \in batch[n][kindOf[m]]

(* Buffers and batches hold records of their own kind.                      *)
KindInv ==
  \A m \in Emitters, k \in Kinds :
    /\ m \in buffer[k] => k = kindOf[m]
    /\ \A n \in Emitters : m \in batch[n][k] => k = kindOf[m]

(* A record is nowhere before Enqueue and in one place afterwards.          *)
PlaceInv(m) ==
  /\ pc[m] # "idle" =>
       \/ Waiting(m) \/ m \in delivered \/ m \in dropped
       \/ \E n \in Emitters : FlushedBy(m, n)
  /\ pc[m] = "idle" => ~Waiting(m) /\ m \notin delivered \cup dropped
  /\ Waiting(m) => m \notin delivered \cup dropped
  /\ m \in delivered => m \notin dropped
  /\ \A n \in Emitters :
       FlushedBy(m, n) => /\ pc[m] # "idle" /\ ~Waiting(m) /\ m \notin delivered \cup dropped
                          /\ \A l \in Emitters : FlushedBy(m, l) => l = n

(* Only a flush under way holds a batch, and posts a kind of it.            *)
FlushInv(n) ==
  /\ pc[n] # "post" => batch[n] = NoBatch
  /\ posting[n] # "none" => pc[n] = "post"

(* The collector has had the record at most once per post of its batch.     *)
CopyInv(m) ==
  /\ pc[m] = "idle" \/ Waiting(m) => copies[m] = 0
  /\ \A n \in Emitters :
       FlushedBy(m, n) => /\ posting[n] = kindOf[m] => copies[m] <= tries[n]
                          /\ posting[n] # kindOf[m] => copies[m] = 0
  /\ m \in delivered => copies[m] >= 1
  /\ copies[m] <= Retries + 1

IInv ==
  /\ TypeOK /\ KindInv
  /\ \A m \in Emitters : PlaceInv(m) /\ FlushInv(m) /\ CopyInv(m)
  /\ sentRecords = Cardinality(delivered)
  /\ FullBufferHasFlusher
-----------------------------------------------------------------------------
(* The batch being posted is a finite set of records. *)
LEMMA RecordsAreFinite ==
  ASSUME TypeOK, NEW e \in Emitters, posting[e] # "none"
  PROVE  /\ posting[e] \in Kinds
         /\ Records(e) \subseteq Emitters /\ IsFiniteSet(Records(e))
         /\ Cardinality(Records(e)) \in Nat
<1>1. posting[e] \in Kinds /\ Records(e) \subseteq Emitters
  BY DEF TypeOK, Records
<1> QED
  BY <1>1, ExporterAssumption, FS_Subset, FS_CardinalityType

(* Every step of an emitter keeps the types. *)
LEMMA TypesStep ==
  ASSUME TypeOK, [Next]_vars
  PROVE  TypeOK'
<1> USE ExporterAssumption DEF TypeOK, batchVars, tallyVars, Settle, Taken, Records, NoBatch
<1>1. ASSUME NEW e \in Emitters, Enqueue(e) PROVE TypeOK'
  BY <1>1 DEF Enqueue
<1>2. ASSUME NEW e \in Emitters, TakeAll(e) PROVE TypeOK'
  BY <1>2 DEF TakeAll
<1>3. ASSUME NEW e \in Emitters, PickKind(e) PROVE TypeOK'
  BY <1>3 DEF PickKind
<1>4. ASSUME NEW e \in Emitters, PostAcked(e) PROVE TypeOK'
  <2>1. sentRecords' \in Nat
    BY <1>4, RecordsAreFinite DEF PostAcked
  <2> QED
    BY <1>4, <2>1 DEF PostAcked
<1>5. ASSUME NEW e \in Emitters, PostFails(e) PROVE TypeOK'
  BY <1>5 DEF PostFails
<1>6. ASSUME NEW e \in Emitters, GiveUp(e) PROVE TypeOK'
  BY <1>6 DEF GiveUp
<1>7. ASSUME NEW e \in Emitters, FlushReturns(e) PROVE TypeOK'
  BY <1>7 DEF FlushReturns
<1>8. CASE IntervalPasses
  BY <1>8 DEF IntervalPasses
<1>9. CASE Shutdown
  BY <1>9 DEF Shutdown
<1>10. CASE UNCHANGED vars
  BY <1>10 DEF vars
<1> QED
  BY <1>1, <1>2, <1>3, <1>4, <1>5, <1>6, <1>7, <1>8, <1>9, <1>10 DEF Next, Step

(* enqueue appends to the buffer of the record's kind, flush keeps kinds apart. *)
LEMMA KindStep ==
  ASSUME TypeOK, KindInv, [Next]_vars
  PROVE  KindInv'
<1> USE DEF batchVars, tallyVars, Settle, Taken, Records
<1>1. ASSUME NEW e \in Emitters, Enqueue(e) PROVE KindInv'
  BY <1>1 DEF Enqueue, TypeOK, KindInv, NoBatch
<1>2. ASSUME NEW e \in Emitters, TakeAll(e) PROVE KindInv'
  BY <1>2 DEF TakeAll, TypeOK, KindInv, NoBatch
<1>3. ASSUME NEW e \in Emitters, PickKind(e) PROVE KindInv'
  BY <1>3 DEF PickKind, TypeOK, KindInv, NoBatch
<1>4. ASSUME NEW e \in Emitters, PostAcked(e) PROVE KindInv'
  BY <1>4 DEF PostAcked, TypeOK, KindInv, NoBatch
<1>5. ASSUME NEW e \in Emitters, PostFails(e) PROVE KindInv'
  BY <1>5 DEF PostFails, TypeOK, KindInv, NoBatch
<1>6. ASSUME NEW e \in Emitters, GiveUp(e) PROVE KindInv'
  BY <1>6 DEF GiveUp, TypeOK, KindInv, NoBatch
<1>7. ASSUME NEW e \in Emitters, FlushReturns(e) PROVE KindInv'
  BY <1>7 DEF FlushReturns, TypeOK, KindInv, NoBatch
<1>8. CASE IntervalPasses
  BY <1>8 DEF IntervalPasses, TypeOK, KindInv, NoBatch
<1>9. CASE Shutdown
  BY <1>9 DEF Shutdown, TypeOK, KindInv, NoBatch
<1>10. CASE UNCHANGED vars
  BY <1>10 DEF vars, TypeOK, KindInv, NoBatch
<1> QED
  BY <1>1, <1>2, <1>3, <1>4, <1>5, <1>6, <1>7, <1>8, <1>9, <1>10 DEF Next, Step

(* Only the flush that posts holds a batch. *)
LEMMA FlushStep ==
  ASSUME TypeOK, NEW n \in Emitters, FlushInv(n), [Next]_vars
  PROVE  FlushInv(n)'
<1> USE DEF batchVars, tallyVars, Settle, Taken, Records
<1>1. ASSUME NEW e \in Emitters, Enqueue(e) PROVE FlushInv(n)'
  BY <1>1 DEF Enqueue, TypeOK, FlushInv
<1>2. ASSUME NEW e \in Emitters, TakeAll(e) PROVE FlushInv(n)'
  BY <1>2 DEF TakeAll, TypeOK, FlushInv
<1>3. ASSUME NEW e \in Emitters, PickKind(e) PROVE FlushInv(n)'
  BY <1>3 DEF PickKind, TypeOK, FlushInv
<1>4. ASSUME NEW e \in Emitters, PostAcked(e) PROVE FlushInv(n)'
  BY <1>4 DEF PostAcked, TypeOK, FlushInv
<1>5. ASSUME NEW e \in Emitters, PostFails(e) PROVE FlushInv(n)'
  BY <1>5 DEF PostFails, TypeOK, FlushInv
<1>6. ASSUME NEW e \in Emitters, GiveUp(e) PROVE FlushInv(n)'
  BY <1>6 DEF GiveUp, TypeOK, FlushInv
<1>7. ASSUME NEW e \in Emitters, FlushReturns(e) PROVE FlushInv(n)'
  BY <1>7 DEF FlushReturns, TypeOK, FlushInv
<1>8. CASE IntervalPasses
  BY <1>8 DEF IntervalPasses, TypeOK, FlushInv
<1>9. CASE Shutdown
  BY <1>9 DEF Shutdown, TypeOK, FlushInv
<1>10. CASE UNCHANGED vars
  BY <1>10 DEF vars, TypeOK, FlushInv
<1> QED
  BY <1>1, <1>2, <1>3, <1>4, <1>5, <1>6, <1>7, <1>8, <1>9, <1>10 DEF Next, Step

(* A record goes from the buffer to one flush, and from there is settled. *)
LEMMA PlaceStep ==
  ASSUME IInv, NEW m \in Emitters, [Next]_vars
  PROVE  PlaceInv(m)'
<1> USE DEF batchVars, tallyVars, Settle, Taken, Records
<1>1. ASSUME NEW e \in Emitters, Enqueue(e) PROVE PlaceInv(m)'
  BY <1>1 DEF Enqueue, IInv, TypeOK, KindInv, PlaceInv, FlushInv, Waiting, FlushedBy, NoBatch
<1>2. ASSUME NEW e \in Emitters, TakeAll(e) PROVE PlaceInv(m)'
  BY <1>2 DEF TakeAll, IInv, TypeOK, KindInv, PlaceInv, FlushInv, Waiting, FlushedBy, NoBatch
<1>3. ASSUME NEW e \in Emitters, PickKind(e) PROVE PlaceInv(m)'
  BY <1>3 DEF PickKind, IInv, TypeOK, KindInv, PlaceInv, FlushInv, Waiting, FlushedBy, NoBatch
<1>4. ASSUME NEW e \in Emitters, PostAcked(e) PROVE PlaceInv(m)'
  BY <1>4 DEF PostAcked, IInv, TypeOK, KindInv, PlaceInv, FlushInv, Waiting, FlushedBy, NoBatch
<1>5. ASSUME NEW e \in Emitters, PostFails(e) PROVE PlaceInv(m)'
  BY <1>5 DEF PostFails, IInv, TypeOK, KindInv, PlaceInv, FlushInv, Waiting, FlushedBy, NoBatch
<1>6. ASSUME NEW e \in Emitters, GiveUp(e) PROVE PlaceInv(m)'
  BY <1>6 DEF GiveUp, IInv, TypeOK, KindInv, PlaceInv, FlushInv, Waiting, FlushedBy, NoBatch
<1>7. ASSUME NEW e \in Emitters, FlushReturns(e) PROVE PlaceInv(m)'
  BY <1>7 DEF FlushReturns, IInv, TypeOK, KindInv, PlaceInv, FlushInv, Waiting, FlushedBy,
      NoBatch
<1>8. CASE IntervalPasses
  BY <1>8 DEF IntervalPasses, IInv, TypeOK, KindInv, PlaceInv, FlushInv, Waiting, FlushedBy,
      NoBatch
<1>9. CASE Shutdown
  BY <1>9 DEF Shutdown, IInv, TypeOK, KindInv, PlaceInv, FlushInv, Waiting, FlushedBy, NoBatch
<1>10. CASE UNCHANGED vars
  BY <1>10 DEF vars, IInv, TypeOK, KindInv, PlaceInv, FlushInv, Waiting, FlushedBy, NoBatch
<1> QED
  BY <1>1, <1>2, <1>3, <1>4, <1>5, <1>6, <1>7, <1>8, <1>9, <1>10 DEF Next, Step

(* Every post of a batch adds one copy of its records at most. *)
LEMMA CopyStep ==
  ASSUME IInv, NEW m \in Emitters, [Next]_vars
  PROVE  CopyInv(m)'
<1> USE ExporterAssumption DEF batchVars, tallyVars, Settle, Taken, Records
<1>1. ASSUME NEW e \in Emitters, Enqueue(e) PROVE CopyInv(m)'
  BY <1>1 DEF Enqueue, IInv, TypeOK, KindInv, PlaceInv, FlushInv, CopyInv, Waiting,
      FlushedBy, NoBatch
<1>2. ASSUME NEW e \in Emitters, TakeAll(e) PROVE CopyInv(m)'
  BY <1>2 DEF TakeAll, IInv, TypeOK, KindInv, PlaceInv, FlushInv, CopyInv, Waiting,
      FlushedBy, NoBatch
<1>3. ASSUME NEW e \in Emitters, PickKind(e) PROVE CopyInv(m)'
  BY <1>3 DEF PickKind, IInv, TypeOK, KindInv, PlaceInv, FlushInv, CopyInv, Waiting,
      FlushedBy, NoBatch
<1>4. ASSUME NEW e \in Emitters, PostAcked(e) PROVE CopyInv(m)'
  BY <1>4 DEF PostAcked, IInv, TypeOK, KindInv, PlaceInv, FlushInv, CopyInv, Waiting,
      FlushedBy, NoBatch
<1>5. ASSUME NEW e \in Emitters, PostFails(e) PROVE CopyInv(m)'
  BY <1>5 DEF PostFails, IInv, TypeOK, KindInv, PlaceInv, FlushInv, CopyInv, Waiting,
      FlushedBy, NoBatch
<1>6. ASSUME NEW e \in Emitters, GiveUp(e) PROVE CopyInv(m)'
  BY <1>6 DEF GiveUp, IInv, TypeOK, KindInv, PlaceInv, FlushInv, CopyInv, Waiting, FlushedBy,
      NoBatch
<1>7. ASSUME NEW e \in Emitters, FlushReturns(e) PROVE CopyInv(m)'
  BY <1>7 DEF FlushReturns, IInv, TypeOK, KindInv, PlaceInv, FlushInv, CopyInv, Waiting,
      FlushedBy, NoBatch
<1>8. CASE IntervalPasses
  BY <1>8 DEF IntervalPasses, IInv, TypeOK, KindInv, PlaceInv, FlushInv, CopyInv, Waiting,
      FlushedBy, NoBatch
<1>9. CASE Shutdown
  BY <1>9 DEF Shutdown, IInv, TypeOK, KindInv, PlaceInv, FlushInv, CopyInv, Waiting,
      FlushedBy, NoBatch
<1>10. CASE UNCHANGED vars
  BY <1>10 DEF vars, IInv, TypeOK, KindInv, PlaceInv, FlushInv, CopyInv, Waiting, FlushedBy,
      NoBatch
<1> QED
  BY <1>1, <1>2, <1>3, <1>4, <1>5, <1>6, <1>7, <1>8, <1>9, <1>10 DEF Next, Step

(* sent_records counts the records acknowledged: those of a batch were not  *)
(* acknowledged before.                                                     *)
LEMMA SentStep ==
  ASSUME IInv, [Next]_vars
  PROVE  sentRecords' = Cardinality(delivered')
<1> USE DEF batchVars, tallyVars, Settle, Taken
<1>1. ASSUME NEW e \in Emitters, Enqueue(e) PROVE sentRecords' = Cardinality(delivered')
  BY <1>1 DEF Enqueue, IInv
<1>2. ASSUME NEW e \in Emitters, TakeAll(e) PROVE sentRecords' = Cardinality(delivered')
  BY <1>2 DEF TakeAll, IInv
<1>3. ASSUME NEW e \in Emitters, PickKind(e) PROVE sentRecords' = Cardinality(delivered')
  BY <1>3 DEF PickKind, IInv
<1>4. ASSUME NEW e \in Emitters, PostAcked(e) PROVE sentRecords' = Cardinality(delivered')
  <2>1. TypeOK /\ posting[e] # "none" /\ sentRecords = Cardinality(delivered)
    BY <1>4 DEF PostAcked, IInv
  <2>2. Records(e) \cap delivered = {}
    <3>1. ASSUME NEW m \in Records(e) PROVE m \notin delivered
      <4>1. m \in Emitters /\ FlushedBy(m, e)
        BY <2>1, <3>1, RecordsAreFinite DEF Records, FlushedBy, IInv, KindInv
      <4> QED
        BY <4>1 DEF IInv, PlaceInv
    <3> QED
      BY <3>1
  <2>3. IsFiniteSet(delivered) /\ IsFiniteSet(Records(e))
    BY <2>1, ExporterAssumption, FS_Subset, RecordsAreFinite DEF TypeOK
  <2>4. /\ Cardinality(delivered \cup Records(e)) =
             Cardinality(delivered) + Cardinality(Records(e))
               - Cardinality(delivered \cap Records(e))
        /\ Cardinality(delivered \cap Records(e)) = 0
    BY <2>2, <2>3, FS_Union, FS_EmptySet
  <2>5. Cardinality(delivered) \in Nat /\ Cardinality(Records(e)) \in Nat
    BY <2>3, FS_CardinalityType
  <2> QED
    BY <1>4, <2>1, <2>4, <2>5 DEF PostAcked
<1>5. ASSUME NEW e \in Emitters, PostFails(e) PROVE sentRecords' = Cardinality(delivered')
  BY <1>5 DEF PostFails, IInv
<1>6. ASSUME NEW e \in Emitters, GiveUp(e) PROVE sentRecords' = Cardinality(delivered')
  BY <1>6 DEF GiveUp, IInv
<1>7. ASSUME NEW e \in Emitters, FlushReturns(e) PROVE sentRecords' = Cardinality(delivered')
  BY <1>7 DEF FlushReturns, IInv
<1>8. CASE IntervalPasses
  BY <1>8 DEF IntervalPasses, IInv
<1>9. CASE Shutdown
  BY <1>9 DEF Shutdown, IInv
<1>10. CASE UNCHANGED vars
  BY <1>10 DEF vars, IInv
<1> QED
  BY <1>1, <1>2, <1>3, <1>4, <1>5, <1>6, <1>7, <1>8, <1>9, <1>10 DEF Next, Step

(* The emitter that fills a buffer flushes it, and the flush that empties   *)
(* one buffer empties all.                                                  *)
LEMMA FlusherStep ==
  ASSUME IInv, [Next]_vars
  PROVE  FullBufferHasFlusher'
<1> USE DEF batchVars, tallyVars, Settle, Taken
<1>1. ASSUME NEW e \in Emitters, Enqueue(e) PROVE FullBufferHasFlusher'
  <2> SUFFICES ASSUME NEW k \in Kinds, Cardinality(buffer'[k]) >= BatchSize
               PROVE  \E m \in Emitters : pc'[m] = "flush"
    BY DEF FullBufferHasFlusher
  <2>1. /\ pc[e] = "idle" /\ buffer' = [buffer EXCEPT ![kindOf[e]] = @ \cup {e}]
        /\ pc' = [pc EXCEPT ![e] = IF FlushDue(kindOf[e]) THEN "flush" ELSE "done"]
        /\ TypeOK /\ FullBufferHasFlusher /\ kindOf[e] \in Kinds
    BY <1>1 DEF Enqueue, IInv, TypeOK
  <2>2. CASE k = kindOf[e]
    <3>1. e \notin buffer[k] /\ buffer'[k] = buffer[k] \cup {e}
      BY <1>1, <2>1, <2>2 DEF IInv, TypeOK, PlaceInv, Waiting
    <3>2. IsFiniteSet(buffer[k])
      BY <2>1, ExporterAssumption, FS_Subset DEF TypeOK
    <3>3. Cardinality(buffer'[k]) = Cardinality(buffer[k]) + 1
      BY <3>1, <3>2, FS_AddElement
    <3>4. FlushDue(kindOf[e])
      BY <2>2, <3>3 DEF FlushDue
    <3> QED
      BY <1>1, <2>1, <3>4 DEF TypeOK
  <2>3. CASE k # kindOf[e]
    <3>1. buffer'[k] = buffer[k]
      BY <2>1, <2>3 DEF TypeOK
    <3>2. PICK m \in Emitters : pc[m] = "flush"
      BY <2>1, <3>1 DEF FullBufferHasFlusher
    <3> QED
      BY <2>1, <3>2 DEF TypeOK
  <2> QED
    BY <2>2, <2>3
<1>2. ASSUME NEW e \in Emitters, TakeAll(e) PROVE FullBufferHasFlusher'
  <2>1. \A k \in Kinds : buffer'[k] = {}
    BY <1>2 DEF TakeAll, NoBatch
  <2> QED
    BY <2>1, FS_EmptySet, ExporterAssumption DEF FullBufferHasFlusher
<1>3. ASSUME NEW e \in Emitters, PickKind(e) PROVE FullBufferHasFlusher'
  BY <1>3 DEF PickKind, IInv, TypeOK, FullBufferHasFlusher
<1>4. ASSUME NEW e \in Emitters, PostAcked(e) PROVE FullBufferHasFlusher'
  BY <1>4 DEF PostAcked, IInv, TypeOK, FullBufferHasFlusher
<1>5. ASSUME NEW e \in Emitters, PostFails(e) PROVE FullBufferHasFlusher'
  BY <1>5 DEF PostFails, IInv, TypeOK, FullBufferHasFlusher
<1>6. ASSUME NEW e \in Emitters, GiveUp(e) PROVE FullBufferHasFlusher'
  BY <1>6 DEF GiveUp, IInv, TypeOK, FullBufferHasFlusher
<1>7. ASSUME NEW e \in Emitters, FlushReturns(e) PROVE FullBufferHasFlusher'
  BY <1>7 DEF FlushReturns, IInv, TypeOK, FullBufferHasFlusher
<1>8. CASE IntervalPasses
  BY <1>8 DEF IntervalPasses, IInv, TypeOK, FullBufferHasFlusher
<1>9. CASE Shutdown
  BY <1>9 DEF Shutdown, IInv, TypeOK, FullBufferHasFlusher
<1>10. CASE UNCHANGED vars
  BY <1>10 DEF vars, IInv, TypeOK, FullBufferHasFlusher
<1> QED
  BY <1>1, <1>2, <1>3, <1>4, <1>5, <1>6, <1>7, <1>8, <1>9, <1>10 DEF Next, Step

(* The initial state satisfies the invariant and every step keeps it. *)
LEMMA Invariant == Spec => []IInv
<1>1. Init => IInv
  <2> SUFFICES ASSUME Init PROVE IInv
    OBVIOUS
  <2>1. TypeOK
    <3>1. 0 \in 0 .. Retries + 1
      BY ExporterAssumption
    <3> QED
      BY <3>1 DEF Init, TypeOK, NoBatch
  <2>2. KindInv /\ sentRecords = Cardinality(delivered)
    BY FS_EmptySet DEF Init, KindInv, NoBatch
  <2>3. ASSUME NEW m \in Emitters PROVE PlaceInv(m) /\ FlushInv(m) /\ CopyInv(m)
    BY ExporterAssumption
    DEF Init, PlaceInv, FlushInv, CopyInv, Waiting, FlushedBy, NoBatch
  <2>4. FullBufferHasFlusher
    BY FS_EmptySet, ExporterAssumption DEF Init, NoBatch, FullBufferHasFlusher
  <2> QED
    BY <2>1, <2>2, <2>3, <2>4 DEF IInv
<1>2. IInv /\ [Next]_vars => IInv'
  <2> SUFFICES ASSUME IInv, [Next]_vars PROVE IInv'
    OBVIOUS
  <2>1. TypeOK' /\ KindInv'
    BY TypesStep, KindStep DEF IInv
  <2>2. ASSUME NEW m \in Emitters PROVE (PlaceInv(m) /\ FlushInv(m) /\ CopyInv(m))'
    BY FlushStep, PlaceStep, CopyStep DEF IInv
  <2> QED
    BY <2>1, <2>2, SentStep, FlusherStep DEF IInv
<1> QED
  BY <1>1, <1>2, PTL DEF Spec

-----------------------------------------------------------------------------
(* enqueue and flush under one lock: a record is in one place at a time,    *)
(* sent_records counts each acknowledged record once, and the collector     *)
(* never takes a record more often than otlp_retries allows.                *)
THEOREM RecordInOnePlace == Spec => []EachRecordInOnePlace
<1>1. IInv => EachRecordInOnePlace
  <2> SUFFICES ASSUME IInv PROVE EachRecordInOnePlace
    OBVIOUS
  <2>1. ASSUME NEW m \in Emitters
        PROVE  Cardinality(Places(m)) = IF pc[m] = "idle" THEN 0 ELSE 1
    <3>0. TypeOK /\ KindInv /\ PlaceInv(m) /\ kindOf[m] \in Kinds
      BY DEF IInv, TypeOK
    <3>1. CASE pc[m] = "idle"
      <4>1. Places(m) = {}
        BY <3>0, <3>1 DEF Places, KindInv, PlaceInv, Waiting, FlushedBy
      <4> QED
        BY <3>1, <4>1, FS_EmptySet
    <3>2. CASE pc[m] # "idle"
      <4>1. ASSUME Waiting(m) PROVE Places(m) = {<<"buffer", kindOf[m]>>}
        <5>1. {p \in {"buffer"} \X Kinds : m \in buffer[p[2]]} = {<<"buffer", kindOf[m]>>}
          BY <3>0, <4>1 DEF KindInv, Waiting
        <5>2. {p \in {"flush"} \X Emitters \X Kinds : m \in batch[p[2]][p[3]]} = {}
          BY <3>0, <4>1 DEF KindInv, PlaceInv, FlushedBy
        <5>3. m \notin delivered /\ m \notin dropped
          BY <3>0, <4>1 DEF PlaceInv
        <5> QED
          BY <5>1, <5>2, <5>3 DEF Places
      <4>2. ASSUME NEW n \in Emitters, FlushedBy(m, n)
            PROVE  Places(m) = {<<"flush", n, kindOf[m]>>}
        <5>1. {p \in {"buffer"} \X Kinds : m \in buffer[p[2]]} = {}
          BY <3>0, <4>2 DEF KindInv, PlaceInv, Waiting
        <5>2. {p \in {"flush"} \X Emitters \X Kinds : m \in batch[p[2]][p[3]]}
                = {<<"flush", n, kindOf[m]>>}
          <6>1. \A l \in Emitters, k \in Kinds :
                  m \in batch[l][k] <=> l = n /\ k = kindOf[m]
            BY <3>0, <4>2 DEF KindInv, PlaceInv, FlushedBy
          <6> QED
            BY <3>0, <6>1
        <5>3. m \notin delivered /\ m \notin dropped
          BY <3>0, <4>2 DEF PlaceInv
        <5> QED
          BY <5>1, <5>2, <5>3 DEF Places
      <4>3. ASSUME m \in delivered PROVE Places(m) = {<<"acknowledged">>}
        BY <3>0, <4>3 DEF Places, KindInv, PlaceInv, Waiting, FlushedBy
      <4>4. ASSUME m \in dropped PROVE Places(m) = {<<"given up">>}
        BY <3>0, <4>4 DEF Places, KindInv, PlaceInv, Waiting, FlushedBy
      <4>5. \E p : Places(m) = {p}
        BY <3>0, <3>2, <4>1, <4>2, <4>3, <4>4 DEF PlaceInv
      <4> QED
        BY <3>2, <4>5, FS_Singleton
    <3> QED
      BY <3>1, <3>2
  <2> QED
    BY <2>1 DEF IInv, CopyInv, EachRecordInOnePlace
<1> QED
  BY <1>1, Invariant, PTL

(* The decision to flush is taken under the lock of the append, so a full   *)
(* buffer always has an emitter on the way to flush it.                     *)
THEOREM FullBufferIsFlushed == Spec => []FullBufferHasFlusher
<1>1. IInv => FullBufferHasFlusher
  BY DEF IInv
<1> QED
  BY <1>1, Invariant, PTL
=============================================================================
