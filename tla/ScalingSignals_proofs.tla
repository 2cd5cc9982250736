----------------------- MODULE ScalingSignals_proofs -----------------------
(***************************************************************************)
(* Proofs about what the scaling signals are computed from: the SLO store  *)
(* and the order in which a request uses it, for any number of requests,   *)
(* any capacity and any age limit; and the timeout spike, for any length   *)
(* of a minute, any threshold and any number of timeouts at a time.        *)
(***************************************************************************)
EXTENDS SLOStore, TimeoutSpike, FiniteSetTheorems, FunctionTheorems, TLAPS

Timed == {"fallback", "snapshot", "answered"}

(* A record that was never evicted is the request's own; one that was holds *)
(* no start any more, whichever call created it again.                      *)
RecordInv(r) ==
  /\ records[r].inserted = 0 => records[r] = Absent
  /\ pc[r] = "start" => records[r] = Absent /\ r \notin evicted
  /\ pc[r] # "start" => begun[r] # 0
  /\ pc[r] \in {"start", "call", "failed"} => r \notin fellBack
  /\ pc[r] = "fallback" => r \in fellBack
  /\ records[r].started => r \notin evicted
  /\ records[r].ended # 0 => pc[r] \in Timed
  /\ r \notin evicted /\ pc[r] # "start" => records[r].inserted # 0 /\ records[r].started
  /\ r \notin evicted /\ pc[r] \in Timed => records[r].ended # 0
  /\ r \notin evicted =>
       (records[r].fallback <=> pc[r] \in {"snapshot", "answered"} /\ r \in fellBack)
  /\ pc[r] = "answered" /\ r \notin evicted =>
       told[r] = [timed |-> TRUE, fallback |-> r \in fellBack]

StoreInv == TypeOK /\ \A r \in Requests : RecordInv(r)

-----------------------------------------------------------------------------
(* A Record call writes one record and evicts some: who is kept has the     *)
(* record it had, who is not has none, and is marked if it had one.         *)
LEMMA PutEffect ==
  ASSUME TypeOK, NEW r \in Requests, NEW rec \in Record, rec.inserted # 0, Put(r, rec)
  PROVE  \E K \in SUBSET Requests :
           /\ records' = [q \in Requests |->
                           IF q \in K THEN (IF q = r THEN rec ELSE records[q]) ELSE Absent]
           /\ \A q \in K : ~Expired(records'[q])
           /\ \A q \in Requests :
                q \in evicted' <=>
                  q \in evicted \/ (q \notin K /\ (q = r \/ records[q].inserted # 0))
           /\ evicted' \subseteq Requests
<1> DEFINE written == [records EXCEPT ![r] = rec]
           live == {q \in Present(written) : ~Expired(written[q])}
<1>1. PICK K \in Kept(written) :
        /\ records' = [q \in Requests |-> IF q \in K THEN written[q] ELSE Absent]
        /\ evicted' = evicted \cup (Present(written) \ K)
  BY DEF Put
<1>2. K \subseteq live
  BY DEF Kept, kSubset
<1>3. \A q \in Requests : written[q] = IF q = r THEN rec ELSE records[q]
  BY DEF TypeOK
<1>4. K \subseteq Requests /\ \A q \in K : ~Expired(written[q])
  BY <1>2 DEF Present
<1>5. \A q \in Requests : q \in Present(written) <=> q = r \/ records[q].inserted # 0
  BY <1>3 DEF Present
<1>6. records' = [q \in Requests |->
                   IF q \in K THEN (IF q = r THEN rec ELSE records[q]) ELSE Absent]
  BY <1>1, <1>3
<1>7. \A q \in K : ~Expired(records'[q])
  BY <1>1, <1>4
<1>8. \A q \in Requests :
        q \in evicted' <=>
          q \in evicted \/ (q \notin K /\ (q = r \/ records[q].inserted # 0))
  BY <1>1, <1>5
<1>9. evicted' \subseteq Requests
  BY <1>1 DEF TypeOK, Present
<1> QED
  BY <1>4, <1>6, <1>7, <1>8, <1>9

(* ensureRecord answers a record, its own or a new one. *)
LEMMA EnsuredRecord ==
  ASSUME TypeOK, NEW r \in Requests
  PROVE  /\ Ensured(r) \in Record /\ Ensured(r).inserted # 0
         /\ records[r].inserted # 0 => Ensured(r) = records[r]
         /\ records[r].inserted = 0 => Ensured(r) = [Absent EXCEPT !.inserted = now]
<1>1. now \in Times /\ now # 0 /\ 0 \in Times
  BY StoreAssumption DEF TypeOK, Times
<1>2. [Absent EXCEPT !.inserted = now] \in Record
      /\ [Absent EXCEPT !.inserted = now].inserted = now
  BY <1>1 DEF Absent, Record
<1>3. records[r] \in Record
  BY DEF TypeOK
<1> QED
  BY <1>1, <1>2, <1>3 DEF Ensured, Present

(* The record of another request is kept as it is or evicted.               *)
LEMMA PutKeepsOthers ==
  ASSUME TypeOK, NEW r \in Requests, NEW rec \in Record, rec.inserted # 0, Put(r, rec),
         NEW q \in Requests, q # r, RecordInv(q), pc'[q] = pc[q], begun'[q] = begun[q],
         (q \in fellBack') = (q \in fellBack), told'[q] = told[q]
  PROVE  RecordInv(q)'
<1>1. PICK K \in SUBSET Requests :
        /\ records' = [p \in Requests |->
                        IF p \in K THEN (IF p = r THEN rec ELSE records[p]) ELSE Absent]
        /\ \A p \in Requests :
             p \in evicted' <=>
               p \in evicted \/ (p \notin K /\ (p = r \/ records[p].inserted # 0))
  BY PutEffect
<1>2. CASE q \in K
  <2>1. records'[q] = records[q] /\ (q \in evicted') = (q \in evicted)
    BY <1>1, <1>2
  <2> QED
    BY <2>1 DEF RecordInv
<1>3. CASE q \notin K
  <2>1. records'[q] = Absent
    BY <1>1, <1>3
  <2>2. records[q].inserted # 0 => q \in evicted'
    BY <1>1, <1>3
  <2>3. records[q].inserted = 0 =>
          records[q] = Absent /\ (q \in evicted') = (q \in evicted)
    BY <1>1, <1>3 DEF RecordInv
  <2>4. Absent.inserted = 0 /\ Absent.started = FALSE /\ Absent.ended = 0
    BY DEF Absent
  <2>5. CASE records[q].inserted = 0
    BY <2>1, <2>3, <2>5 DEF RecordInv
  <2>6. CASE records[q].inserted # 0
    <3>1. pc[q] # "start"
      BY <2>4, <2>6 DEF RecordInv
    <3> QED
      BY <2>1, <2>2, <2>4, <2>6, <3>1 DEF RecordInv
  <2> QED
    BY <2>5, <2>6
<1> QED
  BY <1>2, <1>3

(* The record written is kept as written, or evicted at once. *)
LEMMA PutOwn ==
  ASSUME TypeOK, NEW r \in Requests, NEW rec \in Record, rec.inserted # 0, Put(r, rec)
  PROVE  \/ records'[r] = rec /\ (r \in evicted' <=> r \in evicted)
         \/ records'[r] = Absent /\ r \in evicted'
BY PutEffect

(* The store stays well typed under a Record call. *)
LEMMA PutTypes ==
  ASSUME TypeOK, NEW r \in Requests, NEW rec \in Record, rec.inserted # 0, Put(r, rec)
  PROVE  records' \in [Requests -> Record] /\ evicted' \subseteq Requests
<1>1. PICK K \in SUBSET Requests :
        /\ records' = [p \in Requests |->
                        IF p \in K THEN (IF p = r THEN rec ELSE records[p]) ELSE Absent]
        /\ evicted' \subseteq Requests
  BY PutEffect
<1>2. Absent \in Record
  BY StoreAssumption DEF Absent, Record, Times
<1> QED
  BY <1>1, <1>2 DEF TypeOK

(* What each Record call writes. *)
LEMMA Writes ==
  ASSUME StoreInv, NEW r \in Requests
  PROVE  /\ RecordStart(r) =>
              \E rec \in Record : /\ rec.inserted # 0 /\ Put(r, rec)
                                  /\ rec = [Ensured(r) EXCEPT !.started = TRUE]
         /\ RecordFirstToken(r) =>
              \E rec \in Record : rec.inserted # 0 /\ Put(r, rec) /\ rec = Ensured(r)
         /\ RecordCompletion(r) =>
              \E rec \in Record, ts \in Times :
                /\ rec.inserted # 0 /\ Put(r, rec) /\ ts # 0
                /\ rec = [Ensured(r) EXCEPT !.ended = ts]
         /\ RecordFallback(r) =>
              \E rec \in Record : /\ rec.inserted # 0 /\ Put(r, rec)
                                  /\ rec = [Ensured(r) EXCEPT !.fallback = TRUE]
<1>1. TypeOK /\ Ensured(r) \in Record /\ Ensured(r).inserted # 0
  BY EnsuredRecord DEF StoreInv
<1>2. ASSUME RecordStart(r)
      PROVE  \E rec \in Record : /\ rec.inserted # 0 /\ Put(r, rec)
                                 /\ rec = [Ensured(r) EXCEPT !.started = TRUE]
  <2>1. /\ [Ensured(r) EXCEPT !.started = TRUE] \in Record
        /\ [Ensured(r) EXCEPT !.started = TRUE].inserted # 0
    BY <1>1 DEF Record
  <2> QED
    BY <1>2, <2>1 DEF RecordStart
<1>3. ASSUME RecordCompletion(r)
      PROVE  \E rec \in Record, ts \in Times :
               /\ rec.inserted # 0 /\ Put(r, rec) /\ ts # 0
               /\ rec = [Ensured(r) EXCEPT !.ended = ts]
  <2>1. PICK ts \in begun[r] .. now : Put(r, [Ensured(r) EXCEPT !.ended = ts])
    BY <1>3 DEF RecordCompletion
  <2>2. pc[r] = "completion" /\ begun[r] # 0
    BY <1>3 DEF RecordCompletion, Goes, StoreInv, RecordInv
  <2>3. ts \in Times /\ ts # 0
    BY <1>1, <2>2, StoreAssumption DEF TypeOK, Times
  <2>4. /\ [Ensured(r) EXCEPT !.ended = ts] \in Record
        /\ [Ensured(r) EXCEPT !.ended = ts].inserted # 0
    BY <1>1, <2>3 DEF Record
  <2> QED
    BY <2>1, <2>3, <2>4
<1>4. ASSUME RecordFallback(r)
      PROVE  \E rec \in Record : /\ rec.inserted # 0 /\ Put(r, rec)
                                 /\ rec = [Ensured(r) EXCEPT !.fallback = TRUE]
  <2>1. /\ [Ensured(r) EXCEPT !.fallback = TRUE] \in Record
        /\ [Ensured(r) EXCEPT !.fallback = TRUE].inserted # 0
    BY <1>1 DEF Record
  <2> QED
    BY <1>4, <2>1 DEF RecordFallback
<1>5. ASSUME RecordFirstToken(r)
      PROVE  \E rec \in Record : rec.inserted # 0 /\ Put(r, rec) /\ rec = Ensured(r)
  BY <1>1, <1>5 DEF RecordFirstToken
<1> QED
  BY <1>2, <1>3, <1>4, <1>5

-----------------------------------------------------------------------------
(* Every call of the store keeps the types. *)
LEMMA TypesStep ==
  ASSUME StoreInv, [Next]_vars
  PROVE  TypeOK'
<1> USE DEF StoreInv, TypeOK
<1>1. ASSUME NEW r \in Requests, RecordStart(r) PROVE TypeOK'
  <2>1. records' \in [Requests -> Record] /\ evicted' \subseteq Requests
    BY <1>1, Writes, PutTypes
  <2>2. now \in Times
    BY StoreAssumption DEF Times
  <2> QED
    BY <1>1, <2>1, <2>2 DEF RecordStart, Goes
<1>2. ASSUME NEW r \in Requests, RecordFirstToken(r) PROVE TypeOK'
  <2>1. records' \in [Requests -> Record] /\ evicted' \subseteq Requests
    BY <1>2, Writes, PutTypes
  <2> QED
    BY <1>2, <2>1 DEF RecordFirstToken, Goes
<1>3. ASSUME NEW r \in Requests, RecordCompletion(r) PROVE TypeOK'
  <2>1. records' \in [Requests -> Record] /\ evicted' \subseteq Requests
    BY <1>3, Writes, PutTypes
  <2> QED
    BY <1>3, <2>1 DEF RecordCompletion, Goes
<1>4. ASSUME NEW r \in Requests, RecordFallback(r) PROVE TypeOK'
  <2>1. records' \in [Requests -> Record] /\ evicted' \subseteq Requests
    BY <1>4, Writes, PutTypes
  <2> QED
    BY <1>4, <2>1 DEF RecordFallback, Goes
<1>5. ASSUME NEW r \in Requests, Succeeds(r) PROVE TypeOK'
  BY <1>5 DEF Succeeds, Goes
<1>6. ASSUME NEW r \in Requests, Fails(r) PROVE TypeOK'
  BY <1>6 DEF Fails, Goes
<1>7. ASSUME NEW r \in Requests, Snapshot(r) PROVE TypeOK'
  <2>1. records[r] \in Record
    OBVIOUS
  <2>2. [timed |-> records[r].started /\ records[r].ended # 0,
         fallback |-> records[r].fallback] \in [timed : BOOLEAN, fallback : BOOLEAN]
    BY <2>1 DEF Record
  <2> QED
    BY <1>7, <2>2 DEF Snapshot, Goes
<1>8. CASE Tick
  BY <1>8, StoreAssumption DEF Tick
<1>9. CASE UNCHANGED vars
  BY <1>9 DEF vars
<1> QED
  BY <1>1, <1>2, <1>3, <1>4, <1>5, <1>6, <1>7, <1>8, <1>9 DEF Next, Step

(* The request that makes the call. *)
LEMMA OwnStep ==
  ASSUME StoreInv, NEW r \in Requests, Step(r)
  PROVE  RecordInv(r)'
<1>0. TypeOK /\ RecordInv(r)
  BY DEF StoreInv
<1>1. Absent.inserted = 0 /\ Absent.started = FALSE /\ Absent.ended = 0
      /\ Absent.fallback = FALSE
  BY DEF Absent
<1>2. ASSUME RecordStart(r) PROVE RecordInv(r)'
  <2>1. PICK rec \in Record : /\ rec.inserted # 0 /\ Put(r, rec)
                              /\ rec = [Ensured(r) EXCEPT !.started = TRUE]
    BY <1>2, Writes
  <2>2. /\ pc[r] = "start" /\ pc'[r] = "call" /\ begun'[r] = now /\ now # 0
        /\ fellBack' = fellBack
    BY <1>0, <1>2 DEF RecordStart, Goes, TypeOK
  <2>3. rec.started = TRUE /\ rec.ended = 0 /\ rec.fallback = FALSE
    <3>1. Ensured(r) = [Absent EXCEPT !.inserted = now]
      BY <1>0, <1>1, <2>2, EnsuredRecord DEF RecordInv
    <3> QED
      BY <2>1, <3>1 DEF Absent
  <2>4. r \notin evicted /\ r \notin fellBack
    BY <1>0, <2>2 DEF RecordInv
  <2>5. \/ records'[r] = rec /\ r \notin evicted'
        \/ records'[r] = Absent /\ r \in evicted'
    BY <1>0, <2>1, <2>4, PutOwn
  <2> QED
    BY <1>1, <2>1, <2>2, <2>3, <2>4, <2>5 DEF RecordInv, Timed
<1>3. ASSUME RecordFirstToken(r) PROVE RecordInv(r)'
  <2>1. PICK rec \in Record : rec.inserted # 0 /\ Put(r, rec) /\ rec = Ensured(r)
    BY <1>3, Writes
  <2>2. /\ pc[r] = "first" /\ pc'[r] = "completion" /\ begun'[r] = begun[r]
        /\ fellBack' = fellBack
    BY <1>0, <1>3 DEF RecordFirstToken, Goes, TypeOK
  <2>3. CASE records[r].inserted # 0
    <3>1. rec = records[r]
      BY <1>0, <2>1, <2>3, EnsuredRecord
    <3>2. \/ records'[r] = records[r] /\ (r \in evicted' <=> r \in evicted)
          \/ records'[r] = Absent /\ r \in evicted'
      BY <1>0, <2>1, <3>1, PutOwn
    <3> QED
      BY <1>0, <1>1, <2>2, <2>3, <3>2 DEF RecordInv, Timed
  <2>4. CASE records[r].inserted = 0
    <3>1. rec.started = FALSE /\ rec.ended = 0 /\ rec.fallback = FALSE
      BY <1>0, <2>1, <2>4, EnsuredRecord DEF Absent
    <3>2. r \in evicted
      BY <1>0, <2>2, <2>4 DEF RecordInv
    <3>3. (records'[r] = rec \/ records'[r] = Absent) /\ r \in evicted'
      BY <1>0, <2>1, <3>2, PutOwn
    <3> QED
      BY <1>0, <1>1, <2>1, <2>2, <3>1, <3>3 DEF RecordInv, Timed
  <2> QED
    BY <2>3, <2>4
<1>4. ASSUME RecordCompletion(r) PROVE RecordInv(r)'
  <2>1. PICK rec \in Record, ts \in Times :
          /\ rec.inserted # 0 /\ Put(r, rec) /\ ts # 0
          /\ rec = [Ensured(r) EXCEPT !.ended = ts]
    BY <1>4, Writes
  <2>2. /\ pc[r] = "completion" /\ begun'[r] = begun[r] /\ fellBack' = fellBack
        /\ pc'[r] = IF r \in fellBack THEN "fallback" ELSE "snapshot"
    BY <1>0, <1>4 DEF RecordCompletion, Goes, TypeOK
  <2>3. Ensured(r) \in Record
    BY <1>0, EnsuredRecord
  <2>4. rec.ended = ts /\ rec.started = Ensured(r).started
        /\ rec.fallback = Ensured(r).fallback
    BY <2>1, <2>3 DEF Record
  <2>5. CASE records[r].inserted # 0
    <3>1. rec.started = records[r].started /\ rec.fallback = records[r].fallback
      BY <1>0, <2>4, <2>5, EnsuredRecord
    <3>2. \/ records'[r] = rec /\ (r \in evicted' <=> r \in evicted)
          \/ records'[r] = Absent /\ r \in evicted'
      BY <1>0, <2>1, PutOwn
    <3> QED
      BY <1>0, <1>1, <2>1, <2>2, <2>4, <3>1, <3>2 DEF RecordInv, Timed
  <2>6. CASE records[r].inserted = 0
    <3>1. rec.started = FALSE
      BY <1>0, <2>4, <2>6, EnsuredRecord DEF Absent
    <3>2. r \in evicted
      BY <1>0, <2>2, <2>6 DEF RecordInv
    <3>3. (records'[r] = rec \/ records'[r] = Absent) /\ r \in evicted'
      BY <1>0, <2>1, <3>2, PutOwn
    <3> QED
      BY <1>0, <1>1, <2>1, <2>2, <3>1, <3>3 DEF RecordInv, Timed
  <2> QED
    BY <2>5, <2>6
<1>5. ASSUME RecordFallback(r) PROVE RecordInv(r)'
  <2>1. PICK rec \in Record : /\ rec.inserted # 0 /\ Put(r, rec)
                              /\ rec = [Ensured(r) EXCEPT !.fallback = TRUE]
    BY <1>5, Writes
  <2>2. /\ pc[r] = "fallback" /\ begun'[r] = begun[r] /\ fellBack' = fellBack
        /\ pc'[r] = "snapshot"
    BY <1>0, <1>5 DEF RecordFallback, Goes, TypeOK
  <2>3. Ensured(r) \in Record
    BY <1>0, EnsuredRecord
  <2>4. rec.fallback = TRUE /\ rec.started = Ensured(r).started
        /\ rec.ended = Ensured(r).ended
    BY <2>1, <2>3 DEF Record
  <2>5. CASE records[r].inserted # 0
    <3>1. rec.started = records[r].started /\ rec.ended = records[r].ended
      BY <1>0, <2>4, <2>5, EnsuredRecord
    <3>2. \/ records'[r] = rec /\ (r \in evicted' <=> r \in evicted)
          \/ records'[r] = Absent /\ r \in evicted'
      BY <1>0, <2>1, PutOwn
    <3> QED
      BY <1>0, <1>1, <2>1, <2>2, <2>4, <3>1, <3>2 DEF RecordInv, Timed
  <2>6. CASE records[r].inserted = 0
    <3>1. rec.started = FALSE
      BY <1>0, <2>4, <2>6, EnsuredRecord DEF Absent
    <3>2. r \in evicted
      BY <1>0, <2>2, <2>6 DEF RecordInv
    <3>3. (records'[r] = rec \/ records'[r] = Absent) /\ r \in evicted'
      BY <1>0, <2>1, <3>2, PutOwn
    <3> QED
      BY <1>0, <1>1, <2>1, <2>2, <3>1, <3>3 DEF RecordInv, Timed
  <2> QED
    BY <2>5, <2>6
<1>6. ASSUME Succeeds(r) PROVE RecordInv(r)'
  BY <1>0, <1>6 DEF Succeeds, Goes, RecordInv, TypeOK, Timed
<1>7. ASSUME Fails(r) PROVE RecordInv(r)'
  BY <1>0, <1>7 DEF Fails, Goes, RecordInv, TypeOK, Timed
<1>8. ASSUME Snapshot(r) PROVE RecordInv(r)'
  <2>1. /\ pc[r] = "snapshot" /\ pc'[r] = "answered"
        /\ UNCHANGED <<records, begun, fellBack, evicted>>
        /\ told'[r] = [timed |-> records[r].started /\ records[r].ended # 0,
                       fallback |-> records[r].fallback]
    BY <1>0, <1>8 DEF Snapshot, Goes, TypeOK
  <2>2. records[r].fallback \in BOOLEAN /\ records[r].started \in BOOLEAN
    BY <1>0 DEF TypeOK, Record
  <2>3. r \notin evicted =>
          told'[r] = [timed |-> TRUE, fallback |-> r \in fellBack]
    <3>1. SUFFICES ASSUME r \notin evicted
                   PROVE  told'[r] = [timed |-> TRUE, fallback |-> r \in fellBack]
      OBVIOUS
    <3>2. (records[r].started /\ records[r].ended # 0) = TRUE
      BY <1>0, <2>1, <2>2, <3>1 DEF RecordInv, Timed
    <3>3. records[r].fallback = (r \in fellBack)
      BY <1>0, <2>1, <2>2, <3>1 DEF RecordInv
    <3> QED
      BY <2>1, <3>2, <3>3
  <2>4. r \notin evicted' =>
          told'[r] = [timed |-> TRUE, fallback |-> r \in fellBack']
    BY <2>1, <2>3
  <2> QED
    BY <1>0, <2>1, <2>4 DEF RecordInv, Timed
<1> QED
  BY <1>2, <1>3, <1>4, <1>5, <1>6, <1>7, <1>8 DEF Step

(* The requests that do not make the call. *)
LEMMA OtherStep ==
  ASSUME StoreInv, NEW r \in Requests, Step(r), NEW q \in Requests, q # r
  PROVE  RecordInv(q)'
<1>0. TypeOK /\ RecordInv(q)
  BY DEF StoreInv
<1>1. ASSUME RecordStart(r) PROVE RecordInv(q)'
  <2>1. /\ pc'[q] = pc[q] /\ begun'[q] = begun[q] /\ (q \in fellBack') = (q \in fellBack)
        /\ told'[q] = told[q]
    BY <1>0, <1>1 DEF RecordStart, Goes, TypeOK
  <2>2. PICK rec \in Record : rec.inserted # 0 /\ Put(r, rec)
    BY <1>1, Writes
  <2> QED
    BY <1>0, <2>1, <2>2, PutKeepsOthers
<1>2. ASSUME RecordFirstToken(r) PROVE RecordInv(q)'
  <2>1. /\ pc'[q] = pc[q] /\ begun'[q] = begun[q] /\ (q \in fellBack') = (q \in fellBack)
        /\ told'[q] = told[q]
    BY <1>0, <1>2 DEF RecordFirstToken, Goes, TypeOK
  <2>2. PICK rec \in Record : rec.inserted # 0 /\ Put(r, rec)
    BY <1>2, Writes
  <2> QED
    BY <1>0, <2>1, <2>2, PutKeepsOthers
<1>3. ASSUME RecordCompletion(r) PROVE RecordInv(q)'
  <2>1. /\ pc'[q] = pc[q] /\ begun'[q] = begun[q] /\ (q \in fellBack') = (q \in fellBack)
        /\ told'[q] = told[q]
    BY <1>0, <1>3 DEF RecordCompletion, Goes, TypeOK
  <2>2. PICK rec \in Record : rec.inserted # 0 /\ Put(r, rec)
    BY <1>3, Writes
  <2> QED
    BY <1>0, <2>1, <2>2, PutKeepsOthers
<1>4. ASSUME RecordFallback(r) PROVE RecordInv(q)'
  <2>1. /\ pc'[q] = pc[q] /\ begun'[q] = begun[q] /\ (q \in fellBack') = (q \in fellBack)
        /\ told'[q] = told[q]
    BY <1>0, <1>4 DEF RecordFallback, Goes, TypeOK
  <2>2. PICK rec \in Record : rec.inserted # 0 /\ Put(r, rec)
    BY <1>4, Writes
  <2> QED
    BY <1>0, <2>1, <2>2, PutKeepsOthers
<1>5. ASSUME Succeeds(r) PROVE RecordInv(q)'
  BY <1>0, <1>5 DEF Succeeds, Goes, RecordInv, TypeOK
<1>6. ASSUME Fails(r) PROVE RecordInv(q)'
  BY <1>0, <1>6 DEF Fails, Goes, RecordInv, TypeOK
<1>7. ASSUME Snapshot(r) PROVE RecordInv(q)'
  BY <1>0, <1>7 DEF Snapshot, Goes, RecordInv, TypeOK
<1> QED
  BY <1>1, <1>2, <1>3, <1>4, <1>5, <1>6, <1>7 DEF Step

(* The initial state satisfies the invariant and every step keeps it. *)
LEMMA Invariant == Spec => []StoreInv
<1>1. Init => StoreInv
  <2> SUFFICES ASSUME Init PROVE StoreInv
    OBVIOUS
  <2>1. TypeOK
    BY StoreAssumption DEF Init, TypeOK, Absent, Record, Times, Untold
  <2>2. ASSUME NEW r \in Requests PROVE RecordInv(r)
    BY DEF Init, RecordInv, Absent, Timed
  <2> QED
    BY <2>1, <2>2 DEF StoreInv
<1>2. StoreInv /\ [Next]_vars => StoreInv'
  <2> SUFFICES ASSUME StoreInv, [Next]_vars PROVE StoreInv'
    OBVIOUS
  <2>1. ASSUME NEW q \in Requests PROVE RecordInv(q)'
    <3>1. ASSUME NEW r \in Requests, Step(r) PROVE RecordInv(q)'
      BY <2>1, <3>1, OwnStep, OtherStep
    <3>2. CASE Tick \/ UNCHANGED vars
      BY <2>1, <3>2 DEF Tick, vars, StoreInv, RecordInv
    <3> QED
      BY <3>1, <3>2 DEF Next
  <2> QED
    BY <2>1, TypesStep DEF StoreInv
<1> QED
  BY <1>1, <1>2, PTL DEF Spec

-----------------------------------------------------------------------------
(* As long as the record of a request is not evicted by the calls of the    *)
(* other requests, the response built from Snapshot tells the truth.        *)
THEOREM KeptRecordTold == Spec => []KeptRecordTellsTruth
<1>1. StoreInv => KeptRecordTellsTruth
  BY DEF StoreInv, RecordInv, KeptRecordTellsTruth
<1> QED
  BY <1>1, Invariant, PTL

(* A record that RecordFirstToken, RecordCompletion or RecordFallback       *)
(* created again after an eviction has no start: ScalingAggregates never    *)
(* samples half a request.                                                  *)
THEOREM SamplesWhole == Spec => []SamplesAreWhole
<1>1. StoreInv => SamplesAreWhole
  BY DEF StoreInv, RecordInv, SamplesAreWhole, Samples, Present, Timed
<1> QED
  BY <1>1, Invariant, PTL

(* Every Record call ends with evictLocked: a step that changes the store   *)
(* leaves no record in it that is older than slo.max_age_ms.                *)
THEOREM TouchedStoreIsFresh == Spec => TouchExpires
<1>1. ASSUME StoreInv, NEW r \in Requests, NEW rec \in Record, rec.inserted # 0, Put(r, rec)
      PROVE  \A q \in Present(records') : ~Expired(records'[q])
  <2>1. PICK K \in SUBSET Requests :
          /\ records' = [p \in Requests |->
                          IF p \in K THEN (IF p = r THEN rec ELSE records[p]) ELSE Absent]
          /\ \A p \in K : ~Expired(records'[p])
    BY <1>1, PutEffect DEF StoreInv
  <2> QED
    BY <2>1 DEF Present, Absent
<1>2. StoreInv /\ [Next]_vars => [records' # records =>
                                     \A r \in Present(records') : ~Expired(records'[r])]_vars
  <2> SUFFICES ASSUME StoreInv, NEW r \in Requests, Step(r), records' # records
                 PROVE  \A q \in Present(records') : ~Expired(records'[q])
    BY DEF Next, Tick, vars
  <2>1. \E rec \in Record : rec.inserted # 0 /\ Put(r, rec)
    BY Writes DEF Step, Succeeds, Fails, Snapshot
  <2> QED
    BY <1>1, <2>1
<1> QED
  BY <1>2, Invariant, PTL DEF Spec, TouchExpires

(* The store's size, which slo.max_records bounds. *)
Bounded == Cardinality(Present(records)) <= MaxRecords

(* evictLocked drops the oldest records beyond slo.max_records: the store   *)
(* never holds more of them.                                                *)
THEOREM StoreIsBounded == Spec => []Bounded
<1>1. Init => Bounded
  <2>1. Init => Present(records) = {}
    BY DEF Init, Present, Absent
  <2> QED
    BY <2>1, FS_EmptySet, StoreAssumption DEF Bounded
<1>2. ASSUME StoreInv, NEW r \in Requests, NEW rec \in Record, Put(r, rec)
      PROVE  Bounded'
  <2> DEFINE written == [records EXCEPT ![r] = rec]
             live == {q \in Present(written) : ~Expired(written[q])}
             n == Min({MaxRecords, Cardinality(live)})
  <2>1. PICK K \in Kept(written) :
          records' = [q \in Requests |-> IF q \in K THEN written[q] ELSE Absent]
    BY <1>2 DEF Put
  <2>2. K \subseteq live /\ Cardinality(K) = n
    BY <2>1 DEF Kept, kSubset
  <2>3. IsFiniteSet(live) /\ IsFiniteSet(K)
    BY <2>2, StoreAssumption, FS_Subset DEF Present
  <2>4. Cardinality(live) \in Nat /\ Cardinality(K) \in Nat
    BY <2>3, FS_CardinalityType
  <2>5. n <= MaxRecords
    <3>1. \A a, b \in Nat : Min({a, b}) <= a
      BY DEF Min
    <3> QED
      BY <2>4, <3>1, StoreAssumption
  <2>6. Present(records)' \subseteq K
    BY <2>1 DEF Present, Absent
  <2>7. Cardinality(Present(records)') <= Cardinality(K)
    BY <2>3, <2>6, FS_Subset
  <2>8. Cardinality(Present(records)') \in Nat
    BY <2>3, <2>6, FS_Subset, FS_CardinalityType
  <2> QED
    BY <2>2, <2>4, <2>5, <2>7, <2>8, StoreAssumption DEF Bounded
<1>3. Bounded /\ StoreInv /\ [Next]_vars => Bounded'
  <2> SUFFICES ASSUME Bounded, StoreInv, [Next]_vars PROVE Bounded'
    OBVIOUS
  <2>1. CASE records' = records
    BY <2>1 DEF Bounded, Present
  <2>2. ASSUME NEW r \in Requests, Step(r), records' # records PROVE Bounded'
    <3>1. \E rec \in Record : rec.inserted # 0 /\ Put(r, rec)
      BY <2>2, Writes DEF Step, Succeeds, Fails, Snapshot
    <3> QED
      BY <1>2, <3>1
  <2> QED
    BY <2>1, <2>2 DEF Next, Tick, vars
<1> QED
  BY <1>1, <1>3, Invariant, PTL DEF Spec

-----------------------------------------------------------------------------
(* The timeouts noted in the last minute, as sets of pairs, and what noting *)
(* one and the passing of a tick do to their numbers.                       *)

Counts == [Ages -> 0 .. MaxBurst]

LEMMA NotedIsFinite ==
  ASSUME NEW n \in Counts, NEW A \in SUBSET Ages
  PROVE  /\ IsFiniteSet(Noted(n, A))
         /\ Cardinality(Noted(n, A)) \in 0 .. (Minute + 1) * MaxBurst
<1> DEFINE All == Ages \X (1 .. MaxBurst)
<1>1. /\ IsFiniteSet(Ages) /\ Cardinality(Ages) = Minute + 1
      /\ IsFiniteSet(1 .. MaxBurst) /\ Cardinality(1 .. MaxBurst) = MaxBurst
  BY SpikeAssumption, FS_Interval DEF Ages
<1>2. IsFiniteSet(All) /\ Cardinality(All) = (Minute + 1) * MaxBurst
  BY <1>1, FS_Product
<1>3. Noted(n, A) \in SUBSET All
  BY DEF Noted
<1> HIDE DEF All
<1>4. /\ IsFiniteSet(Noted(n, A)) /\ Cardinality(Noted(n, A)) <= Cardinality(All)
  BY <1>2, <1>3, FS_Subset
<1>5. Cardinality(Noted(n, A)) \in Nat
  BY <1>4, FS_CardinalityType
<1>6. (Minute + 1) * MaxBurst \in Nat
  BY SpikeAssumption
<1> QED
  BY <1>2, <1>4, <1>5, <1>6

LEMMA NotedGrows ==
  ASSUME NEW n \in Counts, NEW A \in SUBSET Ages, NEW B \in SUBSET A
  PROVE  Cardinality(Noted(n, B)) <= Cardinality(Noted(n, A))
<1>1. Noted(n, B) \in SUBSET Noted(n, A)
  BY DEF Noted
<1> QED
  BY <1>1, NotedIsFinite, FS_Subset

LEMMA NotedSplits ==
  ASSUME NEW n \in Counts, NEW A \in SUBSET Ages, NEW B \in SUBSET Ages, A \cap B = {}
  PROVE  Cardinality(Noted(n, A \cup B)) = Cardinality(Noted(n, A)) + Cardinality(Noted(n, B))
<1>1. Noted(n, A \cup B) = Noted(n, A) \cup Noted(n, B)
  BY DEF Noted
<1>2. Noted(n, A) \cap Noted(n, B) = {}
  BY DEF Noted
<1>3. Cardinality(Noted(n, A) \cap Noted(n, B)) = 0
  BY <1>2, FS_EmptySet
<1>4. /\ IsFiniteSet(Noted(n, A)) /\ Cardinality(Noted(n, A)) \in Nat
      /\ IsFiniteSet(Noted(n, B)) /\ Cardinality(Noted(n, B)) \in Nat
  BY NotedIsFinite
<1>5. Cardinality(Noted(n, A) \cup Noted(n, B))
        = Cardinality(Noted(n, A)) + Cardinality(Noted(n, B))
            - Cardinality(Noted(n, A) \cap Noted(n, B))
  BY <1>4, FS_Union
<1>6. ASSUME NEW x \in Nat, NEW y \in Nat, NEW z, z = 0 PROVE x + y - z = x + y
  BY <1>6
<1> QED
  BY <1>1, <1>3, <1>4, <1>5, <1>6, Zenon

LEMMA NoneNoted ==
  ASSUME NEW n \in Counts, NEW A \in SUBSET Ages, \A a \in A : n[a] = 0
  PROVE  Cardinality(Noted(n, A)) = 0
<1>1. Noted(n, A) = {}
  BY DEF Noted
<1> QED
  BY <1>1, FS_EmptySet

LEMMA NotedAgain ==
  ASSUME NEW n \in Counts, NEW A \in SUBSET Ages, 0 \in A, n[0] < MaxBurst
  PROVE  /\ [n EXCEPT ![0] = @ + 1] \in Counts
         /\ Cardinality(Noted([n EXCEPT ![0] = @ + 1], A)) = Cardinality(Noted(n, A)) + 1
<1> DEFINE m == [n EXCEPT ![0] = @ + 1]
           new == <<0, n[0] + 1>>
<1>1. /\ m \in Counts /\ m[0] = n[0] + 1 /\ \A a \in Ages \ {0} : m[a] = n[a]
      /\ n[0] \in 0 .. MaxBurst /\ n[0] + 1 \in 1 .. MaxBurst
  BY SpikeAssumption DEF Counts
<1>2. new \notin Noted(n, A)
  BY <1>1 DEF Noted
<1>3. ASSUME NEW a \in A, NEW i \in 1 .. MaxBurst
      PROVE  i <= m[a] <=> i <= n[a] \/ <<a, i>> = new
  <2>1. CASE a = 0
    BY <1>1, <2>1
  <2>2. CASE a # 0
    BY <1>1, <2>2
  <2> QED
    BY <2>1, <2>2
<1>4. Noted(m, A) = Noted(n, A) \cup {new}
  BY <1>1, <1>3 DEF Noted
<1> HIDE DEF m, new
<1>5. IsFiniteSet(Noted(n, A))
  BY NotedIsFinite
<1>6. Cardinality(Noted(m, A)) = Cardinality(Noted(n, A)) + 1
  BY <1>2, <1>4, <1>5, FS_AddElement
<1> QED
  BY <1>1, <1>6 DEF m

(* A tick later every timeout is a tick older. *)
Aged(n) == [a \in Ages |-> IF a = 0 THEN 0 ELSE n[a - 1]]

LEMMA NotedAges ==
  ASSUME NEW n \in Counts, NEW lo \in Nat, NEW hi \in Int, hi < Minute
  PROVE  /\ Aged(n) \in Counts
         /\ Cardinality(Noted(Aged(n), lo + 1 .. hi + 1)) = Cardinality(Noted(n, lo .. hi))
<1> DEFINE S == Noted(n, lo .. hi)
           T == Noted(Aged(n), lo + 1 .. hi + 1)
           older == [p \in S |-> <<p[1] + 1, p[2]>>]
<1>1. ASSUME NEW a \in Ages PROVE Aged(n)[a] = IF a = 0 THEN 0 ELSE n[a - 1]
  BY DEF Aged
<1>2. ASSUME NEW a \in Ages, a # 0 PROVE a - 1 \in Ages
  BY <1>2, SpikeAssumption DEF Ages
<1>3. Aged(n) \in Counts
  BY <1>2, SpikeAssumption DEF Aged, Counts
<1>4. ASSUME NEW p \in S PROVE <<p[1] + 1, p[2]>> \in T
  <2>1. /\ p[1] \in lo .. hi /\ p[2] \in 1 .. MaxBurst /\ p[2] <= n[p[1]]
    BY DEF Noted
  <2>2. /\ p[1] + 1 \in lo + 1 .. hi + 1 /\ p[1] + 1 \in Ages /\ p[1] + 1 # 0
        /\ (p[1] + 1) - 1 = p[1]
    BY <2>1, SpikeAssumption DEF Ages
  <2>3. Aged(n)[p[1] + 1] = n[p[1]]
    BY <1>1, <2>2
  <2> QED
    BY <2>1, <2>2, <2>3 DEF Noted
<1>5. ASSUME NEW q \in T PROVE \E p \in S : older[p] = q
  <2>1. /\ q = <<q[1], q[2]>> /\ q[1] \in lo + 1 .. hi + 1 /\ q[2] \in 1 .. MaxBurst
        /\ q[2] <= Aged(n)[q[1]]
    BY DEF Noted
  <2>2. /\ q[1] - 1 \in lo .. hi /\ q[1] \in Ages /\ q[1] # 0 /\ (q[1] - 1) + 1 = q[1]
    BY <2>1, SpikeAssumption DEF Ages
  <2>3. Aged(n)[q[1]] = n[q[1] - 1]
    BY <1>1, <2>2
  <2>4. <<q[1] - 1, q[2]>> \in S
    BY <2>1, <2>2, <2>3 DEF Noted
  <2>5. older[<<q[1] - 1, q[2]>>] = q
    BY <2>1, <2>2, <2>4
  <2> QED
    BY <2>4, <2>5
<1>6. ASSUME NEW p \in S, NEW q \in S, older[p] = older[q] PROVE p = q
  <2>1. /\ p = <<p[1], p[2]>> /\ q = <<q[1], q[2]>> /\ p[1] \in lo .. hi /\ q[1] \in lo .. hi
    BY DEF Noted
  <2>2. p[1] + 1 = q[1] + 1 /\ p[2] = q[2]
    BY <1>6
  <2>3. p[1] = q[1]
    BY <2>1, <2>2
  <2> QED
    BY <2>1, <2>2, <2>3
<1>7. older \in [S -> T]
  BY <1>4
<1>8. lo .. hi \in SUBSET Ages
  BY SpikeAssumption DEF Ages
<1> HIDE DEF older, S, T
<1>9. older \in Bijection(S, T)
  BY <1>5, <1>6, <1>7, Fun_IsBij
<1>10. ExistsBijection(S, T)
  BY <1>9 DEF ExistsBijection
<1>11. IsFiniteSet(S)
  BY <1>8, NotedIsFinite DEF S
<1>12. Cardinality(T) = Cardinality(S)
  BY <1>10, <1>11, FS_Bijection
<1> QED
  BY <1>3, <1>12 DEF S, T

-----------------------------------------------------------------------------
(* The window and the minute. *)

(* The ages before the open window, or every age when none is open. *)
Before == IF Over(opened) THEN Ages ELSE opened + 1 .. Minute

(* The window counts what was noted since it opened; what was noted before  *)
(* came from one window, so if it reached the threshold, the signal was on  *)
(* after the last of it.                                                    *)
SpikeInv ==
  /\ SpikeTypeOK
  /\ Over(opened) => recent[0] = 0
  /\ ~Over(opened) => count = Cardinality(Noted(recent, 0 .. opened))
  /\ On => quiet = 0
  /\ Cardinality(Noted(recent, Before)) >= Threshold =>
       \A a \in Before : recent[a] > 0 => quiet <= a

LEMMA NoteKeepsSpikeInv == SpikeInv /\ Note => SpikeInv'
<1> SUFFICES ASSUME SpikeInv, Note PROVE SpikeInv'
  OBVIOUS
<1> DEFINE n == recent
           m == recent'
<1>1. /\ n \in Counts /\ n[0] < MaxBurst /\ m = [n EXCEPT ![0] = @ + 1]
      /\ opened \in 0 .. Minute + 1 /\ quiet \in 0 .. Minute + 1
      /\ Minute \in Nat \ {0} /\ Threshold \in Nat \ {0} /\ 0 \in Ages
  BY SpikeAssumption DEF SpikeInv, SpikeTypeOK, Note, Counts, Ages
<1>2. m \in Counts /\ \A a \in Ages \ {0} : m[a] = n[a]
  BY <1>1, NotedAgain DEF Counts
<1> HIDE DEF n, m
<1>3. ASSUME NEW A \in SUBSET (Ages \ {0}) PROVE Noted(m, A) = Noted(n, A)
  BY <1>2 DEF Noted
<1>4. /\ opened' \in 0 .. Minute /\ ~Over(opened')
      /\ opened' = IF Over(opened) THEN 0 ELSE opened
  BY <1>1 DEF Note, Over
<1>5. count' = Cardinality(Noted(m, 0 .. opened'))
  <2>1. 0 .. opened' \in SUBSET Ages /\ 0 \in 0 .. opened'
    BY <1>1, <1>4 DEF Ages
  <2>2. Cardinality(Noted(m, 0 .. opened')) = Cardinality(Noted(n, 0 .. opened')) + 1
    BY <1>1, <2>1, NotedAgain
  <2>3. CASE Over(opened)
    <3>1. opened' = 0 /\ n[0] = 0
      BY <1>4, <2>3 DEF SpikeInv, n
    <3>2. \A a \in 0 .. opened' : n[a] = 0
      BY <3>1
    <3>3. Cardinality(Noted(n, 0 .. opened')) = 0
      BY <1>1, <2>1, <3>2, NoneNoted
    <3> QED
      BY <2>2, <2>3, <3>3 DEF Note
  <2>4. CASE ~Over(opened)
    BY <1>4, <2>2, <2>4 DEF Note, SpikeInv, n
  <2> QED
    BY <2>3, <2>4
<1>6. SpikeTypeOK'
  <2>1. 0 .. opened' \in SUBSET Ages
    BY <1>1, <1>4 DEF Ages
  <2>2. count' \in 0 .. (Minute + 1) * MaxBurst
    BY <1>2, <1>5, <2>1, NotedIsFinite
  <2>3. quiet' \in 0 .. Minute + 1
    BY <1>1 DEF Note
  <2> QED
    BY <1>1, <1>2, <1>4, <2>2, <2>3 DEF SpikeTypeOK, Counts, m
<1>7. On' => quiet' = 0
  BY DEF On, Note
<1>8. quiet' <= quiet
  BY <1>1 DEF Note
<1>9. ASSUME Cardinality(Noted(m, Before')) >= Threshold, NEW a \in Before', m[a] > 0
      PROVE  quiet' <= a
  <2>1. /\ Before' = opened' + 1 .. Minute /\ Before' \in SUBSET (Ages \ {0})
    BY <1>1, <1>4 DEF Before, Ages
  <2>2. Before' \in SUBSET Before /\ Before \in SUBSET Ages
    BY <1>1, <1>4, <2>1 DEF Before, Over, Ages
  <2>3. Noted(m, Before') = Noted(n, Before')
    BY <1>3, <2>1
  <2>4. Cardinality(Noted(n, Before')) <= Cardinality(Noted(n, Before))
    BY <1>1, <2>2, NotedGrows
  <2>5. Before' \in SUBSET Ages
    BY <2>2
  <2>6. /\ Cardinality(Noted(n, Before')) \in 0 .. (Minute + 1) * MaxBurst
        /\ Cardinality(Noted(n, Before)) \in 0 .. (Minute + 1) * MaxBurst
    BY <1>1, <2>2, <2>5, NotedIsFinite
  <2>7. Cardinality(Noted(n, Before)) >= Threshold
    BY <1>1, <1>9, <2>3, <2>4, <2>6
  <2>8. n[a] > 0 /\ a \in Before
    BY <1>2, <1>9, <2>1, <2>2
  <2>9. quiet <= a
    BY <2>7, <2>8 DEF SpikeInv, n
  <2> QED
    BY <1>1, <1>6, <1>8, <2>1, <2>9 DEF SpikeTypeOK
<1> QED
  BY <1>4, <1>5, <1>6, <1>7, <1>9 DEF SpikeInv, m

LEMMA TickKeepsSpikeInv == SpikeInv /\ SpikeTick => SpikeInv'
<1> SUFFICES ASSUME SpikeInv, SpikeTick PROVE SpikeInv'
  OBVIOUS
<1> DEFINE n == recent
<1>1. /\ n \in Counts /\ recent' = Aged(n) /\ count' = count
      /\ opened \in 0 .. Minute + 1 /\ quiet \in 0 .. Minute + 1
      /\ Minute \in Nat \ {0} /\ Threshold \in Nat \ {0} /\ 0 \in Ages
  BY SpikeAssumption DEF SpikeInv, SpikeTypeOK, SpikeTick, Counts, Ages, Aged
<1>2. Aged(n) \in Counts /\ Aged(n)[0] = 0
  <2>1. Aged(n) \in Counts
    <3>1. -1 \in Int /\ -1 < Minute /\ 0 \in Nat
      BY <1>1
    <3> QED
      BY <1>1, <3>1, NotedAges
  <2>2. Aged(n)[0] = 0
    BY <1>1 DEF Aged
  <2> QED
    BY <2>1, <2>2
<1> HIDE DEF n
<1>3. /\ opened' = IF Over(opened) THEN opened ELSE opened + 1
      /\ opened' \in 0 .. Minute + 1
  BY <1>1 DEF SpikeTick, Over
<1>4. /\ quiet' \in 0 .. Minute + 1 /\ quiet' <= quiet + 1
      /\ On' => quiet' = 0
  <2>1. CASE Active(opened', count)
    BY <1>1, <2>1 DEF SpikeTick, On
  <2>2. CASE ~Active(opened', count)
    BY <1>1, <2>2 DEF SpikeTick, On
  <2> QED
    BY <2>1, <2>2
<1>5. SpikeTypeOK'
  BY <1>1, <1>2, <1>3, <1>4 DEF SpikeTypeOK, SpikeInv, Counts
<1>6. ASSUME ~Over(opened') PROVE count' = Cardinality(Noted(Aged(n), 0 .. opened'))
  <2>1. /\ ~Over(opened) /\ opened' = opened + 1 /\ opened \in Nat /\ opened \in Int
        /\ opened < Minute /\ 0 \in Nat
    BY <1>1, <1>3, <1>6 DEF Over
  <2>2. Cardinality(Noted(Aged(n), 0 + 1 .. opened + 1)) = Cardinality(Noted(n, 0 .. opened))
    BY <1>1, <2>1, NotedAges
  <2>3. Cardinality(Noted(Aged(n), {0})) = 0
    BY <1>1, <1>2, NoneNoted
  <2>4. /\ 0 .. opened' = (1 .. opened + 1) \cup {0} /\ 1 .. opened + 1 \in SUBSET Ages
        /\ {0} \in SUBSET Ages /\ (1 .. opened + 1) \cap {0} = {}
    BY <1>1, <2>1 DEF Ages
  <2>5. Cardinality(Noted(Aged(n), 0 .. opened'))
          = Cardinality(Noted(Aged(n), 1 .. opened + 1)) + Cardinality(Noted(Aged(n), {0}))
    <3>1. Cardinality(Noted(Aged(n), (1 .. opened + 1) \cup {0}))
            = Cardinality(Noted(Aged(n), 1 .. opened + 1)) + Cardinality(Noted(Aged(n), {0}))
      BY <1>2, <2>4, NotedSplits
    <3> QED
      BY <2>4, <3>1
  <2>6. count = Cardinality(Noted(n, 0 .. opened)) /\ count \in Int
    BY <2>1 DEF SpikeInv, SpikeTypeOK, n
  <2>7. 0 + 1 = 1
    OBVIOUS
  <2> QED
    BY <1>1, <2>2, <2>3, <2>5, <2>6, <2>7
<1>7. ASSUME Cardinality(Noted(Aged(n), Before')) >= Threshold, NEW a \in Before',
             Aged(n)[a] > 0
      PROVE  quiet' <= a
  <2> DEFINE lo == IF opened >= Minute THEN 0 ELSE opened + 1
  <2>1. /\ lo \in Nat /\ Minute - 1 \in Int /\ Minute - 1 < Minute
        /\ (Minute - 1) + 1 = Minute
    BY <1>1
  <2>2. Before' = IF opened >= Minute THEN Ages ELSE lo + 1 .. Minute
    BY <1>1, <1>3 DEF Before, Over
  <2>3. Cardinality(Noted(Aged(n), Before')) = Cardinality(Noted(n, lo .. Minute - 1))
    <3>1. Cardinality(Noted(Aged(n), lo + 1 .. Minute)) = Cardinality(Noted(n, lo .. Minute - 1))
      <4> HIDE DEF lo
      <4> QED
        BY <1>1, <2>1, NotedAges
    <3>2. CASE opened >= Minute
      <4>1. /\ Before' = (lo + 1 .. Minute) \cup {0} /\ lo + 1 .. Minute \in SUBSET Ages
            /\ {0} \in SUBSET Ages /\ (lo + 1 .. Minute) \cap {0} = {}
        BY <1>1, <2>2, <3>2 DEF Ages
      <4>2. Cardinality(Noted(Aged(n), {0})) = 0
        BY <1>1, <1>2, NoneNoted
      <4>3. Cardinality(Noted(Aged(n), lo + 1 .. Minute)) \in 0 .. (Minute + 1) * MaxBurst
        BY <1>2, <4>1, NotedIsFinite
      <4> HIDE DEF lo
      <4>4. Cardinality(Noted(Aged(n), Before'))
              = Cardinality(Noted(Aged(n), lo + 1 .. Minute)) + Cardinality(Noted(Aged(n), {0}))
        BY <1>2, <4>1, NotedSplits
      <4> QED
        BY <3>1, <4>2, <4>3, <4>4
    <3>3. CASE ~(opened >= Minute)
      BY <2>2, <3>1, <3>3
    <3> QED
      BY <3>2, <3>3
  <2>4. a # 0 /\ a \in Ages /\ a - 1 \in lo .. Minute - 1 /\ Aged(n)[a] = n[a - 1]
    <3>1. a \in Ages
      BY <1>1, <1>7, <2>2 DEF Ages
    <3>2. a # 0
      BY <1>2, <1>7
    <3> QED
      BY <1>1, <1>7, <2>2, <3>1, <3>2 DEF Ages, Aged
  <2>5. CASE opened = Minute
    <3>1. ~Over(opened) /\ lo = 0
      BY <1>1, <2>5 DEF Over
    <3>2. count = Cardinality(Noted(n, 0 .. opened))
      BY <3>1 DEF SpikeInv, n
    <3>3. 0 .. opened \in SUBSET Ages /\ 0 .. Minute - 1 \in SUBSET (0 .. opened)
          /\ 0 .. Minute - 1 \in SUBSET Ages
      BY <1>1, <2>5 DEF Ages
    <3>4. Cardinality(Noted(n, 0 .. Minute - 1)) <= Cardinality(Noted(n, 0 .. opened))
      BY <1>1, <3>3, NotedGrows
    <3>5. /\ Cardinality(Noted(n, 0 .. Minute - 1)) \in 0 .. (Minute + 1) * MaxBurst
          /\ Cardinality(Noted(n, 0 .. opened)) \in 0 .. (Minute + 1) * MaxBurst
      BY <1>1, <3>3, NotedIsFinite
    <3>6. Cardinality(Noted(n, 0 .. Minute - 1)) >= Threshold
      BY <1>7, <2>3, <3>1
    <3>7. count >= Threshold
      BY <1>1, <3>2, <3>4, <3>5, <3>6
    <3>8. quiet = 0
      BY <3>1, <3>7 DEF SpikeInv, On, Active
    <3> QED
      BY <1>1, <1>4, <2>4, <3>8 DEF Ages
  <2>6. CASE opened # Minute
    <3>1. lo .. Minute - 1 \in SUBSET Before /\ Before \in SUBSET Ages
      BY <1>1, <2>6 DEF Before, Over, Ages
    <3>2. lo .. Minute - 1 \in SUBSET Ages
      BY <3>1
    <3> HIDE DEF lo
    <3>3. Cardinality(Noted(n, lo .. Minute - 1)) <= Cardinality(Noted(n, Before))
      BY <1>1, <3>1, NotedGrows
    <3>4. /\ Cardinality(Noted(n, lo .. Minute - 1)) \in 0 .. (Minute + 1) * MaxBurst
          /\ Cardinality(Noted(n, Before)) \in 0 .. (Minute + 1) * MaxBurst
      BY <1>1, <3>1, <3>2, NotedIsFinite
    <3>5. Cardinality(Noted(n, Before)) >= Threshold
      BY <1>1, <1>7, <2>3, <3>3, <3>4
    <3>6. a - 1 \in Before /\ n[a - 1] > 0
      BY <1>7, <2>4, <3>1
    <3>7. quiet <= a - 1
      BY <3>5, <3>6 DEF SpikeInv, n
    <3> QED
      BY <1>1, <1>4, <2>4, <3>7 DEF Ages
  <2> QED
    BY <2>5, <2>6
<1> QED
  BY <1>1, <1>2, <1>4, <1>5, <1>6, <1>7 DEF SpikeInv

LEMMA SpikeInvariant == SpikeSpec => []SpikeInv
<1>1. SpikeInit => SpikeInv
  <2> SUFFICES ASSUME SpikeInit PROVE SpikeInv
    OBVIOUS
  <2>1. /\ recent \in Counts /\ \A a \in Ages : recent[a] = 0
        /\ Minute \in Nat \ {0} /\ MaxBurst \in Nat \ {0} /\ 0 \in Ages
    BY SpikeAssumption DEF SpikeInit, Counts, Ages
  <2>2. (Minute + 1) * MaxBurst \in Nat
    BY <2>1
  <2>3. SpikeTypeOK
    BY <2>1, <2>2 DEF SpikeInit, SpikeTypeOK, Counts
  <2>4. Over(opened) /\ Before = Ages
    BY <2>1 DEF SpikeInit, Over, Before
  <2> QED
    BY <2>1, <2>3, <2>4 DEF SpikeInv, On, Active
<1>2. SpikeInv /\ [SpikeNext]_spikeVars => SpikeInv'
  <2>1. SpikeInv /\ UNCHANGED spikeVars => SpikeInv'
    BY DEF SpikeInv, SpikeTypeOK, spikeVars, On, Before
  <2> QED
    BY <2>1, NoteKeepsSpikeInv, TickKeepsSpikeInv DEF SpikeNext
<1> QED
  BY <1>1, <1>2, PTL DEF SpikeSpec

(* SignalMatchesMinute: a signal that is on has its threshold of timeouts   *)
(* in the last minute, and a minute with twice the threshold less one has   *)
(* seen the signal, whatever the window did to the burst.                   *)
THEOREM SignalFollowsMinute == SpikeSpec => []SignalMatchesMinute
<1>1. ASSUME SpikeInv PROVE SignalMatchesMinute
  <2> DEFINE n == recent
             inWindow == Cardinality(Noted(n, 0 .. opened))
             old == Cardinality(Noted(n, Before))
  <2>1. /\ n \in Counts /\ opened \in 0 .. Minute + 1 /\ quiet \in 0 .. Minute + 1
        /\ Minute \in Nat \ {0} /\ Threshold \in Nat \ {0} /\ count \in Nat
    BY <1>1, SpikeAssumption DEF SpikeInv, SpikeTypeOK, Counts
  <2>2. Before \in SUBSET Ages
    BY <2>1 DEF Before, Ages
  <2>3. old \in Nat /\ Rolling \in Nat
    BY <2>1, <2>2, NotedIsFinite DEF Rolling
  <2>4. ASSUME quiet > Minute PROVE old < Threshold
    <3>1. CASE \E a \in Before : n[a] > 0
      <4>1. PICK a \in Before : n[a] > 0
        BY <3>1
      <4>2. ~(quiet <= a)
        BY <2>1, <2>2, <2>4, <4>1 DEF Ages
      <4> QED
        BY <1>1, <2>1, <2>3, <4>1, <4>2 DEF SpikeInv
    <3>2. CASE \A a \in Before : ~(n[a] > 0)
      <4>1. \A a \in Before : n[a] = 0
        BY <2>1, <2>2, <3>2 DEF Counts
      <4>2. old = 0
        BY <2>1, <2>2, <4>1, NoneNoted
      <4> QED
        BY <2>1, <4>2
    <3> QED
      BY <3>1, <3>2
  <2>5. CASE Over(opened)
    <3>1. Rolling = old /\ ~On
      BY <2>5 DEF Rolling, Before, On, Active
    <3> QED
      BY <2>1, <2>3, <2>4, <3>1 DEF SignalMatchesMinute
  <2>6. CASE ~Over(opened)
    <3>1. /\ 0 .. opened \in SUBSET Ages /\ (0 .. opened) \cup Before = Ages
          /\ (0 .. opened) \cap Before = {}
      BY <2>1, <2>6 DEF Over, Before, Ages
    <3>2. count = inWindow
      BY <1>1, <2>6 DEF SpikeInv
    <3>3. Rolling = inWindow + old
      BY <2>1, <2>2, <3>1, NotedSplits DEF Rolling
    <3> HIDE DEF inWindow, old
    <3>4. On <=> count >= Threshold
      BY <2>6 DEF On, Active
    <3>5. On => quiet = 0
      BY <1>1 DEF SpikeInv
    <3> QED
      BY <2>1, <2>3, <2>4, <3>2, <3>3, <3>4, <3>5 DEF SignalMatchesMinute
  <2> QED
    BY <2>5, <2>6
<1>2. SpikeInv => SignalMatchesMinute
  BY <1>1
<1> QED
  BY <1>2, SpikeInvariant, PTL
=============================================================================
