------------------------- MODULE BackendCalls_proofs -------------------------
(***************************************************************************)
(* Proofs about the calls of backends, for chains of any length, bodies of *)
(* any length and every order of the server's and the gateway's steps.     *)
(***************************************************************************)
EXTENDS BackendCalls, TLAPS

TypeOK ==
  /\ chain \in Seq(Families)
  /\ stream \in BOOLEAN /\ keepFlag \in BOOLEAN
  /\ at \in 1 .. Len(chain)
  /\ pc \in {"dial", "wait", "json", "read", "failed", "answered", "gaveUp"}
  /\ ctx \in {"live", "canceled"} \cup Deadlines
  /\ body \in {"none", "json", "sse"}
  /\ end \in {"open", "marked", "closed", "broken"}
  /\ sawData \in BOOLEAN

(* What the server sent is numbered in order; the text has what was not     *)
(* spoilt of it, in that order.                                             *)
TextInv ==
  /\ sent \in Seq(Nat) /\ text \in Seq(Nat)
  /\ \A k \in DOMAIN sent : sent[k] = k
  /\ spoilt \subseteq 1 .. Len(sent)
  /\ \A i, j \in DOMAIN text : i < j => text[i] < text[j]
  /\ \A n \in Nat : n \in 1 .. Len(sent) /\ n \notin spoilt
                      <=> \E i \in DOMAIN text : text[i] = n

(* How far the call has come. *)
CallInv ==
  /\ pc \in {"dial", "wait"} => body = "none"
  /\ pc \in {"dial", "wait", "json"} => sent = <<>> /\ spoilt = {} /\ end = "open"
  /\ pc = "json" => body = "json"
  /\ pc = "read" => Asked /\ body # "none"
  /\ pc \in {"json", "read"} => Family # "mock"
  /\ pc \in {"wait", "json"} => ~(Family = "bedrock" /\ Asked)
  /\ sawData => body = "sse"
  /\ pc = "answered" =>
       /\ end \in {"marked", "closed"}
       /\ answer.streamed => Asked
       /\ answer.degraded <=> body = "json" /\ Asked

IInv == TypeOK /\ TextInv /\ CallInv /\ ErrorsAsAssumed
-----------------------------------------------------------------------------
(* Every call is one of an adapter family. *)
LEMMA FamilyIsOne ==
  ASSUME TypeOK
  PROVE  Family \in Families
BY DEF TypeOK, Family

(* Every step of a call keeps the types. *)
LEMMA TypesStep ==
  ASSUME TypeOK, [Next]_vars
  PROVE  TypeOK'
<1> USE DEF TypeOK, inputs, wire, reader, Fail, Answer, Reading
<1>1. CASE ContextEnds
  BY <1>1 DEF ContextEnds
<1>2. CASE RefuseStream
  BY <1>2 DEF RefuseStream
<1>3. CASE Dial
  BY <1>3 DEF Dial
<1>4. CASE MockAnswers
  BY <1>4 DEF MockAnswers
<1>5. CASE CallCutOff
  BY <1>5 DEF CallCutOff
<1>6. CASE Unreachable
  BY <1>6 DEF Unreachable
<1>7. CASE StatusError
  BY <1>7 DEF StatusError
<1>8. CASE ResponseBegins
  BY <1>8 DEF ResponseBegins
<1>9. CASE Decoded
  BY <1>9 DEF Decoded
<1>10. CASE Undecodable
  BY <1>10 DEF Undecodable
<1>11. CASE PieceArrives
  BY <1>11 DEF PieceArrives
<1>12. CASE PieceSpoilt
  BY <1>12 DEF PieceSpoilt
<1>13. CASE OtherData
  BY <1>13 DEF OtherData
<1>14. CASE DoneMark
  BY <1>14 DEF DoneMark
<1>15. CASE BodyCloses
  BY <1>15 DEF BodyCloses
<1>16. CASE BodyBreaks
  BY <1>16 DEF BodyBreaks
<1>17. CASE StreamFails
  BY <1>17 DEF StreamFails
<1>18. CASE StreamEnds
  BY <1>18 DEF StreamEnds
<1>19. CASE NextCandidate
  <2>1. Len(chain) \in Nat /\ chain' = chain /\ at < Len(chain) /\ at' = at + 1
    BY <1>19 DEF NextCandidate
  <2>2. at' \in 1 .. Len(chain')
    BY <2>1
  <2> QED
    BY <1>19, <2>1, <2>2 DEF NextCandidate
<1>20. CASE GiveUp
  BY <1>20 DEF GiveUp
<1>21. CASE UNCHANGED vars
  BY <1>21 DEF vars, inputs, wire, reader
<1> QED
  BY <1>1, <1>2, <1>3, <1>4, <1>5, <1>6, <1>7, <1>8, <1>9, <1>10, <1>11, <1>12, <1>13, <1>14,
      <1>15, <1>16, <1>17, <1>18, <1>19, <1>20, <1>21
  DEF Next, Gateway, Server, BreakOnEnd, DecodeOnEnd

(* The text follows what the server sent. *)
LEMMA TextStep ==
  ASSUME TypeOK, TextInv, CallInv, [Next]_vars
  PROVE  TextInv'
<1> USE DEF inputs, wire, reader, Fail, Answer, Reading
<1>1. CASE ContextEnds
  BY <1>1 DEF ContextEnds, TextInv
<1>2. CASE RefuseStream
  BY <1>2 DEF RefuseStream, TextInv
<1>3. CASE Dial
  BY <1>3 DEF Dial, TextInv
<1>4. CASE MockAnswers
  <2>1. sent' = <<1>> /\ text' = <<1>> /\ spoilt' = {}
    BY <1>4 DEF MockAnswers, CallInv
  <2> QED
    BY <2>1 DEF TextInv
<1>5. CASE CallCutOff
  BY <1>5 DEF CallCutOff, TextInv
<1>6. CASE Unreachable
  BY <1>6 DEF Unreachable, TextInv
<1>7. CASE StatusError
  BY <1>7 DEF StatusError, TextInv
<1>8. CASE ResponseBegins
  BY <1>8 DEF ResponseBegins, TextInv
<1>9. CASE Decoded
  <2>1. PICK n \in {0, 1} : sent' = [k \in 1 .. n |-> k] /\ text' = sent'
    BY <1>9 DEF Decoded
  <2>2. spoilt' = {}
    BY <1>9 DEF Decoded, CallInv
  <2>3. sent' \in Seq(Nat) /\ DOMAIN sent' = 1 .. n /\ Len(sent') = n
    BY <2>1
  <2> QED
    BY <2>1, <2>2, <2>3 DEF TextInv
<1>10. CASE Undecodable
  BY <1>10 DEF Undecodable, TextInv
<1>11. CASE PieceArrives
  <2>1. /\ sent' = Append(sent, Len(sent) + 1) /\ text' = Append(text, Len(sent) + 1)
        /\ spoilt' = spoilt
    BY <1>11 DEF PieceArrives
  <2>2. Len(sent) \in Nat /\ Len(text) \in Nat /\ DOMAIN text = 1 .. Len(text)
        /\ DOMAIN sent = 1 .. Len(sent)
    BY DEF TextInv
  <2>3. /\ sent' \in Seq(Nat) /\ Len(sent') = Len(sent) + 1
        /\ text' \in Seq(Nat) /\ Len(text') = Len(text) + 1
    BY <2>1, <2>2 DEF TextInv
  <2>4. /\ \A k \in DOMAIN sent : sent'[k] = k
        /\ sent'[Len(sent) + 1] = Len(sent) + 1
        /\ \A k \in DOMAIN text : text'[k] = text[k]
        /\ text'[Len(text) + 1] = Len(sent) + 1
    BY <2>1, <2>2 DEF TextInv
  <2>5. \A k \in DOMAIN text : text[k] \in 1 .. Len(sent) /\ text[k] \notin spoilt
    BY <2>2 DEF TextInv
  <2>6. DOMAIN text' = DOMAIN text \cup {Len(text) + 1}
        /\ DOMAIN sent' = DOMAIN sent \cup {Len(sent) + 1}
    BY <2>2, <2>3
  <2>7. \A i, j \in DOMAIN text' : i < j => text'[i] < text'[j]
    BY <2>2, <2>4, <2>5, <2>6 DEF TextInv
  <2>8. \A n \in Nat : n \in 1 .. Len(sent') /\ n \notin spoilt'
                          <=> \E i \in DOMAIN text' : text'[i] = n
    <3>1. \A n \in Nat : n \in 1 .. Len(sent') <=> n \in 1 .. Len(sent) \/ n = Len(sent) + 1
      BY <2>2, <2>3
    <3>2. Len(sent) + 1 \notin spoilt
      BY <2>2 DEF TextInv
    <3> QED
      BY <2>1, <2>4, <2>6, <3>1, <3>2 DEF TextInv
  <2>9. \A k \in DOMAIN sent' : sent'[k] = k
    BY <2>4, <2>6
  <2>10. spoilt' \subseteq 1 .. Len(sent')
    BY <2>1, <2>2, <2>3 DEF TextInv
  <2> QED
    BY <2>3, <2>7, <2>8, <2>9, <2>10 DEF TextInv
<1>12. CASE PieceSpoilt
  <2>1. /\ sent' = Append(sent, Len(sent) + 1) /\ text' = text
        /\ spoilt' = spoilt \cup {Len(sent) + 1}
    BY <1>12 DEF PieceSpoilt
  <2>2. Len(sent) \in Nat /\ DOMAIN sent = 1 .. Len(sent)
    BY DEF TextInv
  <2>3. sent' \in Seq(Nat) /\ Len(sent') = Len(sent) + 1
    BY <2>1, <2>2 DEF TextInv
  <2>4. \A k \in DOMAIN sent' : sent'[k] = k
    BY <2>1, <2>2, <2>3 DEF TextInv
  <2>5. \A n \in Nat : n \in 1 .. Len(sent') /\ n \notin spoilt'
                          <=> n \in 1 .. Len(sent) /\ n \notin spoilt
    BY <2>1, <2>2, <2>3 DEF TextInv
  <2>6. spoilt' \subseteq 1 .. Len(sent')
    <3>1. 1 .. Len(sent') = (1 .. Len(sent)) \cup {Len(sent) + 1}
      BY <2>2, <2>3
    <3> QED
      BY <2>1, <3>1 DEF TextInv
  <2> QED
    BY <2>1, <2>3, <2>4, <2>5, <2>6 DEF TextInv
<1>13. CASE OtherData
  BY <1>13 DEF OtherData, TextInv
<1>14. CASE DoneMark
  BY <1>14 DEF DoneMark, TextInv
<1>15. CASE BodyCloses
  BY <1>15 DEF BodyCloses, TextInv
<1>16. CASE BodyBreaks
  BY <1>16 DEF BodyBreaks, TextInv
<1>17. CASE StreamFails
  BY <1>17 DEF StreamFails, TextInv
<1>18. CASE StreamEnds
  BY <1>18 DEF StreamEnds, TextInv
<1>19. CASE NextCandidate
  BY <1>19 DEF NextCandidate, TextInv
<1>20. CASE GiveUp
  BY <1>20 DEF GiveUp, TextInv
<1>21. CASE UNCHANGED vars
  BY <1>21 DEF vars, inputs, wire, reader, TextInv
<1> QED
  BY <1>1, <1>2, <1>3, <1>4, <1>5, <1>6, <1>7, <1>8, <1>9, <1>10, <1>11, <1>12, <1>13, <1>14,
      <1>15, <1>16, <1>17, <1>18, <1>19, <1>20, <1>21
  DEF Next, Gateway, Server, BreakOnEnd, DecodeOnEnd

(* The call goes on in order. *)
LEMMA CallStep ==
  ASSUME TypeOK, CallInv, [Next]_vars
  PROVE  CallInv'
<1> USE DEF inputs, wire, reader, Fail, Answer, Reading
<1>1. CASE ContextEnds
  BY <1>1 DEF ContextEnds, CallInv, Asked, Family, TypeOK
<1>2. CASE RefuseStream
  BY <1>2 DEF RefuseStream, CallInv, Asked, Family, TypeOK
<1>3. CASE Dial
  BY <1>3 DEF Dial, CallInv, Asked, Family, TypeOK
<1>4. CASE MockAnswers
  BY <1>4 DEF MockAnswers, CallInv, Asked, Family, TypeOK, NoAnswer
<1>5. CASE CallCutOff
  BY <1>5 DEF CallCutOff, CallInv, Asked, Family, TypeOK
<1>6. CASE Unreachable
  BY <1>6 DEF Unreachable, CallInv, Asked, Family, TypeOK
<1>7. CASE StatusError
  BY <1>7 DEF StatusError, CallInv, Asked, Family, TypeOK
<1>8. CASE ResponseBegins
  BY <1>8 DEF ResponseBegins, CallInv, Asked, Family, TypeOK
<1>9. CASE Decoded
  BY <1>9 DEF Decoded, CallInv, Asked, Family, TypeOK
<1>10. CASE Undecodable
  BY <1>10 DEF Undecodable, CallInv, Asked, Family, TypeOK
<1>11. CASE PieceArrives
  BY <1>11 DEF PieceArrives, CallInv, Asked, Family, TypeOK
<1>12. CASE PieceSpoilt
  BY <1>12 DEF PieceSpoilt, CallInv, Asked, Family, TypeOK
<1>13. CASE OtherData
  BY <1>13 DEF OtherData, CallInv, Asked, Family, TypeOK
<1>14. CASE DoneMark
  BY <1>14 DEF DoneMark, CallInv, Asked, Family, TypeOK
<1>15. CASE BodyCloses
  BY <1>15 DEF BodyCloses, CallInv, Asked, Family, TypeOK
<1>16. CASE BodyBreaks
  BY <1>16 DEF BodyBreaks, CallInv, Asked, Family, TypeOK
<1>17. CASE StreamFails
  BY <1>17 DEF StreamFails, CallInv, Asked, Family, TypeOK
<1>18. CASE StreamEnds
  BY <1>18 DEF StreamEnds, CallInv, Asked, Family, TypeOK
<1>19. CASE NextCandidate
  BY <1>19 DEF NextCandidate, CallInv, Asked, Family, TypeOK
<1>20. CASE GiveUp
  BY <1>20 DEF GiveUp, CallInv, Asked, Family, TypeOK
<1>21. CASE UNCHANGED vars
  BY <1>21 DEF vars, inputs, wire, reader, CallInv, Asked, Family, TypeOK
<1> QED
  BY <1>1, <1>2, <1>3, <1>4, <1>5, <1>6, <1>7, <1>8, <1>9, <1>10, <1>11, <1>12, <1>13, <1>14,
      <1>15, <1>16, <1>17, <1>18, <1>19, <1>20, <1>21
  DEF Next, Gateway, Server, BreakOnEnd, DecodeOnEnd

(* The class of an error is the family's. *)
LEMMA ErrorStep ==
  ASSUME TypeOK, CallInv, ErrorsAsAssumed, [Next]_vars
  PROVE  ErrorsAsAssumed'
<1> USE FamilyIsOne DEF inputs, wire, reader, Fail, Answer, Reading
<1>1. CASE ContextEnds
  BY <1>1 DEF ContextEnds, ErrorsAsAssumed, CallInv, Family, Families, Http, Deadlines
<1>2. CASE RefuseStream
  BY <1>2 DEF RefuseStream, ErrorsAsAssumed, CallInv, Family, Families, Http, Deadlines
<1>3. CASE Dial
  BY <1>3 DEF Dial, ErrorsAsAssumed, CallInv, Family, Families, Http, Deadlines
<1>4. CASE MockAnswers
  BY <1>4 DEF MockAnswers, ErrorsAsAssumed, CallInv, Family, Families, Http, Deadlines
<1>5. CASE CallCutOff
  BY <1>5 DEF CallCutOff, ErrorOf, TypeOK, ErrorsAsAssumed, CallInv, Family, Families, Http,
      Deadlines
<1>6. CASE Unreachable
  BY <1>6 DEF Unreachable, DialErrors, ErrorsAsAssumed, CallInv, Family, Families, Http,
      Deadlines
<1>7. CASE StatusError
  BY <1>7 DEF StatusError, ErrorsAsAssumed, CallInv, Family, Families, Http, Deadlines
<1>8. CASE ResponseBegins
  BY <1>8 DEF ResponseBegins, ErrorsAsAssumed, CallInv, Family, Families, Http, Deadlines
<1>9. CASE Decoded
  BY <1>9 DEF Decoded, ErrorsAsAssumed, CallInv, Family, Families, Http, Deadlines
<1>10. CASE Undecodable
  BY <1>10 DEF Undecodable, ErrorsAsAssumed, CallInv, Family, Families, Http, Deadlines
<1>11. CASE PieceArrives
  BY <1>11 DEF PieceArrives, ErrorsAsAssumed, CallInv, Family, Families, Http, Deadlines
<1>12. CASE PieceSpoilt
  BY <1>12 DEF PieceSpoilt, ErrorsAsAssumed, CallInv, Family, Families, Http, Deadlines
<1>13. CASE OtherData
  BY <1>13 DEF OtherData, ErrorsAsAssumed, CallInv, Family, Families, Http, Deadlines
<1>14. CASE DoneMark
  BY <1>14 DEF DoneMark, ErrorsAsAssumed, CallInv, Family, Families, Http, Deadlines
<1>15. CASE BodyCloses
  BY <1>15 DEF BodyCloses, ErrorsAsAssumed, CallInv, Family, Families, Http, Deadlines
<1>16. CASE BodyBreaks
  BY <1>16 DEF BodyBreaks, ErrorsAsAssumed, CallInv, Family, Families, Http, Deadlines
<1>17. CASE StreamFails
  BY <1>17 DEF StreamFails, ErrorsAsAssumed, CallInv, Family, Families, Http, Deadlines
<1>18. CASE StreamEnds
  BY <1>18 DEF StreamEnds, ErrorsAsAssumed, CallInv, Family, Families, Http, Deadlines
<1>19. CASE NextCandidate
  BY <1>19 DEF NextCandidate, ErrorsAsAssumed, CallInv, Family, Families, Http, Deadlines
<1>20. CASE GiveUp
  BY <1>20 DEF GiveUp, ErrorsAsAssumed, CallInv, Family, Families, Http, Deadlines
<1>21. CASE UNCHANGED vars
  BY <1>21 DEF vars, inputs, wire, reader, ErrorsAsAssumed, CallInv, Family, Families, Http,
      Deadlines
<1> QED
  BY <1>1, <1>2, <1>3, <1>4, <1>5, <1>6, <1>7, <1>8, <1>9, <1>10, <1>11, <1>12, <1>13, <1>14,
      <1>15, <1>16, <1>17, <1>18, <1>19, <1>20, <1>21
  DEF Next, Gateway, Server, BreakOnEnd, DecodeOnEnd

(* The initial state satisfies the invariant and every step keeps it. *)
LEMMA Invariant == Spec => []IInv
<1>1. Init => IInv
  <2> SUFFICES ASSUME Init PROVE IInv
    OBVIOUS
  <2>1. chain \in Seq(Families) /\ Len(chain) \in Nat \ {0}
    BY CallsAssumption DEF Init
  <2>2. TypeOK
    <3>1. 1 \in 1 .. Len(chain)
      BY <2>1
    <3> QED
      BY <2>1, <3>1 DEF Init, TypeOK
  <2>3. TextInv /\ CallInv /\ ErrorsAsAssumed
    BY DEF Init, TextInv, CallInv, ErrorsAsAssumed
  <2> QED
    BY <2>2, <2>3 DEF IInv
<1>2. IInv /\ [Next]_vars => IInv'
  BY TypesStep, TextStep, CallStep, ErrorStep DEF IInv
<1> QED
  BY <1>1, <1>2, PTL DEF Spec

-----------------------------------------------------------------------------
(* The text of an answer is that of one body, whole and in order: what      *)
(* invokeStream had read of a candidate that failed is dropped with it.     *)
THEOREM AnswerIsWhole == Spec => []WholeAnswer
<1>1. IInv => WholeAnswer
  <2> SUFFICES ASSUME IInv, Answered PROVE WholeAnswer
    BY DEF WholeAnswer
  <2>1. DOMAIN sent = 1 .. Len(sent) /\ \A i \in DOMAIN text : text[i] \in Nat
    BY DEF IInv, TextInv
  <2>2. Texts(sent) = 1 .. Len(sent)
    BY <2>1 DEF IInv, TextInv, Texts
  <2>3. Texts(text) = Texts(sent) \ spoilt
    BY <2>1, <2>2 DEF IInv, TextInv, Texts
  <2> QED
    BY <2>3 DEF IInv, TextInv, CallInv, Answered, WholeAnswer
<1> QED
  BY <1>1, Invariant, PTL

(* cloneAINonStream and the JSON branch of invokeStream: what an answer     *)
(* says of streaming is what the client asked for and the backend did.      *)
THEOREM StreamFlagIsHonoured == Spec => []StreamFlagHonoured
<1>1. IInv => StreamFlagHonoured
  BY DEF IInv, TypeOK, CallInv, Asked, Answered, StreamFlagHonoured
<1> QED
  BY <1>1, Invariant, PTL

(* The classes of errors that Infer's handling of failures relies on are    *)
(* those the adapters report, in every interleaving of deadline and body.   *)
THEOREM ErrorsAreAsAssumed == Spec => []ErrorsAsAssumed
<1>1. IInv => ErrorsAsAssumed
  BY DEF IInv
<1> QED
  BY <1>1, Invariant, PTL
=============================================================================
