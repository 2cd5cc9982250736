---------------------------- MODULE BackendCalls ----------------------------
(***************************************************************************)
(* The calls of backends at the grain of what the wire carries: Invoke of  *)
(* the adapters in internal/adapters (vllm for every OpenAI-compatible     *)
(* server, anthropic, gemini, bedrock, mock), and the stream flag that     *)
(* ExecuteWithFallbackOpts of internal/reliability/manager.go gives each   *)
(* call of a fallback chain.  Whether a failure moves on to the next       *)
(* candidate is InferPipeline's subject and a choice here; the error       *)
(* classes InferPipeline takes from an adapter are established here.       *)
(*                                                                         *)
(* A body is a sequence of events: a piece of text, a data line without    *)
(* text or not JSON, OpenAI's [DONE], the end, or a break.  Blank lines    *)
(* and comments change nothing and are left out.                           *)
(***************************************************************************)
EXTENDS Naturals, Sequences

CONSTANTS
  Chains,    \* the fallback chains: sequences of adapter families
  MaxPieces  \* bound on the pieces of text of one body

Families == {"openai", "anthropic", "gemini", "bedrock", "mock"}

ASSUME CallsAssumption ==
  /\ Chains \subseteq Seq(Families) \ {<<>>}
  /\ MaxPieces \in Nat

VARIABLES
  chain,     \* the adapter family of each candidate
  stream,    \* the client's options.stream
  keepFlag,  \* reliability.stream_fallback_enabled
  at,        \* the candidate being called
  pc,        \* "dial", "wait", "json", "read", "failed", "answered", "gaveUp"
  ctx,       \* the call's context: "live", "timed_out" (the backend's
             \* timeout_ms), "over_budget" (the request's) or "canceled"
  body,      \* what the server answers with: "none", "json" or "sse"
  sent,      \* pieces the server of this call has sent, in order
  spoilt,    \* those that came in a line that does not parse
  sawData,   \* sawData of invokeStream
  text,      \* the string builder of invokeStream, or the decoded text
  end,       \* how the body ended: "open", "marked", "closed", "broken"
  err,       \* the class of the error the call reports
  answer     \* what the chain returns: whether streamed, whether degraded

inputs == <<chain, stream, keepFlag>>
wire == <<body, sent, spoilt, end>>
reader == <<sawData, text>>
vars == <<inputs, at, pc, ctx, wire, reader, err, answer>>

NoAnswer == [streamed |-> FALSE, degraded |-> FALSE]

Init ==
  /\ chain \in Chains
  /\ stream \in BOOLEAN
  /\ keepFlag \in BOOLEAN
  /\ at = 1
  /\ pc = "dial"
  /\ ctx = "live"
  /\ body = "none" /\ sent = <<>> /\ spoilt = {} /\ end = "open"
  /\ sawData = FALSE /\ text = <<>>
  /\ err = "none"
  /\ answer = NoAnswer

-----------------------------------------------------------------------------
(* The call in progress. *)

Family == chain[at]
Http == Family \in {"openai", "anthropic", "gemini"}

(* cloneAINonStream: after the first candidate the flag is kept only if     *)
(* configured.                                                              *)
AskedAlways == stream
Asked == stream /\ (at = 1 \/ keepFlag)

Deadlines == {"timed_out", "over_budget"}

(* What an adapter makes of a call that ends before there is a response:    *)
(* the HTTP adapters ask for context.DeadlineExceeded, mock hands it on.    *)
ErrorOfAny(c) ==
  CASE Family = "bedrock" -> "backend_error"
    [] Family = "mock" -> "raw_deadline"
    [] Http -> "timeout"
ErrorOf(c) ==
  CASE Family = "bedrock" \/ c = "canceled" -> "backend_error"
    [] Family = "mock" /\ c \in Deadlines -> "raw_deadline"
    [] Http /\ c \in Deadlines -> "timeout"

Fail(class) == pc' = "failed" /\ err' = class

(* invokeNonStream and the JSON branch of invokeStream never set Streamed;  *)
(* only that branch sets stream_degraded.                                   *)
Answer ==
  /\ pc' = "answered"
  /\ answer' = [streamed |-> pc = "read", degraded |-> pc = "json" /\ Asked]

-----------------------------------------------------------------------------
(* The context of a call ends: its backend's timeout_ms, which is also the  *)
(* http.Client's Timeout, the request's budget, or the client going away.   *)
ContextEndsBeforeBody ==
  /\ pc \in {"dial", "wait"} /\ ctx = "live"
  /\ ctx' \in Deadlines \cup {"canceled"}
  /\ UNCHANGED <<inputs, at, pc, wire, reader, err, answer>>
ContextEnds ==
  /\ pc \in {"dial", "wait", "json", "read"} /\ ctx = "live"
  /\ ctx' \in Deadlines \cup {"canceled"}
  /\ UNCHANGED <<inputs, at, pc, wire, reader, err, answer>>

(* Invoke begins.  bedrock refuses to stream; mock answers by itself, or    *)
(* returns ctx.Err(); the others send a request.                            *)
RefuseStream ==
  /\ pc = "dial" /\ Family = "bedrock" /\ Asked
  /\ Fail("backend_error")
  /\ UNCHANGED <<inputs, at, ctx, wire, reader, answer>>

Dial ==
  /\ pc = "dial" /\ ~(Family = "bedrock" /\ Asked)
  /\ pc' = "wait"
  /\ UNCHANGED <<inputs, at, ctx, wire, reader, err, answer>>

MockAnswers ==
  /\ pc = "wait" /\ Family = "mock"
  /\ sent' = <<1>> /\ text' = <<1>>
  /\ end' = "closed"
  /\ pc' = "answered"
  /\ answer' = NoAnswer
  /\ UNCHANGED <<inputs, at, ctx, body, spoilt, sawData, err>>

(* httpClient.Do, Converse or the mock's select returns because the context *)
(* has ended.                                                               *)
CallCutOff ==
  /\ pc = "wait" /\ ctx # "live"
  /\ Fail(ErrorOf(ctx))
  /\ UNCHANGED <<inputs, at, ctx, wire, reader, answer>>

(* The connection fails: an error of no class, which classifyError takes    *)
(* for backend_error.  One that net.Dialer gave up by a time limit of its   *)
(* own (30 s, or an address's share of the time left) is a DeadlineExceeded *)
(* to errors.Is, so the HTTP adapters say timeout while the context runs.   *)
DialErrors ==
  {"backend_error"} \cup (IF Http /\ ctx = "live" THEN {"timeout"} ELSE {})

Unreachable ==
  /\ pc = "wait" /\ Family # "mock"
  /\ \E class \in DialErrors : Fail(class)
  /\ UNCHANGED <<inputs, at, ctx, wire, reader, answer>>

StatusError ==
  /\ pc = "wait" /\ Http
  /\ \E class \in {"upstream_4xx", "upstream_5xx"} : Fail(class)
  /\ UNCHANGED <<inputs, at, ctx, wire, reader, answer>>

(* A response begins.  A server may ignore the stream flag and send JSON;   *)
(* anthropic does not look at the content type and reads it as a stream.    *)
ResponseBegins ==
  /\ pc = "wait" /\ Family # "mock"
  /\ \E kind \in {"json"} \cup (IF Asked THEN {"sse"} ELSE {}) :
       /\ body' = kind
       /\ pc' = IF Asked /\ (kind = "sse" \/ Family = "anthropic") THEN "read" ELSE "json"
  /\ UNCHANGED <<inputs, at, ctx, sent, spoilt, end, reader, err, answer>>

(* The one JSON body is decoded: some text, or none. *)
Decoded ==
  /\ pc = "json"
  /\ \E n \in {0, 1} : sent' = [k \in 1 .. n |-> k] /\ text' = sent'
  /\ end' = "closed"
  /\ Answer
  /\ UNCHANGED <<inputs, at, ctx, body, spoilt, sawData, err>>

(* It is not JSON, or the context ends before it is whole: never a timeout. *)
Undecodable ==
  /\ pc = "json"
  /\ end' = "broken"
  /\ Fail("backend_error")
  /\ UNCHANGED <<inputs, at, ctx, body, sent, spoilt, reader, answer>>

-----------------------------------------------------------------------------
(* The scanner loop of invokeStream. *)

Reading == pc = "read" /\ body = "sse" /\ end = "open" /\ ctx = "live"

PieceArrives ==
  /\ Reading /\ Len(sent) < MaxPieces
  /\ sent' = Append(sent, Len(sent) + 1)
  /\ text' = Append(text, Len(sent) + 1)
  /\ sawData' = TRUE
  /\ UNCHANGED <<inputs, at, pc, ctx, body, spoilt, end, err, answer>>

(* A data line that does not parse: its text is skipped. *)
PieceSpoilt ==
  /\ Reading /\ Len(sent) < MaxPieces
  /\ sent' = Append(sent, Len(sent) + 1)
  /\ spoilt' = spoilt \cup {Len(sent) + 1}
  /\ sawData' = TRUE
  /\ UNCHANGED <<inputs, at, pc, ctx, body, text, end, err, answer>>

(* A data line without text: a role, a usage report, an error event. *)
OtherData ==
  /\ Reading
  /\ sawData' = TRUE
  /\ UNCHANGED <<inputs, at, pc, ctx, wire, text, err, answer>>

(* [DONE] ends the loop of the OpenAI reader, which reads no further; to    *)
(* the others it would be a data line that does not parse.                  *)
DoneMark ==
  /\ Reading /\ Family = "openai"
  /\ end' = "marked"
  /\ UNCHANGED <<inputs, at, pc, ctx, body, sent, spoilt, reader, err, answer>>

BodyCloses ==
  /\ pc = "read" /\ end = "open" /\ ctx = "live"
  /\ end' = "closed"
  /\ UNCHANGED <<inputs, at, pc, ctx, body, sent, spoilt, reader, err, answer>>

(* Reading fails: reset, a line of over a megabyte, or the context's end.   *)
BodyBreaks ==
  /\ pc = "read" /\ end = "open"
  /\ end' = "broken"
  /\ UNCHANGED <<inputs, at, pc, ctx, body, sent, spoilt, reader, err, answer>>

(* After the loop: scanner.Err(), then an empty stream, then the answer.    *)
StreamFails ==
  /\ pc = "read" /\ end # "open"
  /\ end = "broken" \/ ~sawData
  /\ Fail("backend_error")
  /\ UNCHANGED <<inputs, at, ctx, wire, reader, answer>>

StreamEnds ==
  /\ pc = "read" /\ end \in {"marked", "closed"} /\ sawData
  /\ Answer
  /\ UNCHANGED <<inputs, at, ctx, wire, reader, err>>

-----------------------------------------------------------------------------
(* ExecuteWithFallbackOpts: the next candidate is called afresh, under a    *)
(* context of its own that is a child of the request's; or the chain ends.  *)
NextKeepsReader ==
  /\ pc = "failed" /\ at < Len(chain)
  /\ at' = at + 1
  /\ pc' = "dial"
  /\ ctx' = IF ctx = "timed_out" THEN "live" ELSE ctx
  /\ body' = "none" /\ sent' = <<>> /\ spoilt' = {} /\ end' = "open"
  /\ err' = "none"
  /\ UNCHANGED <<inputs, reader, answer>>
NextCandidate ==
  /\ pc = "failed" /\ at < Len(chain)
  /\ at' = at + 1
  /\ pc' = "dial"
  /\ ctx' = IF ctx = "timed_out" THEN "live" ELSE ctx
  /\ body' = "none" /\ sent' = <<>> /\ spoilt' = {} /\ end' = "open"
  /\ sawData' = FALSE /\ text' = <<>>
  /\ err' = "none"
  /\ UNCHANGED <<inputs, answer>>

GiveUp ==
  /\ pc = "failed"
  /\ pc' = "gaveUp"
  /\ UNCHANGED <<inputs, at, ctx, wire, reader, err, answer>>

(* What the gateway does by itself, without the server: it starts calls,    *)
(* notices that a context has ended, and leaves the loop.                   *)
BreakOnEnd == ctx # "live" /\ BodyBreaks
DecodeOnEnd == ctx # "live" /\ Undecodable
Gateway ==
  \/ RefuseStream \/ Dial \/ CallCutOff \/ BreakOnEnd \/ DecodeOnEnd
  \/ StreamFails \/ StreamEnds \/ NextCandidate \/ GiveUp

Server ==
  \/ MockAnswers \/ Unreachable \/ StatusError \/ ResponseBegins \/ Decoded \/ Undecodable
  \/ PieceArrives \/ PieceSpoilt \/ OtherData \/ DoneMark \/ BodyCloses \/ BodyBreaks

Next == ContextEnds \/ Gateway \/ Server

(* Every call has a deadline (context.WithTimeout with the backend's        *)
(* timeout_ms), so a context that is live will end; the gateway's own steps *)
(* are taken.  Nothing is assumed of the server.                            *)
Spec == Init /\ [][Next]_vars /\ WF_vars(Gateway) /\ WF_vars(ContextEnds)

-----------------------------------------------------------------------------

Answered == pc = "answered"

Texts(s) == {s[i] : i \in DOMAIN s}

(* An answer is the text of one backend's whole body: nothing of a          *)
(* candidate that failed halfway, nothing out of order, nothing missing but *)
(* lines that did not parse, and never a body that broke (internal/adapters *)
(* invokeStream; docs/streaming-and-fallback.md on "partial stream bodies").*)
WholeAnswer ==
  Answered =>
    /\ end \in {"marked", "closed"}
    /\ \A i, j \in DOMAIN text : i < j => text[i] < text[j]
    /\ Texts(text) = Texts(sent) \ spoilt

(* docs/streaming-and-fallback.md:9,17: a fallback's answer is streamed     *)
(* only with stream_fallback_enabled, and an answer is marked degraded      *)
(* exactly when the backend that gave it was asked to stream and sent JSON. *)
StreamFlagHonoured ==
  Answered =>
    /\ answer.streamed => stream /\ (at > 1 => keepFlag)
    /\ answer.degraded <=> body = "json" /\ stream /\ (at > 1 => keepFlag)

(* What InferPipeline assumes of adapters in DeadlineErrors and Replies: an *)
(* error that wraps the deadline, without which nothing is answered 504,    *)
(* comes from mock alone, and only when the context expired; a timeout from *)
(* the HTTP families, by the context or the dialer, and never of a call     *)
(* that was canceled; an upstream status from HTTP families; and a deadline *)
(* that passes while the body is read is a backend_error, not a timeout.    *)
ErrorsAsAssumed ==
  pc = "failed" =>
    /\ err = "raw_deadline" => Family = "mock" /\ ctx \in Deadlines
    /\ err = "timeout" => Http /\ ctx # "canceled"
    /\ Family = "mock" => err = (IF ctx \in Deadlines THEN "raw_deadline" ELSE "backend_error")
    /\ Family = "bedrock" => err = "backend_error"
    /\ err \in {"upstream_4xx", "upstream_5xx"} => Http
    /\ body # "none" => err = "backend_error"

(* Whatever the servers do - stall, trickle, break - the chain comes to an  *)
(* end, since each call reads under its own deadline.                       *)
ChainEnds == <>(pc \in {"answered", "gaveUp"})
=============================================================================
