-------------------------- MODULE MCInferPipeline --------------------------
(* Instances of InferPipeline and Replay for TLC.                           *)
EXTENDS Replay, TLC

CONSTANTS big, small, spare

OneSlot == {[limit |-> 1, reject |-> TRUE]}

(* big falls back to small and then to spare on most errors; small has a    *)
(* rule of its own that only timeouts trigger; spare has none.              *)
Chain ==
  <<[from |-> big, to |-> small, on |-> {"timeout", "upstream_5xx"}],
    [from |-> big, to |-> spare, on |-> {"backend_error"}],
    [from |-> small, to |-> big, on |-> {"timeout"}]>>

OneRule == <<[from |-> big, to |-> small, on |-> {"timeout", "backend_error"}]>>

(* big stands for mock, which hands the deadline through; the others for    *)
(* the HTTP adapters, whose streams break with a plain error.               *)
Deadlines == [b \in Backends |-> IF b = big THEN {"raw_deadline"} ELSE {"timeout", "backend_error"}]
Answers == [b \in Backends |-> IF b = big THEN {"backend_error"}
                            ELSE {"timeout", "upstream_4xx", "upstream_5xx"}]
FewDeadlines == [b \in Backends |-> IF b = big THEN {"raw_deadline"} ELSE {"timeout"}]
FewAnswers == [b \in Backends |-> {"backend_error"}]
=============================================================================
