-------------------------- MODULE MCQuotePipeline --------------------------
(* A warm start for the runs of two markets: both are tracked, judged open   *)
(* and quoted, and every channel is empty.                                  *)
EXTENDS QuotePipeline

WarmInit ==
  /\ markets = [m \in Markets |->
       [tradable |-> TRUE, feeds |-> TRUE, exposed |-> FALSE,
        enabled |-> TRUE, verdict |-> "open"]]
  /\ halted = FALSE /\ userFresh = TRUE
  /\ outbox = {} /\ raw = <<>> /\ strategy = <<>> /\ hand = None
  /\ exec = <<>> /\ completions = 0
  /\ asked = [m \in Markets |-> TRUE]
  /\ geo = "allowed" /\ late = {} /\ breaks = 0

WarmSpec == WarmInit /\ [][Next]_vars /\ Fairness
=============================================================================
