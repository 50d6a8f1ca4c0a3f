----------------------------- MODULE MCLlmStream -----------------------------
(* Values of the parameters of LlmStream for TLC.                              *)
EXTENDS LlmStream

EveryDelivery == {"together", "in_turn", "function", "reasoning", "no_ids", "no_ids_in_turn",
                  "message"}
===============================================================================
