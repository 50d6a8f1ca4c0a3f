----------------------------- MODULE MCToolCalls -----------------------------
(* Names for the model values of ToolCalls.                                    *)
EXTENDS ToolCalls, TLC

CONSTANTS p, q, a, b

Projects == {p, q}
Chats == {a, b}
ChatSymmetry == Permutations(Chats)
===============================================================================
