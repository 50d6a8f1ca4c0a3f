------------------------------ MODULE MCLabels ------------------------------
(* Two documents, the second below the first, for TLC.                         *)
EXTENDS Labels

CONSTANTS sys, req, a, b, c

Docs == {sys, req}
Parents == req :> sys @@ sys :> NoDoc
Keys == {a, b, c}
Places == <<sys, sys, req>>
Definitions == sys :> {a, b} @@ req :> {c}
Labelled == <<{a}, {a, b}, {a, c}>>
OnlyReq == {req}
GivenSets == {{}, {b}, {a, c}}
===============================================================================
