------------------------------ MODULE MCStore ------------------------------
(***************************************************************************)
(* Model checking RequirementStore: system requirements P, and C below P.  *)
(***************************************************************************)
EXTENDS RequirementStore, TLC

OneBelowTheOther == [P |-> [parent |-> NoDoc, rev |-> 1],
                     C |-> [parent |-> "P", rev |-> 1]]

Requirement(uid, links) == [uid |-> uid, text |-> "a", rev |-> 1, links |-> links]
Sound(uid) == [rev |-> 1, suspect |-> FALSE, seen |-> <<uid, "a">>]

OneLink == (<<"P", 1>> :> Requirement(-1, <<>>))
           @@ (<<"C", 1>> :> Requirement(-2, <<"P", 1>> :> Sound(-1)))
TwoLinks == (<<"P", 1>> :> Requirement(-1, <<>>))
            @@ (<<"P", 2>> :> Requirement(-2, <<>>))
            @@ (<<"C", 1>> :> Requirement(-3, (<<"P", 1>> :> Sound(-1))
                                              @@ (<<"P", 2>> :> Sound(-2))))
=============================================================================
