-------------------------- MODULE MCOrderPlacement --------------------------
(***************************************************************************)
(* One quotation of alice: r1 does not say who asks, r2 and r3 are hers,   *)
(* r4 is bob's and r5 has no address.                                      *)
(***************************************************************************)
EXTENDS OrderPlacement

WantOf == [r \in Requests |-> "q1"]

OwnerOf == [q \in Quotations |-> "alice"]

AskerOf == [r \in Requests |->
    IF r = "r1" THEN None ELSE IF r = "r4" THEN "bob" ELSE "alice"]
=============================================================================
