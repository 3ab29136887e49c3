-------------------------- MODULE MCClaimPublication --------------------------
(* ClaimPublication for TLC: a block, a lease and two feeds. *)
EXTENDS ClaimPublication, TLC

CONSTANTS m, l, a1, b1, FeedA, FeedB

MCSource == (m :> "manual") @@ (l :> "allow") @@ (a1 :> FeedA) @@ (b1 :> FeedB)

=============================================================================
