---------------------------- MODULE MCOAuthGrants ----------------------------
(***************************************************************************)
(* The instance of OAuthGrants for TLC: a grant whose tokens are rotated   *)
(* twice, and one that is only authorized, revoked and deleted, so that    *)
(* deletions of the app can wait for each other.                           *)
(***************************************************************************)
EXTENDS OAuthGrants

CONSTANTS g1, g2

MCMaxPair == [g \in Grant |-> IF g = g1 THEN 2 ELSE 0]

=============================================================================
