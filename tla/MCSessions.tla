----------------------------- MODULE MCSessions -----------------------------
(***************************************************************************)
(* The instance of Sessions for TLC: alice is a super admin by             *)
(* configuration and is renamed at the provider; bob loses his role there. *)
(* The administrator adds a user of bob's name, or changes or deletes the  *)
(* row that bob's login has made.                                          *)
(***************************************************************************)
EXTENDS Sessions, TLC

CONSTANTS alice, bob

MCClaims == [a \in Account |-> IF a = alice THEN [name |-> "alice", roles |-> {"viewer"}]
                               ELSE [name |-> "bob", roles |-> {"admin"}]]
MCLater == [a \in Account |-> IF a = alice THEN [name |-> "alicia", roles |-> {}]
                              ELSE [name |-> "bob", roles |-> {}]]
MCSuper == {"alice"}
MCChanges ==
  { [op |-> "create", name |-> "bob", super |-> FALSE],
    [op |-> "update", id |-> bob, patch |-> [super |-> TRUE, roles |-> {"viewer"}]],
    [op |-> "delete", id |-> bob] }

\* Sound: every property is one of safety, and no browser, state or request is
\* named.
MCSymmetry == Permutations(Browser) \cup Permutations(State) \cup Permutations(Request)

=============================================================================
