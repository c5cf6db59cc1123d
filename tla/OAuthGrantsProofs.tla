-------------------------- MODULE OAuthGrantsProofs --------------------------
(***************************************************************************)
(* Theorems about OAuthGrants, for any grants, any number of concurrent    *)
(* requests and every bound on the token pairs.                            *)
(*                                                                         *)
(* The argument: a row that a transaction has locked goes on matching the  *)
(* token it was found by until that transaction ends (HeldInv), so a code  *)
(* or refresh token is replaced by whoever used it (UsesInv); what a       *)
(* revocation found dead stays dead, for ids are not reused, codes do not  *)
(* come back and pairs are only replaced by later ones (DroppedInv); and   *)
(* the lock on the app's row keeps codes out between the deletion of its   *)
(* last grant and the commit (DeletionInv).                                *)
(***************************************************************************)
EXTENDS OAuthGrants, TLAPS

TokenKind == {"redeem", "refresh", "access"}

\* r has found the row of its token and locked it.
Holding(r) == pc[r] = "touch" \/ (pc[r] = "commit" /\ req[r].kind # "delete")

\* What was known of the token when it was presented, and still is.
Presented(q) ==
  /\ q.kind \in TokenKind \cup {"revoke"}
  /\ q.grant \in created
  /\ q.token <= pair[q.grant]
  /\ q.kind \in {"redeem", "refresh"} => q.token < MaxPair[q.grant]
  /\ WellFormed(q)

\* The row still has the token of the request: Match but for the expiry.
Matches(q) ==
  /\ q.grant \in grants \ revoked
  /\ IF q.kind = "redeem" THEN code[q.grant] ELSE pair[q.grant] = q.token

\* A request asks for what its step serves; ids are not reused.
RequestInv ==
  \A r \in Request :
    /\ pc[r] = "insert" =>
         /\ req[r].grant \in Grant \ created
         /\ \A s \in Request : pc[s] = "insert" /\ req[s].grant = req[r].grant
                               => s = r
    /\ pc[r] \in {"select", "wait"} => Presented(req[r])
    /\ pc[r] = "drain" => req[r].kind = "delete"

\* A row that is locked for its token goes on having it.
HeldInv ==
  \A r \in Request :
    Holding(r) => /\ Presented(req[r])
                  /\ req[r].kind \in TokenKind
                  /\ lock[req[r].grant] = r
                  /\ Matches(req[r])

\* A token that is still in the row, or not issued yet, has not been used.
UsesInv ==
  \A g \in Grant :
    /\ code[g] => pair[g] = 0 /\ uses[g][0] = 0
    /\ \A k \in Token : /\ uses[g][k] <= 1
                        /\ k > 0 /\ k >= pair[g] => uses[g][k] = 0

\* No row has the token, nor will have it.
Dead(g, k) ==
  \/ g \notin grants
  \/ g \in revoked
  \/ k = 0 /\ ~code[g]
  \/ k > 0 /\ k < pair[g]

\* So it is for every token of which a revocation was run and answered.
DroppedInv == \A t \in dropped \ failed : t[1] \in created /\ Dead(t[1], t[2])

\* Who has deleted the app has locked its row, and every grant there is.
DeletionInv ==
  /\ appLock # None => pc[appLock] = "commit"
  /\ \A r \in Request :
       pc[r] = "commit" /\ req[r].kind = "delete" =>
         /\ appLock = r
         /\ \A g \in grants : lock[g] = r

GrantsInv ==
  /\ TypeOK
  /\ RequestInv
  /\ HeldInv
  /\ UsesInv
  /\ DroppedInv
  /\ DeletionInv
  /\ DeletedAppHasNoGrants

\* Where a request can be.
PC == {"idle", "insert", "select", "wait", "touch", "drain", "commit"}

\* Tokens are natural numbers.
LEMMA TokenType ==
  /\ Token \subseteq Nat
  /\ TypeOK => \A g \in Grant : pair[g] \in Nat
<1>1. \A g \in Grant : 0 .. MaxPair[g] \subseteq Nat
  OBVIOUS
<1>2. Token \subseteq Nat
  BY DEF Token
<1>. QED
  BY <1>2 DEF TypeOK

\* What was presented names a grant.
LEMMA PresentedType ==
  ASSUME TypeOK, NEW q, Presented(q)
  PROVE  q.grant \in Grant
BY DEF TypeOK, Presented

\* A step of r moves r alone.
LEMMA BecomesType ==
  ASSUME TypeOK, NEW r \in Request, NEW from \in PC, NEW to \in PC,
         Becomes(r, from, to)
  PROVE  /\ pc' \in [Request -> PC] /\ req' \in [Request -> Ask]
         /\ pc[r] = from /\ pc'[r] = to
         /\ req'[r] = IF to = "idle" THEN Deletion ELSE req[r]
         /\ \A s \in Request \ {r} : pc'[s] = pc[s] /\ req'[s] = req[s]
         /\ \A g \in Grant : lock[g] # None /\ lock[g] # r
                             => pc'[lock[g]] \in {"touch", "drain", "commit"}
         /\ from \in {"insert", "select", "wait"}
              => \A g \in Grant : lock[g] # r
<1>1. Deletion \in Ask
  BY DEF Deletion, Ask, Kind, Token
<1>. QED
  BY <1>1, GrantsAssumption DEF TypeOK, PC, Becomes

\* A token that a revocation does not find is of no use any more.
LEMMA UnmatchedIsDead ==
  ASSUME TypeOK, NEW q \in Ask, Presented(q), q.kind = "revoke", ~Match(q)
  PROVE  Dead(q.grant, q.token)
<1>1. q.token \in Nat /\ pair[q.grant] \in Nat /\ q.token <= pair[q.grant]
  BY TokenType, PresentedType DEF Presented, Ask
<1>2. q.grant \notin grants \/ ~Holds(q)
  BY DEF Match
<1>3. q.token > 0 /\ pair[q.grant] # q.token => q.token < pair[q.grant]
  BY <1>1
<1>. QED
  BY <1>1, <1>2 DEF Holds, Dead

(***************************************************************************)
(* Each action keeps the invariant.                                        *)
(***************************************************************************)
LEMMA AuthorizeStep ==
  ASSUME GrantsInv, NEW r \in Request, NEW g \in Grant, Authorize(r, g)
  PROVE  GrantsInv'
<1>. USE GrantsAssumption DEF GrantsInv
<1>1. TypeOK'
  BY DEF TypeOK, Ask, Kind, Token, rows, history, Authorize, Begins
<1>2. RequestInv'
  BY DEF RequestInv, Presented, TypeOK, rows, Authorize, Begins
<1>3. HeldInv'
  BY DEF HeldInv, Holding, Presented, Matches, rows, Authorize, Begins
<1>4. UsesInv' /\ DroppedInv'
  BY DEF UsesInv, DroppedInv, Dead, rows, history, Authorize
<1>5. DeletionInv' /\ DeletedAppHasNoGrants'
  BY DEF DeletionInv, DeletedAppHasNoGrants, rows, Authorize, Begins
<1>. QED
  BY <1>1, <1>2, <1>3, <1>4, <1>5

LEMMA InsertCodeStep ==
  ASSUME GrantsInv, NEW r \in Request, InsertCode(r)
  PROVE  GrantsInv'
<1>. USE GrantsAssumption DEF GrantsInv
<1>1. TypeOK'
  <2>1. Becomes(r, "insert", "idle") /\ req[r].grant \in Grant
    BY DEF InsertCode, RequestInv, Becomes
  <2>2. /\ grants' \subseteq created' /\ created' \subseteq Grant
        /\ revoked \subseteq created'
    BY <2>1 DEF InsertCode, TypeOK
  <2>. QED
    BY <2>2, BecomesType DEF InsertCode, TypeOK, PC, history
<1>2. RequestInv'
  BY DEF RequestInv, Presented, TypeOK, InsertCode, Becomes
<1>3. HeldInv'
  BY DEF HeldInv, Holding, Presented, Matches, InsertCode, Becomes
<1>4. UsesInv' /\ DroppedInv'
  BY DEF UsesInv, DroppedInv, Dead, RequestInv, history, InsertCode, Becomes
<1>5. DeletionInv' /\ DeletedAppHasNoGrants'
  BY DEF DeletionInv, DeletedAppHasNoGrants, InsertCode, Becomes
<1>. QED
  BY <1>1, <1>2, <1>3, <1>4, <1>5

LEMMA PresentStep ==
  ASSUME GrantsInv, NEW r \in Request, NEW q \in Ask, Present(r, q)
  PROVE  GrantsInv'
<1>. USE GrantsAssumption DEF GrantsInv
<1>1. RequestInv'
  <2>1. Presented(q)
    <3>1. /\ q.grant \in created /\ q.grant \in Grant
          /\ q.token <= pair[q.grant] /\ WellFormed(q)
          /\ q.kind \in {"redeem", "refresh"}
               => pair[q.grant] < MaxPair[q.grant]
      BY DEF Present, TypeOK
    <3>2. q.kind \in TokenKind \cup {"revoke"}
      BY DEF Present, Ask, Kind, TokenKind
    <3>3. q.token \in Nat /\ pair[q.grant] \in Nat /\ MaxPair[q.grant] \in Nat
      BY <3>1, TokenType DEF Ask
    <3>. QED
      BY <3>1, <3>2, <3>3 DEF Presented
  <2>2. \A x : Presented(x)' = Presented(x)
    BY DEF Presented, Present, rows
  <2>3. /\ pc[r] = "idle"
        /\ pc' = [pc EXCEPT ![r] = "select"]
        /\ req' = [req EXCEPT ![r] = q]
    BY DEF Present, Begins
  <2>4. ASSUME NEW s \in Request PROVE
     /\ pc'[s] = IF s = r THEN "select" ELSE pc[s]
     /\ req'[s] = IF s = r THEN q ELSE req[s]
    BY <2>3 DEF TypeOK
  <2>5. created' = created
    BY DEF Present, rows
  <2>. QED
    BY <2>1, <2>2, <2>4, <2>5 DEF RequestInv
<1>2. TypeOK'
  BY DEF TypeOK, rows, history, Present, Begins
<1>3. HeldInv'
  BY DEF HeldInv, Holding, Presented, Matches, rows, Present, Begins
<1>4. UsesInv' /\ DroppedInv'
  BY DEF UsesInv, DroppedInv, Dead, rows, history, Present
<1>5. DeletionInv' /\ DeletedAppHasNoGrants'
  BY DEF DeletionInv, DeletedAppHasNoGrants, rows, Present, Begins
<1>. QED
  BY <1>1, <1>2, <1>3, <1>4, <1>5

LEMMA SelectStep ==
  ASSUME GrantsInv, NEW r \in Request, Select(r)
  PROVE  GrantsInv'
<1>. USE GrantsAssumption DEF GrantsInv
<1>1. TypeOK'
  <2>1. PICK to \in {"wait", "idle"} : Becomes(r, "select", to)
    BY DEF Select
  <2>2. req[r].grant \in Grant /\ req[r] \in Ask
    BY PresentedType DEF Select, RequestInv, TypeOK
  <2>3. dropped' \subseteq Grant \X Token /\ failed' \subseteq dropped'
    BY <2>2 DEF Select, Answered, TypeOK, Ask
  <2>. QED
    BY <2>3, BecomesType DEF Select, TypeOK, PC, rows
<1>2. DroppedInv'
  <2>. DEFINE q == req[r]
  <2>1. q.grant \in Grant /\ q \in Ask /\ Presented(q)
    BY PresentedType DEF Select, RequestInv, TypeOK
  <2>2. \A g, k : Dead(g, k)' = Dead(g, k)
    BY DEF Dead, Select, rows
  <2>3. created' = created
    BY DEF Select, rows
  <2>4. CASE dropped' = dropped /\ failed' = failed
    BY <2>2, <2>3, <2>4 DEF DroppedInv
  <2>5. CASE /\ ~Match(q) /\ q.kind = "revoke"
             /\ dropped' = dropped \cup {<<q.grant, q.token>>}
             /\ failed' = failed \ {<<q.grant, q.token>>}
    <3>1. Dead(q.grant, q.token)
      BY <2>1, <2>5, UnmatchedIsDead
    <3>. QED
      BY <2>1, <2>2, <2>3, <2>5, <3>1 DEF DroppedInv, Presented
  <2>. QED
    BY <2>4, <2>5 DEF Select, Answered
<1>3. RequestInv'
  BY DEF RequestInv, Presented, WellFormed, Deletion, TypeOK, rows, history,
     Select, Becomes, Answered, Match, Holds
<1>4. HeldInv'
  BY DEF HeldInv, Holding, Presented, Matches, TypeOK, rows, Select, Becomes
<1>5. UsesInv'
  BY DEF UsesInv, rows, Select
<1>6. DeletionInv' /\ DeletedAppHasNoGrants'
  BY DEF DeletionInv, TypeOK, RequestInv, Deletion, HeldInv, Holding,
     DeletedAppHasNoGrants, rows, history, Select, Becomes, Answered, Match,
     Holds
<1>. QED
  BY <1>1, <1>2, <1>3, <1>4, <1>5, <1>6

LEMMA LockGrantStep ==
  ASSUME GrantsInv, NEW r \in Request, LockGrant(r)
  PROVE  GrantsInv'
<1>. USE GrantsAssumption DEF GrantsInv
<1>1. TypeOK'
  <2>1. CASE /\ Becomes(r, "wait", "touch")
             /\ lock' = [lock EXCEPT ![req[r].grant] = r]
    <3>1. pc' \in [Request -> PC] /\ req' \in [Request -> Ask]
      BY <2>1, BecomesType DEF PC
    <3>2. /\ lock' \in [Grant -> Request \cup {None}]
          /\ \A g \in Grant : lock'[g] = r \/ lock'[g] = lock[g]
      BY <2>1 DEF TypeOK
    <3>3. \A g \in Grant : lock'[g] # None
            => pc'[lock'[g]] \in {"touch", "drain", "commit"}
      BY <2>1, BecomesType DEF PC
    <3>. QED
      BY <3>1, <3>3 DEF LockGrant, TypeOK, PC, rows, history
  <2>2. CASE Becomes(r, "wait", "idle") /\ lock' = lock
    BY <2>2, BecomesType DEF LockGrant, TypeOK, PC, rows, history
  <2>. QED
    BY <2>1, <2>2 DEF LockGrant
<1>2. RequestInv'
  <2>1. PICK to \in {"touch", "idle"} : Becomes(r, "wait", to)
    BY DEF LockGrant
  <2>2. \A q : Presented(q)' = Presented(q)
    BY DEF LockGrant, Presented, rows
  <2>. QED
    BY <2>2, BecomesType DEF LockGrant, RequestInv, rows, PC
<1>3. HeldInv'
  BY DEF HeldInv, Holding, Presented, Matches, TypeOK, RequestInv, rows,
     LockGrant, Becomes, Match
<1>4. UsesInv' /\ DroppedInv'
  BY DEF UsesInv, DroppedInv, Dead, rows, history, LockGrant
<1>5. DeletionInv' /\ DeletedAppHasNoGrants'
  BY DEF DeletionInv, TypeOK, DeletedAppHasNoGrants, rows, history, LockGrant,
     Becomes
<1>. QED
  BY <1>1, <1>2, <1>3, <1>4, <1>5

LEMMA RevokeStep ==
  ASSUME GrantsInv, NEW r \in Request, Revoke(r)
  PROVE  GrantsInv'
<1>. USE GrantsAssumption DEF GrantsInv
<1>1. TypeOK'
  <2>1. Becomes(r, "wait", "idle")
    BY DEF Revoke
  <2>2. req[r].grant \in created /\ req[r] \in Ask
    BY DEF Revoke, RequestInv, TypeOK, Presented, Becomes
  <2>3. /\ dropped' \subseteq Grant \X Token /\ failed' \subseteq dropped'
        /\ revoked' \subseteq created
    BY <2>2 DEF Revoke, Answered, TypeOK, Ask
  <2>. QED
    BY <2>3, BecomesType DEF Revoke, TypeOK, PC
<1>2. DroppedInv'
  <2>. PICK q : q = req[r]
    OBVIOUS
  <2>1. q.grant \in Grant /\ q \in Ask /\ Presented(q)
    BY PresentedType DEF Revoke, Becomes, RequestInv, TypeOK
  <2>2. \A g, k : Dead(g, k) => Dead(g, k)'
    BY DEF Dead, Revoke
  <2>3. Dead(q.grant, q.token)'
    <3>1. CASE Match(q)
      BY <3>1 DEF Revoke, Dead
    <3>2. CASE ~Match(q)
      BY <2>1, <2>2, <3>2, UnmatchedIsDead DEF Revoke
    <3>. QED
      BY <3>1, <3>2
  <2>. QED
    BY <2>1, <2>2, <2>3 DEF DroppedInv, Revoke, Answered, Presented
<1>3. RequestInv'
  BY DEF RequestInv, Presented, TypeOK, Revoke, Becomes
<1>4. HeldInv'
  BY DEF HeldInv, Holding, Presented, Matches, Revoke, Becomes
<1>5. UsesInv'
  BY DEF UsesInv, Revoke
<1>6. DeletionInv' /\ DeletedAppHasNoGrants'
  BY DEF DeletionInv, DeletedAppHasNoGrants, Revoke, Becomes
<1>. QED
  BY <1>1, <1>2, <1>3, <1>4, <1>5, <1>6

LEMMA FailRevokeStep ==
  ASSUME GrantsInv, NEW r \in Request, FailRevoke(r)
  PROVE  GrantsInv'
<1>. USE GrantsAssumption DEF GrantsInv
<1>1. PICK from \in {"select", "wait"} : Becomes(r, from, "idle")
  BY DEF FailRevoke
<1>2. TypeOK'
  <2>1. <<req[r].grant, req[r].token>> \in Grant \X Token
    BY <1>1, PresentedType DEF RequestInv, TypeOK, Becomes, Ask
  <2>2. dropped' \subseteq Grant \X Token /\ failed' \subseteq dropped'
    BY <2>1 DEF FailRevoke, TypeOK
  <2>. QED
    BY <1>1, <2>2, BecomesType DEF FailRevoke, TypeOK, PC, rows
<1>3. DroppedInv'
  <2>1. dropped' \ failed' = dropped \ failed
    BY DEF FailRevoke
  <2>. QED
    BY <2>1 DEF DroppedInv, Dead, FailRevoke, rows
<1>4. RequestInv'
  BY <1>1 DEF RequestInv, Presented, TypeOK, rows, FailRevoke, Becomes
<1>5. HeldInv'
  BY <1>1 DEF HeldInv, Holding, Presented, Matches, rows, FailRevoke, Becomes
<1>6. UsesInv'
  BY DEF UsesInv, rows, FailRevoke
<1>7. DeletionInv' /\ DeletedAppHasNoGrants'
  BY <1>1 DEF DeletionInv, DeletedAppHasNoGrants, rows, FailRevoke, Becomes
<1>. QED
  BY <1>2, <1>3, <1>4, <1>5, <1>6, <1>7

LEMMA TouchStep ==
  ASSUME GrantsInv, NEW r \in Request, Touch(r)
  PROVE  GrantsInv'
<1>. USE GrantsAssumption DEF GrantsInv
<1>1. DeletionInv'
  <2>1. /\ Becomes(r, "touch", "commit")
        /\ req[r].kind # "delete" /\ appLock = None
    BY DEF Touch, HeldInv, Holding, TokenKind, Becomes
  <2>2. appLock' # None => pc'[appLock'] = "commit"
    BY BecomesType DEF Touch, PC
  <2>3. ASSUME NEW s \in Request, pc'[s] = "commit", req'[s].kind = "delete"
        PROVE  FALSE
    <3>1. pc[s] = "commit" /\ req[s].kind = "delete"
      BY <2>1, <2>3, BecomesType DEF PC
    <3>. QED
      BY <2>1, <3>1 DEF DeletionInv
  <2>. QED
    BY <2>2, <2>3 DEF DeletionInv
<1>2. TypeOK'
  BY DEF TypeOK, rows, history, Touch, Becomes
<1>3. RequestInv'
  BY DEF RequestInv, Presented, rows, Touch, Becomes
<1>4. HeldInv'
  BY DEF HeldInv, Holding, Presented, Matches, rows, Touch, Becomes
<1>5. UsesInv' /\ DroppedInv'
  BY DEF UsesInv, DroppedInv, Dead, rows, history, Touch
<1>6. DeletedAppHasNoGrants'
  BY DEF DeletedAppHasNoGrants, rows, Touch
<1>. QED
  BY <1>1, <1>2, <1>3, <1>4, <1>5, <1>6

LEMMA CommitPairStep ==
  ASSUME GrantsInv, NEW r \in Request, CommitPair(r)
  PROVE  GrantsInv'
<1>. USE GrantsAssumption DEF GrantsInv
<1>1. TypeOK'
  <2>. DEFINE g == req[r].grant
  <2>1. /\ Becomes(r, "commit", "idle")
        /\ Presented(req[r]) /\ Matches(req[r]) /\ lock[g] = r
    BY DEF CommitPair, HeldInv, Holding, Becomes
  <2>2. g \in Grant /\ req[r].token \in Token /\ req[r].token = pair[g]
    BY <2>1 DEF Matches, UsesInv, WellFormed, Presented, TypeOK
  <2>3. pair[g] + 1 \in Token
    BY <2>1, <2>2 DEF Token, CommitPair, Presented
  <2>4. uses' \in [Grant -> [Token -> Nat]]
    BY <2>2 DEF CommitPair, TypeOK
  <2>5. lock' \in [Grant -> Request \cup {None}]
        /\ \A x \in Grant : /\ lock'[x] # r
                            /\ lock'[x] # None => lock'[x] = lock[x]
    BY DEF CommitPair, Unlocked, TypeOK
  <2>. QED
    BY <2>1, <2>2, <2>3, <2>4, <2>5, BecomesType
    DEF CommitPair, TypeOK, PC, AppUnlocked, Expiry
<1>2. RequestInv'
  <2>1. Becomes(r, "commit", "idle")
    BY DEF CommitPair
  <2>2. ASSUME NEW q \in Ask, Presented(q)
        PROVE  Presented(q)'
    <3>1. q.grant \in Grant /\ q.token \in Nat /\ pair[q.grant] \in Nat
      BY <2>2, TokenType, PresentedType DEF Ask
    <3>2. pair'[q.grant] \in {pair[q.grant], pair[q.grant] + 1}
      BY DEF CommitPair
    <3>. QED
      BY <2>2, <3>1 DEF CommitPair, Presented
  <2>3. \A s \in Request : req[s] \in Ask
    BY DEF TypeOK
  <2>. QED
    BY <2>2, BecomesType DEF CommitPair, RequestInv, PC
<1>3. UsesInv'
  <2>. DEFINE g == req[r].grant
              k == req[r].token
  <2>1. Presented(req[r]) /\ Matches(req[r])
    BY DEF CommitPair, HeldInv, Holding, Becomes
  <2>2. g \in Grant /\ k \in Token /\ k = pair[g]
    BY <2>1 DEF Matches, UsesInv, WellFormed, Presented, TypeOK
  <2>3. uses[g][k] = 0
    BY <2>1, <2>2 DEF UsesInv, Matches, CommitPair, WellFormed, Presented
  <2>4. /\ code' = [code EXCEPT ![g] = FALSE]
        /\ pair' = [pair EXCEPT ![g] = k + 1]
        /\ uses' = [uses EXCEPT ![g][k] = 1]
    BY <2>2, <2>3 DEF CommitPair
  <2>5. /\ code \in [Grant -> BOOLEAN] /\ pair \in [Grant -> Nat]
        /\ uses \in [Grant -> [Token -> Nat]] /\ Token \subseteq Nat
    BY TokenType DEF TypeOK
  <2>6. /\ ~code'[g] /\ pair'[g] = k + 1
        /\ \A j \in Token : uses'[g][j] = IF j = k THEN 1 ELSE uses[g][j]
        /\ \A h \in Grant \ {g} : code'[h] = code[h] /\ pair'[h] = pair[h] /\ uses'[h] = uses[h]
    BY <2>2, <2>4, <2>5
  <2>7. \A j \in Token : /\ uses'[g][j] <= 1
                         /\ j > 0 /\ j >= pair'[g] => uses'[g][j] = 0
    <3> SUFFICES ASSUME NEW j \in Token
                 PROVE  /\ uses'[g][j] <= 1
                        /\ j > 0 /\ j >= pair'[g] => uses'[g][j] = 0
      OBVIOUS
    <3>1. /\ uses[g][j] <= 1
          /\ j > 0 /\ j >= pair[g] => uses[g][j] = 0
      BY <2>2 DEF UsesInv
    <3>. QED
      BY <3>1, <2>2, <2>5, <2>6
  <2>8. ASSUME NEW h \in Grant \ {g}
        PROVE  /\ code'[h] => pair'[h] = 0 /\ uses'[h][0] = 0
               /\ \A j \in Token : /\ uses'[h][j] <= 1
                                  /\ j > 0 /\ j >= pair'[h] => uses'[h][j] = 0
    BY <2>6 DEF UsesInv
  <2>. QED
    BY <2>6, <2>7, <2>8 DEF UsesInv
<1>4. DroppedInv'
  <2>1. ASSUME NEW t \in dropped \ failed PROVE Dead(t[1], t[2])'
    <3>1. t[1] \in Grant /\ t[2] \in Nat /\ Dead(t[1], t[2])
      BY TokenType DEF DroppedInv, TypeOK
    <3>. QED
      BY <3>1, TokenType DEF CommitPair, Dead
  <2>. QED
    BY <2>1 DEF DroppedInv, CommitPair
<1>5. HeldInv'
  BY DEF HeldInv, Holding, Presented, Matches, TypeOK, CommitPair, Becomes,
     Unlocked
<1>6. DeletionInv' /\ DeletedAppHasNoGrants'
  BY DEF DeletionInv, TypeOK, DeletedAppHasNoGrants, CommitPair, Becomes,
     Unlocked, AppUnlocked
<1>. QED
  BY <1>1, <1>2, <1>3, <1>4, <1>5, <1>6

LEMMA CommitAccessStep ==
  ASSUME GrantsInv, NEW r \in Request, CommitAccess(r)
  PROVE  GrantsInv'
<1>. USE GrantsAssumption DEF GrantsInv
<1>1. TypeOK'
  BY DEF TypeOK, Ask, Kind, Token, Deletion, rows, history, CommitAccess,
     Becomes, Unlocked, AppUnlocked
<1>2. RequestInv'
  BY DEF RequestInv, Presented, rows, CommitAccess, Becomes
<1>3. HeldInv'
  BY DEF HeldInv, Holding, Presented, Matches, TypeOK, rows, CommitAccess,
     Becomes, Unlocked
<1>4. UsesInv' /\ DroppedInv'
  BY DEF UsesInv, DroppedInv, Dead, rows, history, CommitAccess
<1>5. DeletionInv' /\ DeletedAppHasNoGrants'
  BY DEF DeletionInv, TypeOK, DeletedAppHasNoGrants, rows, CommitAccess,
     Becomes, Unlocked, AppUnlocked
<1>. QED
  BY <1>1, <1>2, <1>3, <1>4, <1>5

LEMMA DeleteAppStep ==
  ASSUME GrantsInv, NEW r \in Request, DeleteApp(r)
  PROVE  GrantsInv'
<1>. USE GrantsAssumption DEF GrantsInv
<1>1. TypeOK'
  BY DEF TypeOK, Ask, Kind, Token, Deletion, rows, history, DeleteApp, Begins
<1>2. RequestInv'
  BY DEF RequestInv, Presented, Deletion, TypeOK, rows, DeleteApp, Begins
<1>3. HeldInv'
  BY DEF HeldInv, Holding, Presented, Matches, rows, DeleteApp, Begins
<1>4. UsesInv' /\ DroppedInv'
  BY DEF UsesInv, DroppedInv, Dead, rows, history, DeleteApp
<1>5. DeletionInv' /\ DeletedAppHasNoGrants'
  BY DEF DeletionInv, DeletedAppHasNoGrants, rows, DeleteApp, Begins
<1>. QED
  BY <1>1, <1>2, <1>3, <1>4, <1>5

LEMMA DeleteGrantStep ==
  ASSUME GrantsInv, NEW r \in Request, NEW g \in Grant, DeleteGrant(r, g)
  PROVE  GrantsInv'
<1>. USE GrantsAssumption DEF GrantsInv
<1>1. TypeOK'
  BY DEF TypeOK, rows, history, DeleteGrant
<1>2. RequestInv'
  BY DEF RequestInv, Presented, rows, DeleteGrant
<1>3. HeldInv'
  BY DEF HeldInv, Holding, Presented, Matches, rows, DeleteGrant
<1>4. UsesInv' /\ DroppedInv'
  BY DEF UsesInv, DroppedInv, Dead, rows, history, DeleteGrant
<1>5. DeletionInv' /\ DeletedAppHasNoGrants'
  BY DEF DeletionInv, DeletedAppHasNoGrants, rows, DeleteGrant
<1>. QED
  BY <1>1, <1>2, <1>3, <1>4, <1>5

LEMMA DeleteAppRowStep ==
  ASSUME GrantsInv, NEW r \in Request, DeleteAppRow(r)
  PROVE  GrantsInv'
<1>. USE GrantsAssumption DEF GrantsInv
<1>1. TypeOK'
  <2>1. CASE Becomes(r, "drain", "commit") /\ lock' = lock /\ appLock' = r
    BY <2>1, BecomesType DEF DeleteAppRow, TypeOK, PC, rows, history
  <2>2. CASE /\ Becomes(r, "drain", "idle")
             /\ lock' = Unlocked(r) /\ appLock' = appLock
    <3>1. /\ lock' \in [Grant -> Request \cup {None}]
          /\ \A x \in Grant : /\ lock'[x] # r
                              /\ lock'[x] # None => lock'[x] = lock[x]
      BY <2>2 DEF Unlocked, TypeOK
    <3>. QED
      BY <3>1, BecomesType DEF DeleteAppRow, TypeOK, PC, rows, history
  <2>. QED
    BY <2>1, <2>2 DEF DeleteAppRow
<1>2. RequestInv'
  <2>1. PICK to \in {"commit", "idle"} : Becomes(r, "drain", to)
    BY DEF DeleteAppRow
  <2>2. /\ pc[r] = "drain" /\ pc'[r] = to
        /\ req'[r] = IF to = "idle" THEN Deletion ELSE req[r]
        /\ \A s \in Request \ {r} : pc'[s] = pc[s] /\ req'[s] = req[s]
    BY <2>1, BecomesType DEF PC
  <2>3. \A q : Presented(q)' = Presented(q)
    BY DEF Presented, WellFormed, DeleteAppRow, rows
  <2>. QED
    BY <2>2, <2>3 DEF RequestInv, DeleteAppRow, rows
<1>3. HeldInv'
  BY DEF HeldInv, Holding, Presented, Matches, TypeOK, RequestInv, rows,
     DeleteAppRow, Becomes, Unlocked
<1>4. UsesInv' /\ DroppedInv'
  BY DEF UsesInv, DroppedInv, Dead, rows, history, DeleteAppRow
<1>5. DeletionInv'
  BY DEF DeletionInv, TypeOK, HeldInv, DeletedAppHasNoGrants, rows,
     DeleteAppRow, Becomes
<1>6. DeletedAppHasNoGrants'
  BY DEF DeletedAppHasNoGrants, DeleteAppRow, rows
<1>. QED
  BY <1>1, <1>2, <1>3, <1>4, <1>5, <1>6

LEMMA CommitDeleteStep ==
  ASSUME GrantsInv, NEW r \in Request, CommitDelete(r)
  PROVE  GrantsInv'
<1>. USE GrantsAssumption DEF GrantsInv
<1>1. TypeOK'
  BY DEF TypeOK, Ask, Token, Deletion, history, CommitDelete, Becomes,
     Unlocked, AppUnlocked
<1>2. RequestInv'
  BY DEF RequestInv, Presented, CommitDelete, Becomes
<1>3. HeldInv'
  BY DEF HeldInv, Holding, Presented, Matches, TypeOK, CommitDelete, Becomes,
     Unlocked
<1>4. UsesInv' /\ DroppedInv'
  BY DEF UsesInv, DroppedInv, Dead, history, CommitDelete
<1>5. DeletionInv' /\ DeletedAppHasNoGrants'
  BY DEF DeletionInv, TypeOK, DeletedAppHasNoGrants, CommitDelete, Becomes,
     AppUnlocked
<1>. QED
  BY <1>1, <1>2, <1>3, <1>4, <1>5

LEMMA SetEnabledStep ==
  ASSUME GrantsInv, NEW b \in {"enabled", "disabled"}, SetEnabled(b)
  PROVE  GrantsInv'
<1>. USE GrantsAssumption DEF GrantsInv
<1>1. TypeOK'
  BY DEF TypeOK, rows, history, SetEnabled
<1>2. RequestInv'
  BY DEF RequestInv, Presented, rows, SetEnabled
<1>3. HeldInv'
  BY DEF HeldInv, Holding, Presented, Matches, rows, SetEnabled
<1>4. UsesInv' /\ DroppedInv'
  BY DEF UsesInv, DroppedInv, Dead, rows, history, SetEnabled
<1>5. DeletionInv' /\ DeletedAppHasNoGrants'
  BY DEF DeletionInv, DeletedAppHasNoGrants, SetEnabled
<1>. QED
  BY <1>1, <1>2, <1>3, <1>4, <1>5

LEMMA RollbackStep ==
  ASSUME GrantsInv, NEW r \in Request, Rollback(r)
  PROVE  GrantsInv'
<1>. USE GrantsAssumption DEF GrantsInv
<1>1. TypeOK'
  BY DEF TypeOK, Ask, Kind, Token, Deletion, rows, history, Rollback, Becomes,
     Unlocked, AppUnlocked
<1>2. RequestInv'
  BY DEF RequestInv, Presented, TypeOK, rows, Rollback, Becomes
<1>3. HeldInv'
  BY DEF HeldInv, Holding, Presented, Matches, TypeOK, rows, Rollback,
     Becomes, Unlocked
<1>4. UsesInv' /\ DroppedInv'
  BY DEF UsesInv, DroppedInv, Dead, rows, history, Rollback
<1>5. DeletionInv' /\ DeletedAppHasNoGrants'
  BY DEF DeletionInv, TypeOK, DeletedAppHasNoGrants, rows, Rollback, Becomes,
     Unlocked, AppUnlocked
<1>. QED
  BY <1>1, <1>2, <1>3, <1>4, <1>5

LEMMA ExpireStep ==
  ASSUME GrantsInv, NEW g \in Grant, Expire(g)
  PROVE  GrantsInv'
<1>. USE GrantsAssumption DEF GrantsInv
<1>1. TypeOK'
  <2>1. fresh' \in [Grant -> SUBSET Expiry]
    BY DEF Expire, TypeOK
  <2>. QED
    BY DEF Expire, TypeOK, history
<1>2. RequestInv'
  BY DEF RequestInv, Presented, Expire
<1>3. HeldInv'
  BY DEF HeldInv, Holding, Presented, Matches, Expire
<1>4. UsesInv' /\ DroppedInv'
  BY DEF UsesInv, DroppedInv, Dead, history, Expire
<1>5. DeletionInv' /\ DeletedAppHasNoGrants'
  BY DEF DeletionInv, DeletedAppHasNoGrants, Expire
<1>. QED
  BY <1>1, <1>2, <1>3, <1>4, <1>5

-----------------------------------------------------------------------------
(***************************************************************************)
(* The theorems.                                                           *)
(***************************************************************************)

LEMMA InitInv == Init => GrantsInv
<1>. SUFFICES ASSUME Init PROVE GrantsInv
  OBVIOUS
<1>1. TypeOK
  BY DEF Init, TypeOK, Token, Deletion, Ask, Kind
<1>2. RequestInv /\ HeldInv
  BY DEF Init, RequestInv, HeldInv, Holding
<1>3. UsesInv /\ DroppedInv
  <2>1. 0 \in Token
    BY DEF Token
  <2>. QED
    BY <2>1 DEF Init, UsesInv, DroppedInv
<1>4. DeletionInv /\ DeletedAppHasNoGrants
  BY DEF Init, DeletionInv, DeletedAppHasNoGrants
<1>. QED
  BY <1>1, <1>2, <1>3, <1>4 DEF GrantsInv

LEMMA NextInv == GrantsInv /\ [Next]_vars => GrantsInv'
<1>. SUFFICES ASSUME GrantsInv, [Next]_vars
              PROVE  GrantsInv'
  OBVIOUS
<1>1. ASSUME NEW r \in Request, Statement(r)
      PROVE  GrantsInv'
  BY <1>1, InsertCodeStep, SelectStep, LockGrantStep, RevokeStep, TouchStep,
     CommitPairStep, CommitAccessStep, CommitDeleteStep, DeleteGrantStep,
     DeleteAppRowStep DEF Statement
<1>2. CASE UNCHANGED vars
  BY <1>2
  DEF vars, rows, history, GrantsInv, TypeOK, RequestInv, HeldInv, Holding,
      Presented, Matches, UsesInv, DroppedInv, Dead, DeletionInv,
      DeletedAppHasNoGrants
<1>. QED
  BY <1>1, <1>2, RollbackStep, FailRevokeStep, DeleteAppStep, AuthorizeStep, PresentStep,
     SetEnabledStep, ExpireStep DEF Next

\* The invariant that all of the following rest on.
THEOREM GrantsInvariant == Spec => []GrantsInv
BY InitInv, NextInv, PTL DEF Spec

\* Every variable keeps its type; only transactions lock rows.
THEOREM GrantsTypeCorrect == Spec => []TypeOK
<1>1. GrantsInv => TypeOK
  BY DEF GrantsInv
<1>. QED
  BY <1>1, GrantsInvariant, PTL

\* An authorization code is redeemed, and a refresh token rotated, at most
\* once, however many requests present it at the same time
\* (RedeemOAuthCode, RefreshOAuthToken).
THEOREM TokensAreUsedOnce == Spec => []TokenUsedOnce
<1>1. GrantsInv => TokenUsedOnce
  BY DEF GrantsInv, UsesInv, TokenUsedOnce
<1>. QED
  BY <1>1, GrantsInvariant, PTL

\* No request is served on a token after its revocation was answered, unless
\* the revocation failed in the database (RevokeOAuthToken, handleOAuthRevoke).
THEOREM RevokedTokensAreDead == Spec => []DroppedIsDead
<1>1. ASSUME GrantsInv
      PROVE  DroppedIsDead
  <2>1. SUFFICES ASSUME NEW t \in dropped \ failed,
                        NEW kind \in {"redeem", "refresh", "access"},
                        NEW q,
                        q = [kind |-> kind, grant |-> t[1], token |-> t[2]],
                        WellFormed(q)
                 PROVE  ~Match(q)
    BY DEF DroppedIsDead
  <2>2. /\ t[1] \in Grant /\ t[2] \in Nat /\ pair[t[1]] \in Nat
        /\ Dead(t[1], t[2])
    BY <1>1, TokenType DEF GrantsInv, DroppedInv, TypeOK
  <2>. QED
    BY <2>1, <2>2 DEF WellFormed, Match, Dead
<1>. QED
  BY <1>1, GrantsInvariant, PTL

\* A revoked grant stays revoked and gets no new tokens, not even from a
\* request that found it valid before it was revoked.
THEOREM RevocationIsFinal == Spec => RevokedIsFinal
<1>1. ASSUME GrantsInv, Next, NEW g \in revoked
      PROVE  g \in revoked' /\ pair'[g] = pair[g]
  <2>1. ASSUME NEW r \in Request, Statement(r)
        PROVE  g \in revoked' /\ pair'[g] = pair[g]
    <3>1. CASE CommitPair(r)
      <4>1. g # req[r].grant
        BY <1>1, <3>1
        DEF GrantsInv, HeldInv, Holding, Matches, CommitPair, Becomes
      <4>. QED
        BY <3>1, <4>1 DEF CommitPair
    <3>2. CASE Revoke(r)
      BY <3>2 DEF Revoke
    <3>. QED
      BY <2>1, <3>1, <3>2
      DEF Statement, InsertCode, Select, LockGrant, Touch, CommitAccess,
          DeleteGrant, DeleteAppRow, CommitDelete, rows
  <2>. QED
    BY <1>1, <2>1
    DEF Next, FailRevoke, Rollback, DeleteApp, Authorize, Present, SetEnabled, Expire,
        rows
<1>2. GrantsInv /\ [Next]_vars
      => [\A g \in revoked : g \in revoked' /\ pair'[g] = pair[g]]_vars
  BY <1>1
<1>. QED
  BY <1>2, GrantsInvariant, PTL DEF Spec, RevokedIsFinal

\* Deleting a connected app leaves no grant behind, not even one whose code
\* was being inserted (DeleteConnectedApp, CreateOAuthCode).
THEOREM AppTakesItsGrants == Spec => []DeletedAppHasNoGrants
<1>1. GrantsInv => DeletedAppHasNoGrants
  BY DEF GrantsInv
<1>. QED
  BY <1>1, GrantsInvariant, PTL

==============================================================================
