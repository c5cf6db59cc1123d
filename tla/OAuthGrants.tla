----------------------------- MODULE OAuthGrants -----------------------------
(***************************************************************************)
(* The OAuth grants of one connected app: authorization codes, refresh     *)
(* token rotation, revocation and the deletion of the app                  *)
(* (backend/internal/api/oauth.go, store/postgres_oauth.go), as concurrent *)
(* PostgreSQL transactions at READ COMMITTED.                              *)
(*                                                                         *)
(* A statement that updates or locks a row first finds it in a snapshot,   *)
(* then waits for the row lock and checks its condition again on the row   *)
(* as it is by then: two steps here.  A write is seen by others when its   *)
(* transaction commits.                                                    *)
(*                                                                         *)
(* The tokens of grant g are numbered: 0 is its authorization code, k > 0  *)
(* the k-th pair of access and refresh token.  Tokens are random, so no    *)
(* two are equal; clients present tokens that were issued.                 *)
(***************************************************************************)
EXTENDS Naturals

CONSTANTS
  Grant,      \* ids of the grants (rows of oauth_grant)
  Request,    \* the requests the API serves at the same time
  None,
  MaxPair,    \* MaxPair[g]: bound on the token pairs issued for g
  Expires,    \* the grants whose code and tokens expire
  Failing     \* the grants of which a revocation may fail in the database

ASSUME GrantsAssumption ==
  /\ None \notin Request \cup Grant
  /\ MaxPair \in [Grant -> Nat]
  /\ Expires \subseteq Grant

ASSUME FailingAssumption == Failing \subseteq Grant

VARIABLES
  app,       \* the row of the connected app: "enabled", "disabled", "deleted"
  grants,    \* the committed rows of oauth_grant
  created,   \* the ids ever inserted
  code,      \* code[g]: the code is still in the row
  pair,      \* pair[g]: the number of the token pair in the row, 0 for none
  fresh,     \* fresh[g]: which of code, access and refresh have not expired;
             \* all of them while there is no row
  revoked,   \* the grants with a revoked_at
  lock,      \* lock[g]: the request whose transaction has locked the row
  appLock,   \* the request whose transaction has locked the app's row
  pc,        \* pc[r]: the next statement of r
  req,       \* req[r]: what r asks for: [kind, grant, token]
  toDelete,  \* toDelete[r]: grants that r, deleting the app, has yet to lock
  uses,      \* uses[g][k]: how often token k of g was exchanged for a pair
  dropped,   \* tokens for which a revocation was answered: <<g, k>>
  failed     \* those of them of which every revocation failed in the database

rows == <<grants, created, code, pair, fresh, revoked>>
history == <<uses, dropped, failed>>
vars == <<app, rows, lock, appLock, pc, req, toDelete, history>>

Token == {0} \cup UNION {0 .. MaxPair[g] : g \in Grant}
Kind == {"authorize", "redeem", "refresh", "access", "revoke", "delete"}
Ask == [kind : Kind, grant : Grant \cup {None}, token : Token]
Deletion == [kind |-> "delete", grant |-> None, token |-> 0]
Expiry == {"code", "access", "refresh"}

\* r begins with statement "at"; what an idle request asked for is forgotten.
Begins(r, at, q) ==
  /\ pc[r] = "idle"
  /\ pc' = [pc EXCEPT ![r] = at]
  /\ req' = [req EXCEPT ![r] = q]

Becomes(r, from, to) ==
  /\ pc[r] = from
  /\ pc' = [pc EXCEPT ![r] = to]
  /\ req' = IF to = "idle" THEN [req EXCEPT ![r] = Deletion] ELSE req

\* Mutant: a revocation looks at the access and refresh tokens only.
HoldsPair(q) == q.token > 0 /\ pair[q.grant] = q.token

\* One of the three hashes in the row is that of the token.
Holds(q) == IF q.token = 0 THEN code[q.grant] ELSE pair[q.grant] = q.token

\* The WHERE clause of the statement by which r finds its grant.
Match(q) ==
  LET g == q.grant
  IN  /\ g \in grants
      /\ \/ /\ q.kind = "redeem"
            /\ code[g] /\ "code" \in fresh[g] /\ g \notin revoked
         \/ /\ q.kind = "refresh"
            /\ pair[g] = q.token /\ "refresh" \in fresh[g] /\ g \notin revoked
         \/ /\ q.kind = "access"
            /\ pair[g] = q.token /\ "access" \in fresh[g] /\ g \notin revoked
         \/ /\ q.kind = "revoke"
            /\ Holds(q)

\* Redeeming takes a code, refreshing and access a token of a pair.
WellFormed(q) ==
  /\ q.kind = "redeem" => q.token = 0
  /\ q.kind \in {"refresh", "access"} => q.token > 0

-----------------------------------------------------------------------------
Init ==
  /\ app = "enabled"
  /\ grants = {}
  /\ created = {}
  /\ code = [g \in Grant |-> TRUE]
  /\ pair = [g \in Grant |-> 0]
  /\ fresh = [g \in Grant |-> Expiry]
  /\ revoked = {}
  /\ lock = [g \in Grant |-> None]
  /\ appLock = None
  /\ pc = [r \in Request |-> "idle"]
  /\ req = [r \in Request |-> Deletion]
  /\ toDelete = [r \in Request |-> {}]
  /\ uses = [g \in Grant |-> [k \in Token |-> 0]]
  /\ dropped = {}
  /\ failed = {}

\* /oauth/authorize: the app is enabled and the user approves; the code is
\* inserted by a later statement.
Authorize(r, g) ==
  /\ app = "enabled"
  /\ g \notin created
  /\ \A s \in Request : pc[s] = "insert" => req[s].grant # g
  /\ Begins(r, "insert", [kind |-> "authorize", grant |-> g, token |-> 0])
  /\ UNCHANGED <<app, rows, lock, appLock, toDelete, history>>

\* Mutant: oauth_grant has no foreign key.
InsertCodeUnchecked(r) ==
  /\ Becomes(r, "insert", "idle")
  /\ grants' = grants \cup {req[r].grant}
  /\ created' = created \cup {req[r].grant}
  /\ UNCHANGED <<app, code, pair, fresh, revoked, lock, appLock, toDelete,
                 history>>

\* CreateOAuthCode: the foreign key takes a KEY SHARE lock on the app's row,
\* which waits for a transaction that deletes it, and fails after that.
InsertCode(r) ==
  LET g == req[r].grant
  IN  /\ Becomes(r, "insert", "idle")
      /\ appLock # None => req[appLock].kind # "delete"
      /\ IF app = "deleted"
         THEN UNCHANGED <<grants, created>>
         ELSE /\ grants' = grants \cup {g}
              /\ created' = created \cup {g}
      /\ UNCHANGED <<app, code, pair, fresh, revoked, lock, appLock,
                     toDelete, history>>

\* /oauth/token, /oauth/revoke: the client is authenticated, its app is
\* enabled; an MCP request presents an access token and is not.
Present(r, q) ==
  /\ q.kind \notin {"authorize", "delete"}
  /\ q.grant \in created
  /\ q.token <= pair[q.grant]
  /\ q.kind \in {"redeem", "refresh"} => pair[q.grant] < MaxPair[q.grant]
  /\ WellFormed(q)
  /\ q.kind \in {"redeem", "refresh", "revoke"} => app = "enabled"
  /\ Begins(r, "select", q)
  /\ UNCHANGED <<app, rows, lock, appLock, toDelete, history>>

\* A revocation is answered with "revoked": true whether or not it found a
\* row.
Answered(q) ==
  LET t == <<q.grant, q.token>>
  IN  /\ dropped' = IF q.kind = "revoke" THEN dropped \cup {t} ELSE dropped
      /\ failed' = IF q.kind = "revoke" THEN failed \ {t} ELSE failed

\* The snapshot of the statement; the app's row is not looked at again.
Select(r) ==
  /\ pc[r] = "select"
  /\ IF Match(req[r]) /\ (req[r].kind = "revoke" \/ app = "enabled")
     THEN /\ Becomes(r, "select", "wait")
          /\ UNCHANGED <<dropped, failed>>
     ELSE /\ Becomes(r, "select", "idle")
          /\ Answered(req[r])
  /\ UNCHANGED <<app, rows, lock, appLock, toDelete, uses>>

\* Mutant: the row is locked but its condition is not checked again.
LockGrantUnchecked(r) ==
  LET g == req[r].grant
  IN  /\ req[r].kind # "revoke"
      /\ Becomes(r, "wait", "touch")
      /\ lock[g] = None
      /\ lock' = [lock EXCEPT ![g] = r]
      /\ UNCHANGED <<app, rows, appLock, toDelete, history>>

\* FOR UPDATE OF g: the row is free, and locked if it still matches.
LockGrant(r) ==
  LET q == req[r]
  IN  /\ pc[r] = "wait"
      /\ q.kind # "revoke"
      /\ lock[q.grant] = None
      /\ IF Match(q)
         THEN /\ Becomes(r, "wait", "touch")
              /\ lock' = [lock EXCEPT ![q.grant] = r]
         ELSE /\ Becomes(r, "wait", "idle")
              /\ UNCHANGED lock
      /\ UNCHANGED <<app, rows, appLock, toDelete, history>>

\* Mutant: the revocation does not wait for the row.
RevokeUnlocked(r) ==
  LET q == req[r]
  IN  /\ q.kind = "revoke"
      /\ Becomes(r, "wait", "idle")
      /\ revoked' = revoked \cup {q.grant}
      /\ Answered(q)
      /\ UNCHANGED <<app, grants, created, code, pair, fresh, lock, appLock,
                     toDelete, uses>>

\* RevokeOAuthToken, one UPDATE of its own.
Revoke(r) ==
  LET q == req[r]
  IN  /\ q.kind = "revoke"
      /\ Becomes(r, "wait", "idle")
      /\ lock[q.grant] = None
      /\ revoked' = IF Match(q) THEN revoked \cup {q.grant} ELSE revoked
      /\ Answered(q)
      /\ UNCHANGED <<app, grants, created, code, pair, fresh, lock, appLock,
                     toDelete, uses>>

\* The UPDATE of a revocation fails, and nothing is written: RevokeOAuthToken
\* returns false, which nobody looks at, and "revoked": true is answered.
FailRevoke(r) ==
  LET t == <<req[r].grant, req[r].token>>
  IN  /\ req[r].kind = "revoke" /\ req[r].grant \in Failing
      /\ \/ Becomes(r, "select", "idle")
         \/ Becomes(r, "wait", "idle")
      /\ dropped' = dropped \cup {t}
      /\ failed' = IF t \in dropped THEN failed ELSE failed \cup {t}
      /\ UNCHANGED <<app, rows, lock, appLock, toDelete, uses>>

\* UPDATE connected_app SET last_used_at: waits for the lock of the row.
Touch(r) ==
  /\ appLock = None
  /\ Becomes(r, "touch", "commit")
  /\ appLock' = IF app = "deleted" THEN None ELSE r
  /\ UNCHANGED <<app, rows, lock, toDelete, history>>

Unlocked(r) == [g \in Grant |-> IF lock[g] = r THEN None ELSE lock[g]]

AppUnlocked(r) == IF appLock = r THEN None ELSE appLock

\* Commit of RedeemOAuthCode and RefreshOAuthToken: the row holds a new pair,
\* and no code, so that the expiry it keeps of the code means nothing.
CommitPair(r) ==
  LET g == req[r].grant
  IN  /\ req[r].kind \in {"redeem", "refresh"}
      /\ Becomes(r, "commit", "idle")
      /\ code' = [code EXCEPT ![g] = FALSE]
      /\ pair' = [pair EXCEPT ![g] = @ + 1]
      /\ fresh' = [fresh EXCEPT ![g] = {"access", "refresh"}]
      /\ uses' = [uses EXCEPT ![g][req[r].token] = @ + 1]
      /\ lock' = Unlocked(r)
      /\ appLock' = AppUnlocked(r)
      /\ UNCHANGED <<app, grants, created, revoked, toDelete, dropped,
                     failed>>

\* Mutant: the transaction stays open.
CommitAccessOpen(r) ==
  /\ req[r].kind = "access"
  /\ Becomes(r, "commit", "idle")
  /\ UNCHANGED <<app, rows, lock, appLock, toDelete, history>>

\* Commit of UserByOAuthAccessToken: the request is served.
CommitAccess(r) ==
  /\ req[r].kind = "access"
  /\ Becomes(r, "commit", "idle")
  /\ lock' = Unlocked(r)
  /\ appLock' = AppUnlocked(r)
  /\ UNCHANGED <<app, rows, toDelete, history>>

\* DeleteConnectedApp: DELETE FROM oauth_grant finds the grants of the app ...
DeleteApp(r) ==
  /\ app # "deleted"
  /\ Begins(r, "drain", Deletion)
  /\ toDelete' = [toDelete EXCEPT ![r] = grants]
  /\ UNCHANGED <<app, rows, lock, appLock, history>>

\* ... locks them one by one, waiting for those in use ...
DeleteGrant(r, g) ==
  /\ pc[r] = "drain"
  /\ g \in toDelete[r]
  /\ lock[g] = None
  /\ lock' = IF g \in grants THEN [lock EXCEPT ![g] = r] ELSE lock
  /\ toDelete' = [toDelete EXCEPT ![r] = @ \ {g}]
  /\ UNCHANGED <<app, rows, appLock, pc, req, history>>

\* Mutant: a deletion that fails keeps its transaction open.
DeleteAppRowOpen(r) ==
  /\ toDelete[r] = {}
  /\ appLock = None
  /\ IF app # "deleted" /\ \A g \in grants : lock[g] = r
     THEN Becomes(r, "drain", "commit") /\ appLock' = r
     ELSE Becomes(r, "drain", "idle") /\ UNCHANGED appLock
  /\ UNCHANGED <<app, rows, lock, toDelete, history>>

\* ... and then DELETE FROM connected_app: not found if another request has
\* deleted it, a foreign key violation if a grant was inserted meanwhile.
DeleteAppRow(r) ==
  /\ toDelete[r] = {}
  /\ appLock = None
  /\ IF app # "deleted" /\ \A g \in grants : lock[g] = r
     THEN /\ Becomes(r, "drain", "commit")
          /\ appLock' = r
          /\ UNCHANGED lock
     ELSE /\ Becomes(r, "drain", "idle")
          /\ lock' = Unlocked(r)
          /\ UNCHANGED appLock
  /\ UNCHANGED <<app, rows, toDelete, history>>

CommitDelete(r) ==
  /\ req[r].kind = "delete"
  /\ Becomes(r, "commit", "idle")
  /\ app' = "deleted"
  /\ grants' = {g \in grants : lock[g] # r}
  /\ fresh' = [g \in Grant |-> IF g \in grants' THEN fresh[g] ELSE Expiry]
  /\ lock' = Unlocked(r)
  /\ appLock' = AppUnlocked(r)
  /\ UNCHANGED <<created, code, pair, revoked, toDelete, history>>

\* UpdateConnectedApp sets enabled from the request, whatever it was.
SetEnabled(b) ==
  /\ app # "deleted"
  /\ appLock = None
  /\ app' = b
  /\ UNCHANGED <<rows, lock, appLock, pc, req, toDelete, history>>

\* The process dies, the connection is lost or a statement fails: the
\* transaction is rolled back, and no token is issued, used or revoked.
Rollback(r) ==
  /\ pc[r] # "idle"
  /\ Becomes(r, pc[r], "idle")
  /\ lock' = Unlocked(r)
  /\ appLock' = AppUnlocked(r)
  /\ toDelete' = [toDelete EXCEPT ![r] = {}]
  /\ UNCHANGED <<app, rows, history>>

\* Time passes; the code of a grant expires before its first access token,
\* an access token before the refresh token issued with it.
Expire(g) ==
  /\ g \in Expires
  /\ g \in grants
  /\ \/ "code" \in fresh[g] /\ fresh' = [fresh EXCEPT ![g] = @ \ {"code"}]
     \/ /\ ~code[g]
        /\ \/ /\ "access" \in fresh[g]
              /\ fresh' = [fresh EXCEPT ![g] = @ \ {"access"}]
           \/ /\ "access" \notin fresh[g]
              /\ fresh' = [fresh EXCEPT ![g] = @ \ {"refresh"}]
  /\ UNCHANGED <<app, grants, created, code, pair, revoked, lock, appLock, pc,
                 req, toDelete, history>>

\* The next statement of the request r.
Statement(r) ==
  \/ InsertCode(r) \/ Select(r) \/ LockGrant(r) \/ Revoke(r) \/ Touch(r)
  \/ CommitPair(r) \/ CommitAccess(r) \/ CommitDelete(r)
  \/ \E g \in Grant : DeleteGrant(r, g)
  \/ DeleteAppRow(r)

Next ==
  \/ \E r \in Request :
       \/ Statement(r) \/ FailRevoke(r) \/ Rollback(r) \/ DeleteApp(r)
       \/ \E g \in Grant : Authorize(r, g)
       \/ \E q \in Ask : Present(r, q)
  \/ \E b \in {"enabled", "disabled"} : SetEnabled(b)
  \/ \E g \in Grant : Expire(g)

Spec == Init /\ [][Next]_vars

\* r deletes the app and waits only for rows that other deletions hold.
Deadlocked(r) ==
  /\ pc[r] = "drain"
  /\ toDelete[r] # {}
  /\ \A g \in toDelete[r] : lock[g] # None /\ pc[lock[g]] = "drain"

\* PostgreSQL runs the statements it is given, hands a lock to the statements
\* that queue for it (strong fairness), and ends a deadlock by rolling
\* one of the transactions back.
FairSpec ==
  /\ Spec
  /\ \A r \in Request : /\ SF_vars(Statement(r))
                         /\ WF_vars(Deadlocked(r) /\ Rollback(r))

-----------------------------------------------------------------------------
TypeOK ==
  /\ app \in {"enabled", "disabled", "deleted"}
  /\ grants \subseteq created
  /\ created \subseteq Grant
  /\ code \in [Grant -> BOOLEAN]
  /\ pair \in [Grant -> Token]
  /\ fresh \in [Grant -> SUBSET Expiry]
  /\ revoked \subseteq created
  /\ lock \in [Grant -> Request \cup {None}]
  /\ \A g \in Grant :
       lock[g] # None => pc[lock[g]] \in {"touch", "drain", "commit"}
  /\ appLock \in Request \cup {None}
  /\ pc \in [Request -> {"idle", "insert", "select", "wait", "touch", "drain",
                         "commit"}]
  /\ req \in [Request -> Ask]
  /\ toDelete \in [Request -> SUBSET Grant]
  /\ uses \in [Grant -> [Token -> Nat]]
  /\ dropped \subseteq Grant \X Token
  /\ failed \subseteq dropped

\* An authorization code is redeemed, and a refresh token rotated, at most
\* once, however many requests present it at the same time.
TokenUsedOnce == \A g \in Grant, k \in Token : uses[g][k] <= 1

\* Once a revocation of a token was answered, no later request is served on
\* it: either its grant is revoked, or the token had been exchanged.  Only a
\* token whose revocations all failed in the database, and were answered like
\* any other, may still be good.
DroppedIsDead ==
  \A t \in dropped \ failed, kind \in {"redeem", "refresh", "access"} :
    LET q == [kind |-> kind, grant |-> t[1], token |-> t[2]]
    IN  WellFormed(q) => ~Match(q)

\* A revoked grant stays revoked and gets no new tokens, not even from a
\* request that found it valid before it was revoked.
RevokedIsFinal ==
  [][\A g \in revoked : g \in revoked' /\ pair'[g] = pair[g]]_vars

\* Deleting the app leaves no grant behind, not even one whose code was being
\* inserted.
DeletedAppHasNoGrants == app = "deleted" => grants = {}

\* Every request is answered: transactions never wait on each other for ever.
RequestEnds == \A r \in Request : pc[r] # "idle" ~> pc[r] = "idle"

=============================================================================
