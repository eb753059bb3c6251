------------------------------ MODULE Tenancy -------------------------------
(***************************************************************************)
(* The org-level API: projects (orgs.rs), created with an Idempotency-Key  *)
(* (idempotency.rs) and a default taxonomy (taxonomy.rs), and API tokens   *)
(* (tokens.rs), minted and revoked with an audit row (audit.rs).  Every    *)
(* request first has its opaque token checked (auth/security.rs) in a      *)
(* transaction of its own.                                                 *)
(*                                                                         *)
(* Requests of several clients interleave between statements.  PostgreSQL  *)
(* is external: READ COMMITTED, a statement waits for another transaction  *)
(* that has written its row or unique key, and a transaction that is not   *)
(* committed is rolled back.  Roles, scopes and paths decide between the   *)
(* handler's answer and a 403 and are not told apart further.              *)
(***************************************************************************)
EXTENDS Naturals, FiniteSets

CONSTANTS Client,
          IdemKey,     \* Idempotency-Keys that clients send
          NoKey,       \* no such header
          Body,        \* request bodies, told apart by their hash
          Token,       \* ids of API tokens
          Issued,      \* those that exist and are live to begin with
          MaxProjects, \* how many projects the org may get
          Expiries     \* how often an idempotency row may expire

ASSUME TenancyAssumption ==
    /\ NoKey \notin IdemKey
    /\ Issued \subseteq Token /\ Token # {} /\ Body # {}
    /\ MaxProjects \in Nat /\ Expiries \in Nat

VARIABLES
    projects, \* committed projects and whether each has its taxonomy
    stored,   \* idempotency_keys, by key: no row when of = 0
    tokens,   \* committed api_tokens
    audit,    \* audit_log: rows by token and operation
    req,      \* a client's request
    dead,     \* history: tokens of which a revoke was answered 204 or 404
    made,     \* history: projects committed with the key since its row last expired
    expired   \* history: how many rows have expired

vars == <<projects, stored, tokens, audit, req, dead, made, expired>>

Project == 1..MaxProjects
Operation == {"mint", "revoke"}
Phase == {"idle", "auth", "begin", "insert", "seed", "store", "audit",
          "commit", "answered"}
Op   == {"none", "create", "mint", "revoke", "read"}
Code == {0, 200, 201, 204, 400, 401, 403, 404, 409, 500}

(* of: the project that is being created, or was replayed.  seeded, keeps: *)
(* the transaction has written the taxonomy, the idempotency row.  barred  *)
(* (history): the request arrived when its token was known to be dead.     *)
(* code: the statuses this part of the API declares.                       *)
Request == [phase : Phase, op : Op, bearer : Token, key : IdemKey \cup {NoKey},
            body : Body, token : Token, of : 0..MaxProjects, seeded : BOOLEAN,
            keeps : BOOLEAN, barred : BOOLEAN, code : Code]
Stored == [of : 0..MaxProjects, body : Body, fresh : BOOLEAN]

TenancyTypeOK ==
    /\ projects \in [Project -> {"none", "bare", "seeded"}]
    /\ stored \in [IdemKey -> Stored]
    /\ tokens \in [Token -> {"none", "live", "revoked"}]
    /\ audit \in [Token -> [Operation -> Nat]]
    /\ req \in [Client -> Request]
    /\ dead \subseteq Token
    /\ made \in [IdemKey -> Nat]
    /\ expired \in 0..Expiries

Committed == <<projects, stored, tokens, audit>>
History   == <<dead, made, expired>>

At(phase, op, t, k, b, u) ==
    [phase |-> phase, op |-> op, bearer |-> t, key |-> k, body |-> b, token |-> u,
     of |-> 0, seeded |-> FALSE, keeps |-> FALSE, barred |-> FALSE, code |-> 0]
Nobody == At("idle", "none", CHOOSE t \in Token : TRUE, NoKey, CHOOSE b \in Body : TRUE,
             CHOOSE t \in Token : TRUE)

TenancyInit ==
    /\ projects = [p \in Project |-> "none"]
    /\ stored = [k \in IdemKey |-> [of |-> 0, body |-> CHOOSE b \in Body : TRUE, fresh |-> FALSE]]
    /\ tokens = [t \in Token |-> IF t \in Issued THEN "live" ELSE "none"]
    /\ audit = [t \in Token |-> [o \in Operation |-> 0]]
    /\ req = [c \in Client |-> Nobody]
    /\ dead = {}
    /\ made = [k \in IdemKey |-> 0]
    /\ expired = 0

-----------------------------------------------------------------------------
(* Dropping the handler's transaction rolls it back: nothing is committed. *)
Answer(c, code) ==
    /\ req' = [req EXCEPT ![c] =
                 [Nobody EXCEPT !.phase = "answered", !.code = code, !.barred = req[c].barred]]
    /\ UNCHANGED Committed

Goto(c, phase) == req' = [req EXCEPT ![c].phase = phase] /\ UNCHANGED Committed

Doing(c, op, phase) == req[c].op = op /\ req[c].phase = phase

(* Others whose open transaction has drawn p, written k's row, or revoked t.*)
Draws(p) == \E d \in Client : req[d].of = p
KeepsRow(k, c) == \E d \in Client \ {c} : req[d].key = k /\ req[d].keeps
Revoking(t, c) == \E d \in Client \ {c} :
    req[d].op = "revoke" /\ req[d].token = t /\ req[d].phase \in {"audit", "commit"}

(* What a client that was given t may ask for.                             *)
Asks(t) ==
    LET b == Nobody.body
        u == Nobody.token
    IN  {At("auth", "create", t, k, d, u) : k \in IdemKey, d \in Body}
        \cup {At("auth", op, t, NoKey, b, u) : op \in {"create", "read"}}
        \cup {At("auth", "mint", t, NoKey, b, v) : v \in Token \ Issued}
        \cup {At("auth", "revoke", t, NoKey, b, v) : v \in Token}

Arrive(c) ==
    /\ req[c].phase = "idle"
    /\ \E t \in Issued : \E r \in Asks(t) :
         req' = [req EXCEPT ![c] = [r EXCEPT !.barred = t \in dead]]
    /\ UNCHANGED <<Committed, History>>

\* Mutant: the row is read without its revoked_at.
AuthenticateAny(c) ==
    /\ req[c].phase = "auth"
    /\ IF tokens[req[c].bearer] # "none" THEN Goto(c, "begin") ELSE Answer(c, 401)
    /\ UNCHANGED History

(* verify_bearer: SELECT the token's row if it is live, in a transaction   *)
(* that ends before the handler's begins, and is not looked at again.  An  *)
(* error is a 401 as well.                                                 *)
Authenticate(c) ==
    /\ req[c].phase = "auth"
    /\ \/ /\ tokens[req[c].bearer] = "live"
          /\ req' = [req EXCEPT ![c].phase = "begin", ![c].bearer = Nobody.bearer]
          /\ UNCHANGED Committed
       \/ Answer(c, 401)
    /\ UNCHANGED History

-----------------------------------------------------------------------------
\* Mutant: another body under the key is a 422.
CheckKeyUnprocessable(c) ==
    LET r == req[c] IN
    /\ Doing(c, "create", "begin")
    /\ IF r.key # NoKey /\ stored[r.key].fresh
       THEN Answer(c, IF stored[r.key].body = r.body THEN 201 ELSE 422)
       ELSE Goto(c, "insert")
    /\ UNCHANGED History

(* idempotency::check, the transaction's first statement: a row that has   *)
(* not expired is replayed, or refused when the body is another one.       *)
CheckKey(c) ==
    LET r == req[c] IN
    /\ Doing(c, "create", "begin")
    /\ IF r.key # NoKey /\ stored[r.key].fresh
       THEN Answer(c, IF stored[r.key].body = r.body THEN 201 ELSE 409)
       ELSE Goto(c, "insert")
    /\ UNCHANGED History

(* INSERT under a random id.  The external_id may be taken: 409.           *)
InsertProject(c) ==
    /\ Doing(c, "create", "insert")
    /\ \/ \E p \in Project :
            /\ projects[p] = "none" /\ ~Draws(p)
            /\ req' = [req EXCEPT ![c].of = p, ![c].phase = "seed"]
            /\ UNCHANGED Committed
       \/ Answer(c, 409)
    /\ UNCHANGED History

\* Mutant: the project is committed first, the taxonomy after it.
SeedTaxonomyApart(c) ==
    /\ Doing(c, "create", "seed")
    /\ projects' = [projects EXCEPT ![req[c].of] = "bare"]
    /\ req' = [req EXCEPT ![c].seeded = TRUE,
                          ![c].phase = IF req[c].key = NoKey THEN "commit" ELSE "store"]
    /\ UNCHANGED <<stored, tokens, audit, History>>

(* set_config(project_id), and the channels, priorities and ad types.      *)
SeedTaxonomy(c) ==
    /\ Doing(c, "create", "seed")
    /\ req' = [req EXCEPT ![c].seeded = TRUE,
                          ![c].phase = IF req[c].key = NoKey THEN "commit" ELSE "store"]
    /\ UNCHANGED <<Committed, History>>

(* idempotency::store: INSERT ... ON CONFLICT DO NOTHING.  It waits for a  *)
(* transaction that holds the key; a row that is there, expired or just    *)
(* committed, is left as it is.                                            *)
StoreKey(c) ==
    /\ Doing(c, "create", "store")
    /\ ~KeepsRow(req[c].key, c)
    /\ req' = [req EXCEPT ![c].keeps = stored[req[c].key].of = 0, ![c].phase = "commit"]
    /\ UNCHANGED <<Committed, History>>

-----------------------------------------------------------------------------
(* create_token: the checks of the body, an INSERT under a random id.      *)
MintToken(c) ==
    LET u == req[c].token IN
    /\ Doing(c, "mint", "begin")
    /\ \/ /\ tokens[u] = "none"
          /\ \A d \in Client \ {c} : ~(req[d].op = "mint" /\ req[d].token = u)
          /\ Goto(c, "audit")
       \/ Answer(c, 400)
    /\ UNCHANGED History

\* Mutant: a token that was revoked already is revoked again.
RevokeTokenAgain(c) ==
    LET u == req[c].token IN
    /\ Doing(c, "revoke", "begin")
    /\ ~Revoking(u, c)
    /\ IF tokens[u] # "none" THEN Goto(c, "audit") ELSE Answer(c, 404)
    /\ dead' = IF tokens[u] # "none" THEN dead ELSE dead \cup {u}
    /\ UNCHANGED <<made, expired>>

(* revoke_token: UPDATE ... WHERE id = $1 AND revoked_at IS NULL.  It waits*)
(* for another revocation of the token and looks at the row again.         *)
RevokeToken(c) ==
    LET u == req[c].token IN
    /\ Doing(c, "revoke", "begin")
    /\ ~Revoking(u, c)
    /\ IF tokens[u] = "live"
       THEN Goto(c, "audit") /\ UNCHANGED dead
       ELSE Answer(c, 404) /\ dead' = IF tokens[u] = "revoked" THEN dead \cup {u} ELSE dead
    /\ UNCHANGED <<made, expired>>

(* audit::emit, in the same transaction.                                   *)
EmitAudit(c) ==
    /\ req[c].phase = "audit" /\ Goto(c, "commit")
    /\ UNCHANGED History

-----------------------------------------------------------------------------
(* What c's transaction has written becomes visible, all at once.          *)
Commit(c) ==
    LET r == req[c] IN
    /\ projects' = IF r.op # "create" THEN projects ELSE
         [projects EXCEPT ![r.of] = IF r.seeded THEN "seeded" ELSE "bare"]
    /\ stored' = IF ~r.keeps THEN stored ELSE
         [stored EXCEPT ![r.key] = [of |-> r.of, body |-> r.body, fresh |-> TRUE]]
    /\ tokens' = IF r.op = "create" THEN tokens ELSE
         [tokens EXCEPT ![r.token] = IF r.op = "mint" THEN "live" ELSE "revoked"]
    /\ audit' = IF r.op = "create" THEN audit ELSE
         [audit EXCEPT ![r.token][r.op] = @ + 1]
    /\ made' = IF r.op # "create" \/ r.key = NoKey THEN made ELSE
         [made EXCEPT ![r.key] = @ + 1]
    /\ UNCHANGED expired

Told(c, code) ==
    req' = [req EXCEPT ![c] =
              [Nobody EXCEPT !.phase = "answered", !.code = code, !.barred = req[c].barred]]

Finish(c) ==
    /\ req[c].phase = "commit"
    /\ Commit(c)
    /\ Told(c, IF req[c].op = "revoke" THEN 204 ELSE 201)
    /\ dead' = IF req[c].op = "revoke" THEN dead \cup {req[c].token} ELSE dead

(* COMMIT fails, before or after the server has committed: 500.            *)
CommitFails(c) ==
    /\ req[c].phase = "commit"
    /\ Commit(c) \/ UNCHANGED <<Committed, made, expired>>
    /\ Told(c, 500) /\ UNCHANGED dead

(* Refused for the tenant, the scope or the role; or a statement fails.    *)
Refuse(c) == req[c].phase = "begin" /\ Answer(c, 403) /\ UNCHANGED History
Fault(c) ==
    /\ req[c].phase \in {"begin", "insert", "seed", "store", "audit"}
    /\ Answer(c, 500) /\ UNCHANGED History

(* The client goes away and the handler's future with it.                  *)
HangUp(c) ==
    /\ req[c].phase \notin {"idle", "answered"}
    /\ \/ req[c].phase = "commit" /\ Commit(c)
       \/ UNCHANGED <<Committed, made, expired>>
    /\ req' = [req EXCEPT ![c] = Nobody] /\ UNCHANGED dead

Leave(c) ==
    /\ req[c].phase = "answered"
    /\ req' = [req EXCEPT ![c] = Nobody]
    /\ UNCHANGED <<Committed, History>>

(* Reads are one statement of their own transaction.                       *)
Read(c, codes) == Doing(c, "read", "begin") /\ (\E code \in codes : Answer(c, code)) /\ UNCHANGED History
Named(p) == IF projects[p] = "none" THEN 404 ELSE 200

GetProject(c)   == Read(c, {Named(p) : p \in Project})
ListProjects(c) == Read(c, {200})
GetOrg(c)       == Read(c, {200})
ListTokens(c)   == Read(c, {200})

(* Under a project, which must be there; by id, a row that may not be.     *)
InProject(c, codes) ==
    \/ (\E p \in Project : projects[p] # "none") /\ Read(c, codes)
    \/ (\E p \in Project : projects[p] = "none") /\ Read(c, {403})
ListChannels(c)   == InProject(c, {200})
ListPriorities(c) == InProject(c, {200})
ListAdTypes(c)    == InProject(c, {200})
GetChannel(c)     == InProject(c, {200, 404})
GetPriority(c)    == InProject(c, {200, 404})
GetAdType(c)      == InProject(c, {200, 404})

(* 24 hours have passed.  The row stays: nothing deletes it.               *)
Expire(k) ==
    /\ stored[k].fresh /\ expired < Expiries
    /\ stored' = [stored EXCEPT ![k].fresh = FALSE]
    /\ made' = [made EXCEPT ![k] = 0]
    /\ expired' = expired + 1
    /\ UNCHANGED <<projects, tokens, audit, req, dead>>

CreateProject(c) == CheckKey(c) \/ InsertProject(c) \/ SeedTaxonomy(c) \/ StoreKey(c)

Reads(c) ==
    \/ GetProject(c) \/ ListProjects(c) \/ GetOrg(c) \/ ListTokens(c)
    \/ ListChannels(c) \/ ListPriorities(c) \/ ListAdTypes(c)
    \/ GetChannel(c) \/ GetPriority(c) \/ GetAdType(c)

TenancyNext ==
    \/ \E c \in Client :
         \/ Arrive(c) \/ Authenticate(c) \/ Refuse(c) \/ CreateProject(c)
         \/ MintToken(c) \/ RevokeToken(c) \/ EmitAudit(c) \/ Reads(c)
         \/ Finish(c) \/ CommitFails(c) \/ Fault(c) \/ HangUp(c) \/ Leave(c)
    \/ \E k \in IdemKey : Expire(k)

TenancySpec == TenancyInit /\ [][TenancyNext]_vars

-----------------------------------------------------------------------------
(* Once an admin has been told that a token is revoked (204, or 404 from a *)
(* revoke that found it so), no request that arrives with it is served,    *)
(* whatever revocations and commits were under way meanwhile.              *)
RevokedStaysOut == \A c \in Client :
    req[c].barred => \/ req[c].phase \in {"idle", "auth"}
                     \/ req[c].phase = "answered" /\ req[c].code = 401

(* The audit log and the tokens agree: a committed mint or revocation has  *)
(* its one row, and there is no row of a mutation that did not happen,     *)
(* although two admins may revoke one token at once, a commit may fail and *)
(* a client may hang up between the two statements.                        *)
MutationsAudited == \A t \in Token :
    /\ audit[t]["revoke"] = IF tokens[t] = "revoked" THEN 1 ELSE 0
    /\ audit[t]["mint"] = IF tokens[t] # "none" /\ t \notin Issued THEN 1 ELSE 0

(* A committed project has its default taxonomy, and a stored response is  *)
(* that of a committed project, of one only: a replay never names a project*)
(* that was rolled back.                                                   *)
ProjectsWhole ==
    /\ \A p \in Project : projects[p] # "bare"
    /\ \A k \in IdemKey : stored[k].of # 0 => projects[stored[k].of] = "seeded"
    /\ \A k, l \in IdemKey : stored[k].of = stored[l].of => k = l \/ stored[k].of = 0

(* Within its 24 hours an Idempotency-Key creates one project, as API.md   *)
(* promises (replay-safe within 24 h): not so when two requests with the   *)
(* key are under way at once, since check sees no row yet for either and   *)
(* store leaves the other's row alone.                                     *)
KeyCreatesOne == \A k \in IdemKey : made[k] <= 1

=============================================================================
