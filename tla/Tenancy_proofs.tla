--------------------------- MODULE Tenancy_proofs ---------------------------
(***************************************************************************)
(* Proofs about the org-level API, for any number of clients, keys, tokens *)
(* and projects.  The properties speak of committed rows; what makes them  *)
(* inductive is what an open transaction may rely on until it commits: the *)
(* row it is about is still as it found it (Sound), because no other open  *)
(* transaction is about that row (Apart).                                  *)
(***************************************************************************)
EXTENDS Tenancy, TLAPS

\* The transaction has changed a token: it stands before or at its commit.
Changing(r, op) == r.op = op /\ r.phase \in {"audit", "commit"}

\* Where a request stands fits what it does.
InPlace(r) ==
    /\ r.phase \in {"insert", "seed", "store"} => r.op = "create"
    /\ r.phase = "audit" => r.op \in {"mint", "revoke"}
    /\ r.phase = "commit" => r.op \in {"create", "mint", "revoke"}
    /\ r.op = "mint" => r.token \notin Issued
    /\ r.phase = "store" => r.key \in IdemKey

\* What a creation has drawn and written is still nobody's.
SoundCreate(r) ==
    /\ r.of # 0 <=> r.op = "create" /\ r.phase \in {"seed", "store", "commit"}
    /\ r.of # 0 => projects[r.of] = "none"
    /\ r.op = "create" /\ r.phase \in {"store", "commit"} => r.seeded
    /\ r.keeps => /\ r.op = "create" /\ r.phase = "commit"
                  /\ r.key \in IdemKey /\ stored[r.key].of = 0

\* A token that is being changed is as the transaction found it.
SoundToken(r) ==
    /\ Changing(r, "mint") => tokens[r.token] = "none"
    /\ Changing(r, "revoke") => tokens[r.token] = "live"

\* A request that came with a dead token gets no further than its check.
SoundBearer(r) ==
    r.barred => \/ r.phase = "auth" /\ r.bearer \in dead
                \/ r.phase = "answered" /\ r.code = 401

Sound(r) == InPlace(r) /\ SoundCreate(r) /\ SoundToken(r) /\ SoundBearer(r)

\* Two requests under way are about different rows.
Apart(r, s) ==
    /\ r.of # 0 => r.of # s.of
    /\ r.keeps /\ s.keeps => r.key # s.key
    /\ Changing(r, "mint") /\ Changing(s, "mint") => r.token # s.token
    /\ Changing(r, "revoke") /\ Changing(s, "revoke") => r.token # s.token

DeadRevoked == \A t \in dead : tokens[t] = "revoked"
IssuedThere == \A t \in Issued : tokens[t] # "none"

TenancyInv ==
    /\ TenancyTypeOK
    /\ \A c \in Client : Sound(req[c])
    /\ \A c, d \in Client : c # d => Apart(req[c], req[d])
    /\ DeadRevoked /\ IssuedThere
    /\ MutationsAudited /\ ProjectsWhole

-----------------------------------------------------------------------------
(* Types.                                                                  *)

LEMMA Somebody ==
  /\ (CHOOSE t \in Token : TRUE) \in Token
  /\ (CHOOSE b \in Body : TRUE) \in Body
  BY TenancyAssumption

LEMMA AtType ==
  ASSUME NEW phase \in Phase, NEW op \in Op, NEW t \in Token,
         NEW k \in IdemKey \cup {NoKey}, NEW b \in Body, NEW u \in Token
  PROVE  /\ At(phase, op, t, k, b, u) \in Request
         /\ At(phase, op, t, k, b, u).phase = phase
         /\ At(phase, op, t, k, b, u).op = op
         /\ At(phase, op, t, k, b, u).bearer = t
         /\ At(phase, op, t, k, b, u).token = u
         /\ At(phase, op, t, k, b, u).of = 0
         /\ At(phase, op, t, k, b, u).keeps = FALSE
         /\ At(phase, op, t, k, b, u).barred = FALSE
<1>1. 0 \in 0..MaxProjects /\ 0 \in Code /\ FALSE \in BOOLEAN
  BY TenancyAssumption DEF Code
<1> QED
  BY <1>1 DEF At, Request

LEMMA NobodyType ==
  /\ Nobody \in Request
  /\ Nobody.phase = "idle" /\ Nobody.op = "none"
  /\ Nobody.bearer \in Token /\ Nobody.body \in Body /\ Nobody.token \in Token
  /\ Nobody.of = 0 /\ Nobody.keeps = FALSE /\ Nobody.barred = FALSE
<1>1. "idle" \in Phase /\ "none" \in Op
  BY DEF Phase, Op
<1>2. PICK t \in Token, b \in Body : Nobody = At("idle", "none", t, NoKey, b, t)
  BY Somebody, Zenon DEF Nobody
<1>3. Nobody \in Request /\ Nobody.phase = "idle" /\ Nobody.op = "none"
      /\ Nobody.of = 0 /\ Nobody.keeps = FALSE /\ Nobody.barred = FALSE
  <2>1. 0 \in 0..MaxProjects /\ 0 \in Code
    BY TenancyAssumption DEF Code
  <2> QED
    BY <1>1, <1>2, <2>1 DEF At, Request
<1> QED
  BY <1>3 DEF Request

LEMMA Fields ==
  ASSUME NEW r \in Request
  PROVE  /\ r.phase \in Phase /\ r.op \in Op /\ r.bearer \in Token
         /\ r.key \in IdemKey \cup {NoKey} /\ r.body \in Body /\ r.token \in Token
         /\ r.of \in 0..MaxProjects /\ r.seeded \in BOOLEAN /\ r.keeps \in BOOLEAN
         /\ r.barred \in BOOLEAN /\ r.code \in Code
  BY DEF Request

(* A request that has been answered, or is not there, holds nothing.       *)
Holds(r) == r.op # "none" \/ r.of # 0 \/ r.keeps

LEMMA EmptyApart ==
  ASSUME NEW r, NEW s, ~Holds(r)
  PROVE  Apart(r, s) /\ (s.of # 0 => Apart(s, r)) /\ (s.of = 0 => Apart(s, r))
  BY DEF Holds, Apart, Changing

Answered(code, barred) ==
    [Nobody EXCEPT !.phase = "answered", !.code = code, !.barred = barred]

LEMMA AnsweredType ==
  ASSUME NEW code \in Code, NEW barred \in BOOLEAN
  PROVE  /\ Answered(code, barred) \in Request /\ ~Holds(Answered(code, barred))
         /\ Answered(code, barred).phase = "answered"
         /\ Answered(code, barred).barred = barred
         /\ Answered(code, barred).code = code
<1>1. "answered" \in Phase
  BY DEF Phase
<1>2. Answered(code, barred) \in Request
  BY <1>1, NobodyType DEF Request, Answered
<1>3. /\ Answered(code, barred).phase = "answered"
      /\ Answered(code, barred).op = Nobody.op /\ Answered(code, barred).of = Nobody.of
      /\ Answered(code, barred).keeps = Nobody.keeps
      /\ Answered(code, barred).barred = barred /\ Answered(code, barred).code = code
  BY NobodyType DEF Request, Answered
<1> QED
  BY <1>2, <1>3, NobodyType DEF Holds

-----------------------------------------------------------------------------
(* The initial state.                                                      *)

LEMMA InitInv == TenancyInit => TenancyInv
<1> SUFFICES ASSUME TenancyInit PROVE TenancyInv
  OBVIOUS
<1>1. \A c \in Client : req[c] = Nobody
  BY DEF TenancyInit
<1>2. TenancyTypeOK
  <2>1. req \in [Client -> Request]
    BY NobodyType DEF TenancyInit
  <2>2. stored \in [IdemKey -> Stored]
    <3>1. [of |-> 0, body |-> CHOOSE b \in Body : TRUE, fresh |-> FALSE] \in Stored
      BY Somebody, TenancyAssumption DEF Stored
    <3> QED
      BY <3>1 DEF TenancyInit
  <2>3. audit \in [Token -> [Operation -> Nat]]
    BY DEF TenancyInit
  <2> QED
    BY <2>1, <2>2, <2>3, TenancyAssumption DEF TenancyInit, TenancyTypeOK
<1>3. \A c \in Client : Sound(req[c])
  BY <1>1, NobodyType DEF Sound, InPlace, SoundCreate, SoundToken, SoundBearer, Changing
<1>4. \A c, d \in Client : Apart(req[c], req[d])
  BY <1>1, NobodyType DEF Apart, Changing
<1>5. DeadRevoked /\ IssuedThere
  BY TenancyAssumption DEF TenancyInit, DeadRevoked, IssuedThere
<1>6. MutationsAudited
  BY TenancyAssumption DEF TenancyInit, MutationsAudited, Operation
<1>7. ProjectsWhole
  BY DEF TenancyInit, ProjectsWhole
<1> QED
  BY <1>2, <1>3, <1>4, <1>5, <1>6, <1>7 DEF TenancyInv

-----------------------------------------------------------------------------
(* Steps that commit nothing: one request moves, and stays sound and apart *)
(* from the others.                                                        *)

QuietStep(c, q) ==
    /\ req' = [req EXCEPT ![c] = q] /\ UNCHANGED Committed
    /\ made' = made /\ expired' = expired

LEMMA QuietKeeps ==
  ASSUME TenancyInv, NEW c \in Client, NEW q \in Request, QuietStep(c, q),
         dead' = dead \/ (\E t \in Token : tokens[t] = "revoked" /\ dead' = dead \cup {t}),
         InPlace(q), SoundCreate(q), SoundToken(q), SoundBearer(q),
         \A d \in Client : d # c => Apart(q, req[d]) /\ Apart(req[d], q)
  PROVE  TenancyInv'
<1>0. /\ TenancyTypeOK /\ DeadRevoked /\ IssuedThere /\ MutationsAudited /\ ProjectsWhole
      /\ \A d \in Client : Sound(req[d])
      /\ \A d, e \in Client : d # e => Apart(req[d], req[e])
      /\ req \in [Client -> Request]
  BY DEF TenancyInv, TenancyTypeOK
<1>1. /\ projects' = projects /\ stored' = stored /\ tokens' = tokens /\ audit' = audit
      /\ made' = made /\ expired' = expired /\ req' = [req EXCEPT ![c] = q]
  BY DEF QuietStep, Committed
<1>2. req'[c] = q /\ \A d \in Client : d # c => req'[d] = req[d]
  BY <1>0, <1>1
<1>3. dead \subseteq dead' /\ dead' \subseteq Token /\ DeadRevoked'
  BY <1>0, <1>1 DEF DeadRevoked, TenancyTypeOK
<1>4. TenancyTypeOK'
  <2>1. req' \in [Client -> Request]
    BY <1>0, <1>1
  <2> QED
    BY <1>0, <1>1, <1>3, <2>1 DEF TenancyTypeOK
<1>5. \A d \in Client : Sound(req[d])'
  <2> SUFFICES ASSUME NEW d \in Client PROVE Sound(req[d])'
    OBVIOUS
  <2>2. CASE d = c
    BY <1>1, <1>2, <1>3, <2>2 DEF Sound, InPlace, SoundCreate, SoundToken, SoundBearer
  <2>3. CASE d # c
    <3>1. Sound(req[d]) /\ req'[d] = req[d]
      BY <1>0, <1>2, <2>3
    <3> QED
      BY <3>1, <1>1, <1>3 DEF Sound, InPlace, SoundCreate, SoundToken, SoundBearer
  <2> QED
    BY <2>2, <2>3
<1>6. \A d, e \in Client : d # e => Apart(req'[d], req'[e])
  BY <1>0, <1>2
<1>7. (\A d, e \in Client : d # e => Apart(req[d], req[e]))'
  BY <1>6 DEF Apart, Changing
<1>8. IssuedThere' /\ MutationsAudited' /\ ProjectsWhole'
  BY <1>0, <1>1 DEF IssuedThere, MutationsAudited, ProjectsWhole
<1> QED
  BY <1>3, <1>4, <1>5, <1>7, <1>8 DEF TenancyInv

LEMMA RequestKnown ==
  ASSUME TenancyInv, NEW c \in Client
  PROVE  /\ req \in [Client -> Request] /\ req[c] \in Request /\ Sound(req[c])
         /\ InPlace(req[c]) /\ SoundCreate(req[c]) /\ SoundToken(req[c]) /\ SoundBearer(req[c])
         /\ \A d \in Client : d # c => Apart(req[c], req[d]) /\ Apart(req[d], req[c])
  BY DEF TenancyInv, TenancyTypeOK, Sound

(* A request that comes to hold nothing.                                   *)
LEMMA ClearedKeeps ==
  ASSUME TenancyInv, NEW c \in Client, NEW q \in Request, QuietStep(c, q),
         dead' = dead \/ (\E t \in Token : tokens[t] = "revoked" /\ dead' = dead \cup {t}),
         ~Holds(q), q.phase \in {"idle", "answered"}, SoundBearer(q)
  PROVE  TenancyInv'
<1>1. InPlace(q) /\ SoundCreate(q) /\ SoundToken(q)
  BY DEF Holds, InPlace, SoundCreate, SoundToken, Changing
<1>2. \A d \in Client : d # c => Apart(q, req[d]) /\ Apart(req[d], q)
  BY DEF Holds, Apart, Changing
<1> QED
  BY <1>1, <1>2, QuietKeeps

LEMMA AnswerKeeps ==
  ASSUME TenancyInv, NEW c \in Client, NEW code \in Code, Answer(c, code),
         dead' = dead \/ (\E t \in Token : tokens[t] = "revoked" /\ dead' = dead \cup {t}),
         made' = made, expired' = expired,
         code = 401 \/ req[c].phase \notin {"auth", "answered"}
  PROVE  TenancyInv'
<1> DEFINE q == Answered(code, req[c].barred)
<1>0. req[c] \in Request /\ SoundBearer(req[c])
  BY RequestKnown
<1>1. req[c].barred \in BOOLEAN
  BY <1>0, Fields
<1>2. /\ q \in Request /\ ~Holds(q) /\ q.phase = "answered"
      /\ q.barred = req[c].barred /\ q.code = code
  BY <1>1, AnsweredType
<1>3. QuietStep(c, q)
  BY DEF Answer, QuietStep, Answered
<1> HIDE DEF q
<1>4. SoundBearer(q)
  BY <1>0, <1>2 DEF SoundBearer
<1> QED
  BY <1>2, <1>3, <1>4, ClearedKeeps

(* A request that moves to its next statement and has changed no row yet.  *)
LEMMA GotoKeeps ==
  ASSUME TenancyInv, NEW c \in Client, NEW phase \in {"begin", "insert", "audit", "commit"},
         Goto(c, phase), UNCHANGED History,
         req[c].phase \notin {"commit", "answered"}, req[c].barred => FALSE,
         req[c].of = 0, phase = "insert" => req[c].op = "create",
         phase = "audit" => req[c].op \in {"mint", "revoke"},
         phase = "commit" => req[c].phase = "audit",
         phase = "audit" => SoundToken([req[c] EXCEPT !.phase = phase]),
         phase = "audit" => \A d \in Client : d # c =>
             /\ Apart([req[c] EXCEPT !.phase = phase], req[d])
             /\ Apart(req[d], [req[c] EXCEPT !.phase = phase])
  PROVE  TenancyInv'
<1> DEFINE q == [req[c] EXCEPT !.phase = phase]
<1>0. /\ req \in [Client -> Request] /\ req[c] \in Request
      /\ InPlace(req[c]) /\ SoundCreate(req[c]) /\ SoundToken(req[c]) /\ SoundBearer(req[c])
      /\ \A d \in Client : d # c => Apart(req[c], req[d]) /\ Apart(req[d], req[c])
  BY RequestKnown
<1>1. QuietStep(c, q) /\ dead' = dead
  BY <1>0 DEF Goto, QuietStep, History
<1>2. /\ q \in Request /\ q.phase = phase
      /\ q.op = req[c].op /\ q.token = req[c].token /\ q.of = req[c].of /\ q.key = req[c].key
      /\ q.keeps = req[c].keeps /\ q.barred = req[c].barred /\ q.seeded = req[c].seeded
  BY <1>0 DEF Request, Phase
<1>3. ~req[c].keeps
  BY <1>0 DEF SoundCreate
<1> HIDE DEF q
<1>4. InPlace(q)
  BY <1>0, <1>2 DEF InPlace
<1>5. SoundCreate(q)
  BY <1>0, <1>2, <1>3 DEF SoundCreate, InPlace
<1>6. SoundToken(q)
  <2>1. CASE phase = "audit"
    BY <2>1 DEF q
  <2>2. CASE phase = "commit"
    BY <2>2, <1>0, <1>2 DEF SoundToken, Changing
  <2>3. CASE phase \notin {"audit", "commit"}
    BY <2>3, <1>2 DEF SoundToken, Changing
  <2> QED
    BY <2>1, <2>2, <2>3
<1>7. SoundBearer(q)
  BY <1>2 DEF SoundBearer
<1>8. \A d \in Client : d # c => Apart(q, req[d]) /\ Apart(req[d], q)
  <2>1. CASE phase = "audit"
    BY <2>1 DEF q
  <2>2. CASE phase # "audit"
    BY <2>2, <1>0, <1>2, <1>3 DEF Apart, Changing
  <2> QED
    BY <2>1, <2>2
<1> QED
  BY <1>1, <1>2, <1>4, <1>5, <1>6, <1>7, <1>8, QuietKeeps

-----------------------------------------------------------------------------
(* The actions that commit nothing.                                        *)

LEMMA ArriveKeeps ==
  ASSUME TenancyInv, NEW c \in Client, Arrive(c)
  PROVE  TenancyInv'
<1>0. /\ req \in [Client -> Request] /\ req[c] \in Request /\ Issued \subseteq Token
  BY RequestKnown, TenancyAssumption
<1>1. PICK t \in Issued :
        \E r \in Asks(t) : req' = [req EXCEPT ![c] = [r EXCEPT !.barred = t \in dead]]
  BY DEF Arrive
<1>2. PICK r \in Asks(t) : req' = [req EXCEPT ![c] = [r EXCEPT !.barred = t \in dead]]
  BY <1>1
<1>3. PICK op \in {"create", "mint", "revoke", "read"}, k \in IdemKey \cup {NoKey},
           b \in Body, u \in Token :
        r = At("auth", op, t, k, b, u) /\ (op = "mint" => u \notin Issued)
  BY <1>2, NobodyType DEF Asks
<1> DEFINE barred == t \in dead
           q == [r EXCEPT !.barred = barred]
<1>4. /\ q \in Request /\ q.phase = "auth" /\ q.op = op /\ q.token = u /\ q.of = 0
      /\ ~q.keeps /\ q.bearer = t /\ (q.barred => t \in dead)
  <2>1. /\ 0 \in 0..MaxProjects /\ 0 \in Code /\ "auth" \in Phase /\ op \in Op
        /\ barred \in BOOLEAN /\ FALSE \in BOOLEAN /\ t \in Token
    BY <1>0, TenancyAssumption DEF Code, Phase, Op
  <2> HIDE DEF barred
  <2>2. /\ r \in Request /\ r.phase = "auth" /\ r.op = op /\ r.token = u /\ r.of = 0
        /\ r.keeps = FALSE /\ r.bearer = t
    BY <1>3, <2>1 DEF At, Request
  <2>3. /\ q \in Request /\ q.phase = r.phase /\ q.op = r.op /\ q.token = r.token /\ q.of = r.of
        /\ q.keeps = r.keeps /\ q.bearer = r.bearer /\ q.barred = barred
    BY <2>1, <2>2 DEF Request
  <2> QED
    BY <2>2, <2>3 DEF barred
<1>5. QuietStep(c, q) /\ dead' = dead
  BY <1>2 DEF Arrive, QuietStep, Committed, History
<1> HIDE DEF q
<1>6. InPlace(q) /\ SoundCreate(q) /\ SoundToken(q) /\ SoundBearer(q)
  BY <1>3, <1>4 DEF InPlace, SoundCreate, SoundToken, SoundBearer, Changing
<1>7. \A d \in Client : d # c => Apart(q, req[d]) /\ Apart(req[d], q)
  BY <1>4 DEF Apart, Changing
<1> QED
  BY <1>4, <1>5, <1>6, <1>7, QuietKeeps

LEMMA AuthenticateKeeps ==
  ASSUME TenancyInv, NEW c \in Client, Authenticate(c)
  PROVE  TenancyInv'
<1>0. /\ req \in [Client -> Request] /\ req[c] \in Request /\ req[c].phase = "auth"
      /\ InPlace(req[c]) /\ SoundCreate(req[c]) /\ SoundBearer(req[c])
      /\ dead' = dead /\ made' = made /\ expired' = expired
  BY RequestKnown DEF Authenticate, History
<1>1. CASE Answer(c, 401)
  BY <1>0, <1>1, AnswerKeeps DEF Code
<1>2. CASE /\ tokens[req[c].bearer] = "live"
           /\ req' = [req EXCEPT ![c].phase = "begin", ![c].bearer = Nobody.bearer]
           /\ UNCHANGED Committed
  <2> DEFINE q == [req[c] EXCEPT !.phase = "begin", !.bearer = Nobody.bearer]
  <2>1. QuietStep(c, q)
    BY <1>0, <1>2 DEF QuietStep
  <2>2. /\ q \in Request /\ q.phase = "begin" /\ q.op = req[c].op /\ q.token = req[c].token
        /\ q.of = req[c].of /\ q.keeps = req[c].keeps /\ q.barred = req[c].barred
    BY <1>0, NobodyType DEF Request, Phase
  <2> HIDE DEF q
  <2>3. ~req[c].barred
    BY <1>0, <1>2 DEF SoundBearer, TenancyInv, DeadRevoked
  <2>4. InPlace(q) /\ SoundCreate(q) /\ SoundToken(q) /\ SoundBearer(q)
    BY <1>0, <2>2, <2>3 DEF InPlace, SoundCreate, SoundToken, SoundBearer, Changing
  <2>5. \A d \in Client : d # c => Apart(q, req[d]) /\ Apart(req[d], q)
    BY <1>0, <2>2 DEF SoundCreate, Apart, Changing
  <2> QED
    BY <1>0, <2>1, <2>2, <2>4, <2>5, QuietKeeps
<1> QED
  BY <1>1, <1>2 DEF Authenticate

LEMMA CheckKeyKeeps ==
  ASSUME TenancyInv, NEW c \in Client, CheckKey(c)
  PROVE  TenancyInv'
<1>0. /\ req[c].phase = "begin" /\ req[c].op = "create" /\ UNCHANGED History
      /\ InPlace(req[c]) /\ SoundCreate(req[c]) /\ SoundBearer(req[c])
  BY RequestKnown DEF CheckKey, Doing
<1>1. CASE Answer(c, 201) \/ Answer(c, 409)
  BY <1>0, <1>1, AnswerKeeps DEF Code, History
<1>2. CASE Goto(c, "insert")
  BY <1>0, <1>2, GotoKeeps DEF SoundBearer, SoundCreate
<1> QED
  BY <1>1, <1>2 DEF CheckKey

LEMMA InsertProjectKeeps ==
  ASSUME TenancyInv, NEW c \in Client, InsertProject(c)
  PROVE  TenancyInv'
<1>0. /\ req \in [Client -> Request] /\ req[c] \in Request
      /\ req[c].phase = "insert" /\ req[c].op = "create" /\ UNCHANGED History
      /\ InPlace(req[c]) /\ SoundCreate(req[c]) /\ SoundBearer(req[c])
  BY RequestKnown DEF InsertProject, Doing
<1>1. CASE Answer(c, 409)
  BY <1>0, <1>1, AnswerKeeps DEF Code, History
<1>2. ASSUME NEW p \in Project, projects[p] = "none", ~Draws(p),
             req' = [req EXCEPT ![c].of = p, ![c].phase = "seed"], UNCHANGED Committed
      PROVE  TenancyInv'
  <2> DEFINE q == [req[c] EXCEPT !.of = p, !.phase = "seed"]
  <2>1. QuietStep(c, q) /\ dead' = dead
    BY <1>0, <1>2 DEF QuietStep, History
  <2>2. p \in 0..MaxProjects /\ p # 0
    BY TenancyAssumption DEF Project
  <2>3. /\ q \in Request /\ q.phase = "seed" /\ q.op = "create" /\ q.of = p
        /\ q.keeps = req[c].keeps /\ q.barred = req[c].barred
    BY <1>0, <2>2 DEF Request, Phase
  <2> HIDE DEF q
  <2>4. ~req[c].keeps /\ ~req[c].barred
    BY <1>0 DEF SoundCreate, SoundBearer
  <2>5. InPlace(q) /\ SoundCreate(q) /\ SoundToken(q) /\ SoundBearer(q)
    BY <1>2, <2>2, <2>3, <2>4 DEF InPlace, SoundCreate, SoundToken, SoundBearer, Changing
  <2>6. \A d \in Client : d # c => Apart(q, req[d]) /\ Apart(req[d], q)
    BY <1>2, <2>2, <2>3, <2>4 DEF Apart, Changing, Draws
  <2> QED
    BY <2>1, <2>3, <2>5, <2>6, QuietKeeps
<1> QED
  BY <1>1, <1>2 DEF InsertProject

(* From a created project's seed to its commit.                            *)
LEMMA CreateAdvances ==
  ASSUME TenancyInv, NEW c \in Client, NEW phase \in {"store", "commit"},
         NEW seeded \in BOOLEAN, NEW keeps \in BOOLEAN, UNCHANGED <<Committed, History>>,
         req' = [req EXCEPT ![c] = [req[c] EXCEPT !.seeded = seeded, !.keeps = keeps,
                                                  !.phase = phase]],
         req[c].op = "create", req[c].phase \in {"seed", "store"}, seeded,
         phase = "store" => req[c].key \in IdemKey,
         keeps => /\ phase = "commit" /\ req[c].key \in IdemKey /\ stored[req[c].key].of = 0
                  /\ ~KeepsRow(req[c].key, c)
  PROVE  TenancyInv'
<1> DEFINE q == [req[c] EXCEPT !.seeded = seeded, !.keeps = keeps, !.phase = phase]
<1>0. /\ req \in [Client -> Request] /\ req[c] \in Request
      /\ InPlace(req[c]) /\ SoundCreate(req[c]) /\ SoundBearer(req[c])
      /\ \A d \in Client : d # c => Apart(req[c], req[d]) /\ Apart(req[d], req[c])
  BY RequestKnown
<1>1. QuietStep(c, q) /\ dead' = dead
  BY DEF QuietStep, History
<1>2. /\ q \in Request /\ q.phase = phase /\ q.op = "create" /\ q.of = req[c].of
      /\ q.key = req[c].key /\ q.keeps = keeps /\ q.barred = req[c].barred /\ q.seeded = seeded
  BY <1>0 DEF Request, Phase
<1> HIDE DEF q
<1>3. InPlace(q) /\ SoundToken(q) /\ SoundBearer(q)
  BY <1>0, <1>2 DEF InPlace, SoundToken, SoundBearer, Changing
<1>4. SoundCreate(q)
  BY <1>0, <1>2 DEF SoundCreate
<1>5. \A d \in Client : d # c => Apart(q, req[d]) /\ Apart(req[d], q)
  BY <1>0, <1>2 DEF Apart, Changing, KeepsRow
<1> QED
  BY <1>1, <1>2, <1>3, <1>4, <1>5, QuietKeeps

LEMMA SeedTaxonomyKeeps ==
  ASSUME TenancyInv, NEW c \in Client, SeedTaxonomy(c)
  PROVE  TenancyInv'
<1> DEFINE phase == IF req[c].key = NoKey THEN "commit" ELSE "store"
<1>0. /\ req \in [Client -> Request] /\ req[c] \in Request
      /\ req[c].phase = "seed" /\ req[c].op = "create" /\ SoundCreate(req[c])
      /\ UNCHANGED <<Committed, History>>
  BY RequestKnown DEF SeedTaxonomy, Doing
<1>1. req[c].keeps = FALSE /\ req[c].key \in IdemKey \cup {NoKey}
  BY <1>0, Fields DEF SoundCreate
<1>2. /\ phase \in {"store", "commit"} /\ (phase = "store" => req[c].key \in IdemKey)
  BY <1>1
<1>3. req' = [req EXCEPT ![c] = [req[c] EXCEPT !.seeded = TRUE, !.phase = phase]]
  BY <1>0 DEF SeedTaxonomy
<1> HIDE DEF phase
<1>4. [req[c] EXCEPT !.seeded = TRUE, !.phase = phase]
        = [req[c] EXCEPT !.seeded = TRUE, !.keeps = FALSE, !.phase = phase]
  BY <1>0, <1>1 DEF Request
<1> QED
  BY <1>0, <1>2, <1>3, <1>4, CreateAdvances

LEMMA StoreKeyKeeps ==
  ASSUME TenancyInv, NEW c \in Client, StoreKey(c)
  PROVE  TenancyInv'
<1> DEFINE keeps == stored[req[c].key].of = 0
<1>0. /\ req \in [Client -> Request] /\ req[c] \in Request
      /\ req[c].phase = "store" /\ req[c].op = "create" /\ SoundCreate(req[c]) /\ InPlace(req[c])
      /\ UNCHANGED <<Committed, History>> /\ ~KeepsRow(req[c].key, c)
  BY RequestKnown DEF StoreKey, Doing
<1>1. req[c].seeded = TRUE /\ req[c].key \in IdemKey
  BY <1>0, Fields DEF SoundCreate, InPlace
<1>2. keeps \in BOOLEAN
  OBVIOUS
<1>3. req' = [req EXCEPT ![c] = [req[c] EXCEPT !.keeps = keeps, !.phase = "commit"]]
  BY <1>0 DEF StoreKey
<1>4. keeps => stored[req[c].key].of = 0
  OBVIOUS
<1> HIDE DEF keeps
<1>5. [req[c] EXCEPT !.keeps = keeps, !.phase = "commit"]
        = [req[c] EXCEPT !.seeded = TRUE, !.keeps = keeps, !.phase = "commit"]
  BY <1>0, <1>1 DEF Request
<1> QED
  BY <1>0, <1>1, <1>2, <1>3, <1>4, <1>5, CreateAdvances

LEMMA MintTokenKeeps ==
  ASSUME TenancyInv, NEW c \in Client, MintToken(c)
  PROVE  TenancyInv'
<1> DEFINE q == [req[c] EXCEPT !.phase = "audit"]
<1>0. /\ req \in [Client -> Request] /\ req[c] \in Request
      /\ req[c].phase = "begin" /\ req[c].op = "mint" /\ UNCHANGED History
      /\ SoundCreate(req[c]) /\ SoundBearer(req[c])
  BY RequestKnown DEF MintToken, Doing
<1>1. ~req[c].barred /\ req[c].of = 0 /\ ~req[c].keeps
  BY <1>0 DEF SoundBearer, SoundCreate
<1>2. CASE Answer(c, 400)
  BY <1>0, <1>2, AnswerKeeps DEF Code, History
<1>3. CASE /\ tokens[req[c].token] = "none"
           /\ \A d \in Client \ {c} : ~(req[d].op = "mint" /\ req[d].token = req[c].token)
           /\ Goto(c, "audit")
  <2>1. /\ q.phase = "audit" /\ q.op = "mint" /\ q.token = req[c].token /\ q.of = 0 /\ ~q.keeps
    BY <1>0, <1>1 DEF Request
  <2> HIDE DEF q
  <2>2. SoundToken(q)
    BY <1>3, <2>1 DEF SoundToken, Changing
  <2>3. \A d \in Client : d # c => Apart(q, req[d]) /\ Apart(req[d], q)
    BY <1>3, <2>1 DEF Apart, Changing
  <2> QED
    BY <1>0, <1>1, <1>3, <2>2, <2>3, GotoKeeps DEF q
<1> QED
  BY <1>2, <1>3 DEF MintToken

LEMMA RevokeTokenKeeps ==
  ASSUME TenancyInv, NEW c \in Client, RevokeToken(c)
  PROVE  TenancyInv'
<1> DEFINE q == [req[c] EXCEPT !.phase = "audit"]
<1>0. /\ req \in [Client -> Request] /\ req[c] \in Request
      /\ req[c].phase = "begin" /\ req[c].op = "revoke" /\ made' = made /\ expired' = expired
      /\ SoundCreate(req[c]) /\ SoundBearer(req[c]) /\ ~Revoking(req[c].token, c)
  BY RequestKnown DEF RevokeToken, Doing
<1>1. ~req[c].barred /\ req[c].of = 0 /\ ~req[c].keeps /\ req[c].token \in Token
  BY <1>0, Fields DEF SoundBearer, SoundCreate
<1>2. CASE tokens[req[c].token] # "live"
  <2>1. /\ Answer(c, 404)
        /\ dead' = IF tokens[req[c].token] = "revoked" THEN dead \cup {req[c].token} ELSE dead
    BY <1>2 DEF RevokeToken
  <2> QED
    BY <1>0, <1>1, <2>1, AnswerKeeps DEF Code
<1>3. CASE tokens[req[c].token] = "live"
  <2>0. Goto(c, "audit") /\ UNCHANGED History
    BY <1>0, <1>3 DEF RevokeToken, History
  <2>1. /\ q.phase = "audit" /\ q.op = "revoke" /\ q.token = req[c].token /\ q.of = 0 /\ ~q.keeps
    BY <1>0, <1>1 DEF Request
  <2> HIDE DEF q
  <2>2. SoundToken(q)
    BY <1>3, <2>1 DEF SoundToken, Changing
  <2>3. \A d \in Client : d # c => Apart(q, req[d]) /\ Apart(req[d], q)
    BY <1>0, <2>1 DEF Apart, Changing, Revoking
  <2> QED
    BY <1>0, <1>1, <2>0, <2>2, <2>3, GotoKeeps DEF q
<1> QED
  BY <1>2, <1>3

LEMMA EmitAuditKeeps ==
  ASSUME TenancyInv, NEW c \in Client, EmitAudit(c)
  PROVE  TenancyInv'
<1>0. /\ req[c].phase = "audit" /\ Goto(c, "commit") /\ UNCHANGED History
      /\ InPlace(req[c]) /\ SoundCreate(req[c]) /\ SoundBearer(req[c])
  BY RequestKnown DEF EmitAudit
<1>1. ~req[c].barred /\ req[c].of = 0
  BY <1>0 DEF SoundBearer, SoundCreate, InPlace
<1> QED
  BY <1>0, <1>1, GotoKeeps

LEMMA RefuseKeeps ==
  ASSUME TenancyInv, NEW c \in Client, Refuse(c) \/ Fault(c) \/ Reads(c)
  PROVE  TenancyInv'
<1>1. PICK code \in Code :
        /\ Answer(c, code) /\ UNCHANGED History
        /\ req[c].phase \in {"begin", "insert", "seed", "store", "audit"}
  <2>1. ASSUME NEW codes \in SUBSET Code, Read(c, codes)
        PROVE  \E code \in Code : /\ Answer(c, code) /\ UNCHANGED History
                                  /\ req[c].phase = "begin"
    BY <2>1 DEF Read, Doing
  <2>2. {200} \in SUBSET Code /\ {403} \in SUBSET Code /\ {200, 404} \in SUBSET Code
        /\ {Named(p) : p \in Project} \in SUBSET Code
    BY DEF Code, Named
  <2>3. ASSUME NEW codes \in SUBSET Code, InProject(c, codes)
        PROVE  \E code \in Code : /\ Answer(c, code) /\ UNCHANGED History
                                  /\ req[c].phase = "begin"
    BY <2>1, <2>2, <2>3 DEF InProject
  <2>4. CASE Refuse(c) \/ Fault(c)
    BY <2>4 DEF Refuse, Fault, Code
  <2>5. CASE GetProject(c) \/ ListProjects(c) \/ GetOrg(c) \/ ListTokens(c)
    BY <2>1, <2>2, <2>5 DEF GetProject, ListProjects, GetOrg, ListTokens
  <2>6. CASE \/ ListChannels(c) \/ ListPriorities(c) \/ ListAdTypes(c)
             \/ GetChannel(c) \/ GetPriority(c) \/ GetAdType(c)
    BY <2>2, <2>3, <2>6
    DEF ListChannels, ListPriorities, ListAdTypes, GetChannel, GetPriority, GetAdType
  <2> QED
    BY <2>4, <2>5, <2>6 DEF Reads
<1> QED
  BY <1>1, AnswerKeeps DEF History

LEMMA LeaveKeeps ==
  ASSUME TenancyInv, NEW c \in Client,
         req' = [req EXCEPT ![c] = Nobody], UNCHANGED <<Committed, History>>
  PROVE  TenancyInv'
<1>1. QuietStep(c, Nobody) /\ dead' = dead
  BY DEF QuietStep, History
<1>2. ~Holds(Nobody) /\ SoundBearer(Nobody)
  BY NobodyType DEF Holds, SoundBearer
<1> QED
  BY <1>1, <1>2, NobodyType, ClearedKeeps

-----------------------------------------------------------------------------
(* Commits.                                                                *)

LEMMA CommitKeeps ==
  ASSUME TenancyInv, NEW c \in Client, req[c].phase = "commit", Commit(c),
         NEW q \in Request, req' = [req EXCEPT ![c] = q],
         ~Holds(q), q.phase \in {"idle", "answered"}, ~q.barred,
         dead' = dead \/ (req[c].op = "revoke" /\ dead' = dead \cup {req[c].token})
  PROVE  TenancyInv'
<1> DEFINE r == req[c]
<1>0. /\ req \in [Client -> Request] /\ r \in Request
      /\ InPlace(r) /\ SoundCreate(r) /\ SoundToken(r)
      /\ \A d \in Client : d # c => Apart(r, req[d]) /\ Apart(req[d], r)
      /\ \A d \in Client : Sound(req[d])
      /\ \A d, e \in Client : d # e => Apart(req[d], req[e])
      /\ TenancyTypeOK /\ DeadRevoked /\ IssuedThere /\ MutationsAudited /\ ProjectsWhole
  BY RequestKnown DEF TenancyInv
<1>1. req'[c] = q /\ (\A d \in Client : d # c => req'[d] = req[d]) /\ req' \in [Client -> Request]
  BY <1>0
<1>2. /\ r.op \in {"create", "mint", "revoke"} /\ r.token \in Token /\ r.of \in 0..MaxProjects
      /\ r.body \in Body /\ r.keeps \in BOOLEAN /\ r.key \in IdemKey \cup {NoKey}
  BY <1>0, Fields DEF InPlace
<1>3. Sound(req[c])'
  BY <1>1 DEF Sound, InPlace, SoundCreate, SoundToken, SoundBearer, Changing, Holds
<1>4. (\A d, e \in Client : d # e => Apart(req[d], req[e]))'
  <2>1. \A d \in Client : Apart(q, req[d]) /\ Apart(req[d], q)
    BY DEF Apart, Changing, Holds
  <2>2. \A d, e \in Client : d # e => Apart(req'[d], req'[e])
    BY <1>0, <1>1, <2>1
  <2> QED
    BY <2>2 DEF Apart, Changing
<1>5. CASE r.op = "create"
  <2>0. /\ r.of # 0 /\ r.of \in Project /\ projects[r.of] = "none" /\ r.seeded
        /\ (r.keeps => r.key \in IdemKey /\ stored[r.key].of = 0)
    BY <1>0, <1>2, <1>5, TenancyAssumption DEF SoundCreate, Project
  <2>1. /\ tokens' = tokens /\ audit' = audit /\ dead' = dead /\ expired' = expired
        /\ projects' = [projects EXCEPT ![r.of] = "seeded"]
        /\ made' = IF r.key = NoKey THEN made ELSE [made EXCEPT ![r.key] = @ + 1]
    BY <1>5, <2>0 DEF Commit
  <2>2. \/ ~r.keeps /\ stored' = stored
        \/ /\ r.keeps
           /\ stored' = [stored EXCEPT ![r.key] = [of |-> r.of, body |-> r.body, fresh |-> TRUE]]
    BY DEF Commit
  <2> HIDE DEF r
  <2>3. projects' \in [Project -> {"none", "bare", "seeded"}]
    BY <1>0, <2>1 DEF TenancyTypeOK
  <2>4. stored' \in [IdemKey -> Stored]
    <3>1. [of |-> r.of, body |-> r.body, fresh |-> TRUE] \in Stored
      BY <1>2 DEF Stored
    <3> QED
      BY <1>0, <2>2, <3>1 DEF TenancyTypeOK
  <2>5. made' \in [IdemKey -> Nat]
    BY <1>0, <1>2, <2>1 DEF TenancyTypeOK
  <2>6. TenancyTypeOK'
    BY <1>0, <1>1, <2>1, <2>3, <2>4, <2>5 DEF TenancyTypeOK
  <2>7. DeadRevoked' /\ IssuedThere' /\ MutationsAudited'
    BY <1>0, <2>1 DEF DeadRevoked, IssuedThere, MutationsAudited
  <2>8. ProjectsWhole'
    <3>1. \A p \in Project : projects'[p] = IF p = r.of THEN "seeded" ELSE projects[p]
      BY <1>0, <2>1 DEF TenancyTypeOK
    <3>2. \A k \in IdemKey : \/ stored'[k].of = stored[k].of
                             \/ k = r.key /\ stored[k].of = 0 /\ stored'[k].of = r.of
      BY <1>0, <2>0, <2>2 DEF TenancyTypeOK
    <3>3. \A k \in IdemKey : stored[k].of \in 0..MaxProjects
      BY <1>0 DEF TenancyTypeOK, Stored
    <3>4. \A k \in IdemKey : stored[k].of # r.of
      BY <1>0, <2>0 DEF ProjectsWhole
    <3>5. \A k \in IdemKey : stored'[k].of # 0 => projects'[stored'[k].of] = "seeded"
      BY <1>0, <2>0, <3>1, <3>2, <3>3, TenancyAssumption DEF ProjectsWhole, Project
    <3>6. \A k, l \in IdemKey : stored'[k].of = stored'[l].of => k = l \/ stored'[k].of = 0
      BY <1>0, <3>2, <3>4 DEF ProjectsWhole
    <3> QED
      BY <1>0, <3>1, <3>5, <3>6 DEF ProjectsWhole
  <2>9. \A d \in Client : d # c => Sound(req[d])'
    <3> SUFFICES ASSUME NEW d \in Client, d # c PROVE Sound(req[d])'
      OBVIOUS
    <3>1. /\ Sound(req[d]) /\ req'[d] = req[d] /\ Apart(r, req[d]) /\ Apart(req[d], r)
          /\ req[d].of \in 0..MaxProjects
      BY <1>0, <1>1, Fields DEF r
    <3>2. req[d].of # 0 => projects'[req[d].of] = "none"
      BY <1>0, <2>0, <2>1, <3>1, TenancyAssumption
      DEF Sound, SoundCreate, Apart, Project, TenancyTypeOK
    <3>3. req[d].keeps => req[d].key \in IdemKey /\ stored'[req[d].key].of = 0
      BY <1>0, <2>2, <3>1 DEF Sound, SoundCreate, Apart, TenancyTypeOK
    <3> QED
      BY <2>1, <3>1, <3>2, <3>3
      DEF Sound, InPlace, SoundCreate, SoundToken, SoundBearer, Changing
  <2> QED
    BY <1>1, <1>3, <1>4, <2>6, <2>7, <2>8, <2>9 DEF TenancyInv
<1>6. CASE r.op \in {"mint", "revoke"}
  <2> DEFINE into == IF r.op = "mint" THEN "live" ELSE "revoked"
  <2>0. /\ tokens[r.token] = IF r.op = "mint" THEN "none" ELSE "live"
        /\ (r.op = "mint" => r.token \notin Issued) /\ ~r.keeps
    BY <1>0, <1>6 DEF SoundToken, SoundCreate, Changing, InPlace
  <2>1. /\ projects' = projects /\ stored' = stored /\ made' = made /\ expired' = expired
        /\ tokens' = [tokens EXCEPT ![r.token] = into]
        /\ audit' = [audit EXCEPT ![r.token][r.op] = @ + 1]
    BY <1>6, <2>0 DEF Commit
  <2>2. dead' = dead \/ (r.op = "revoke" /\ dead' = dead \cup {r.token})
    OBVIOUS
  <2> HIDE DEF r
  <2>3. /\ tokens' \in [Token -> {"none", "live", "revoked"}]
        /\ \A t \in Token : tokens'[t] = IF t = r.token THEN into ELSE tokens[t]
    BY <1>0, <2>1 DEF TenancyTypeOK
  <2>4. /\ audit' \in [Token -> [Operation -> Nat]]
        /\ \A t \in Token : \A o \in Operation :
             audit'[t][o] = IF t = r.token /\ o = r.op THEN audit[t][o] + 1 ELSE audit[t][o]
    BY <1>0, <1>2, <1>6, <2>1 DEF TenancyTypeOK, Operation
  <2>5. dead \subseteq dead' /\ dead' \subseteq Token
    BY <1>0, <1>2, <2>2 DEF TenancyTypeOK
  <2>6. TenancyTypeOK'
    BY <1>0, <1>1, <2>1, <2>3, <2>4, <2>5 DEF TenancyTypeOK
  <2>7. DeadRevoked' /\ IssuedThere'
    BY <1>0, <2>0, <2>2, <2>3, <2>5, TenancyAssumption
    DEF DeadRevoked, IssuedThere, TenancyTypeOK
  <2>8. MutationsAudited'
    <3> SUFFICES ASSUME NEW t \in Token
                 PROVE  /\ audit'[t]["revoke"] = IF tokens'[t] = "revoked" THEN 1 ELSE 0
                        /\ audit'[t]["mint"]
                             = IF tokens'[t] # "none" /\ t \notin Issued THEN 1 ELSE 0
      BY DEF MutationsAudited
    <3>1. /\ audit[t]["revoke"] = IF tokens[t] = "revoked" THEN 1 ELSE 0
          /\ audit[t]["mint"] = IF tokens[t] # "none" /\ t \notin Issued THEN 1 ELSE 0
      BY <1>0 DEF MutationsAudited
    <3>2. \A o \in {"mint", "revoke"} :
            audit'[t][o] = IF t = r.token /\ o = r.op THEN audit[t][o] + 1 ELSE audit[t][o]
      BY <2>4 DEF Operation
    <3>3. CASE t # r.token
      BY <2>3, <3>1, <3>2, <3>3
    <3>4. CASE t = r.token /\ r.op = "mint"
      BY <2>0, <2>3, <3>1, <3>2, <3>4
    <3>5. CASE t = r.token /\ r.op = "revoke"
      BY <2>0, <2>3, <3>1, <3>2, <3>5
    <3> QED
      BY <1>6, <3>3, <3>4, <3>5
  <2>9. ProjectsWhole'
    BY <1>0, <2>1 DEF ProjectsWhole
  <2>10. \A d \in Client : d # c => Sound(req[d])'
    <3> SUFFICES ASSUME NEW d \in Client, d # c PROVE Sound(req[d])'
      OBVIOUS
    <3>1. /\ Sound(req[d]) /\ req'[d] = req[d] /\ Apart(r, req[d]) /\ req[d].token \in Token
      BY <1>0, <1>1, Fields DEF r
    <3>2. Changing(r, r.op)
      BY <1>6 DEF Changing, r
    <3>3. Changing(req[d], "mint") => tokens'[req[d].token] = "none"
      BY <1>6, <2>0, <2>3, <3>1, <3>2 DEF Sound, SoundToken, Apart
    <3>4. Changing(req[d], "revoke") => tokens'[req[d].token] = "live"
      BY <1>6, <2>0, <2>3, <3>1, <3>2 DEF Sound, SoundToken, Apart
    <3> QED
      BY <2>1, <2>5, <3>1, <3>3, <3>4
      DEF Sound, InPlace, SoundCreate, SoundToken, SoundBearer, Changing
  <2> QED
    BY <1>1, <1>3, <1>4, <2>6, <2>7, <2>8, <2>9, <2>10 DEF TenancyInv
<1> QED
  BY <1>2, <1>5, <1>6

LEMMA FinishKeeps ==
  ASSUME TenancyInv, NEW c \in Client, Finish(c)
  PROVE  TenancyInv'
<1> DEFINE code == IF req[c].op = "revoke" THEN 204 ELSE 201
           q == Answered(code, req[c].barred)
<1>0. /\ req[c] \in Request /\ SoundBearer(req[c]) /\ req[c].phase = "commit" /\ Commit(c)
      /\ dead' = IF req[c].op = "revoke" THEN dead \cup {req[c].token} ELSE dead
  BY RequestKnown DEF Finish
<1>1. req[c].barred \in BOOLEAN /\ ~req[c].barred /\ code \in Code
  BY <1>0, Fields DEF SoundBearer, Code
<1>2. req' = [req EXCEPT ![c] = q]
  BY DEF Finish, Told, Answered
<1>3. q \in Request /\ ~Holds(q) /\ q.phase = "answered" /\ ~q.barred
  BY <1>1, AnsweredType
<1>4. dead' = dead \/ (req[c].op = "revoke" /\ dead' = dead \cup {req[c].token})
  BY <1>0
<1>5. q.phase \in {"idle", "answered"}
  BY <1>3
<1> HIDE DEF q
<1> QED
  BY <1>0, <1>2, <1>3, <1>4, <1>5, CommitKeeps

LEMMA CommitFailsKeeps ==
  ASSUME TenancyInv, NEW c \in Client, CommitFails(c)
  PROVE  TenancyInv'
<1> DEFINE q == Answered(500, req[c].barred)
<1>0. req[c] \in Request /\ SoundBearer(req[c]) /\ req[c].phase = "commit" /\ dead' = dead
  BY RequestKnown DEF CommitFails
<1>1. req[c].barred \in BOOLEAN /\ ~req[c].barred /\ 500 \in Code
  BY <1>0, Fields DEF SoundBearer, Code
<1>2. req' = [req EXCEPT ![c] = q]
  BY DEF CommitFails, Told, Answered
<1>3. q \in Request /\ ~Holds(q) /\ q.phase = "answered" /\ ~q.barred
  BY <1>1, AnsweredType
<1> HIDE DEF q
<1>4. CASE Commit(c)
  BY <1>0, <1>2, <1>3, <1>4, CommitKeeps
<1>5. CASE UNCHANGED <<Committed, made, expired>>
  <2>1. QuietStep(c, q)
    BY <1>2, <1>5 DEF QuietStep
  <2>2. SoundBearer(q)
    BY <1>3 DEF SoundBearer
  <2> QED
    BY <1>0, <1>3, <2>1, <2>2, ClearedKeeps
<1> QED
  BY <1>4, <1>5 DEF CommitFails

LEMMA HangUpKeeps ==
  ASSUME TenancyInv, NEW c \in Client, HangUp(c)
  PROVE  TenancyInv'
<1>0. req' = [req EXCEPT ![c] = Nobody] /\ dead' = dead
  BY DEF HangUp
<1>1. CASE req[c].phase = "commit" /\ Commit(c)
  <2>1. ~Holds(Nobody) /\ ~Nobody.barred
    BY NobodyType DEF Holds
  <2> QED
    BY <1>0, <1>1, <2>1, NobodyType, CommitKeeps
<1>2. CASE UNCHANGED <<Committed, made, expired>>
  BY <1>0, <1>2, LeaveKeeps DEF History
<1> QED
  BY <1>1, <1>2 DEF HangUp

(* A row that expires stays, and so does what it stands for.               *)
LEMMA ExpireKeeps ==
  ASSUME TenancyInv, NEW k \in IdemKey, Expire(k)
  PROVE  TenancyInv'
<1>0. /\ TenancyTypeOK /\ DeadRevoked /\ IssuedThere /\ MutationsAudited /\ ProjectsWhole
      /\ \A c \in Client : Sound(req[c])
      /\ \A c, d \in Client : c # d => Apart(req[c], req[d])
  BY DEF TenancyInv
<1>1. /\ projects' = projects /\ tokens' = tokens /\ audit' = audit /\ req' = req /\ dead' = dead
      /\ stored' = [stored EXCEPT ![k].fresh = FALSE]
      /\ made' = [made EXCEPT ![k] = 0] /\ expired' = expired + 1 /\ expired < Expiries
  BY DEF Expire
<1>2. /\ stored' \in [IdemKey -> Stored]
      /\ \A l \in IdemKey : stored'[l].of = stored[l].of
  BY <1>0, <1>1 DEF TenancyTypeOK, Stored
<1>3. expired' \in 0..Expiries
  BY <1>0, <1>1, TenancyAssumption DEF TenancyTypeOK
<1>4. TenancyTypeOK'
  BY <1>0, <1>1, <1>2, <1>3 DEF TenancyTypeOK
<1>5. DeadRevoked' /\ IssuedThere' /\ MutationsAudited'
  BY <1>0, <1>1 DEF DeadRevoked, IssuedThere, MutationsAudited
<1>6. ProjectsWhole'
  BY <1>0, <1>1, <1>2 DEF ProjectsWhole
<1>7. (\A c \in Client : Sound(req[c]))'
  BY <1>0, <1>1, <1>2 DEF Sound, InPlace, SoundCreate, SoundToken, SoundBearer, Changing
<1>8. (\A c, d \in Client : c # d => Apart(req[c], req[d]))'
  BY <1>0, <1>1 DEF Apart, Changing
<1> QED
  BY <1>4, <1>5, <1>6, <1>7, <1>8 DEF TenancyInv

-----------------------------------------------------------------------------
(* The theorems.                                                           *)

LEMMA StepInv == TenancyInv /\ [TenancyNext]_vars => TenancyInv'
<1> SUFFICES ASSUME TenancyInv, [TenancyNext]_vars PROVE TenancyInv'
  OBVIOUS
<1>1. ASSUME NEW c \in Client,
             Arrive(c) \/ Authenticate(c) \/ CreateProject(c) \/ MintToken(c)
             \/ RevokeToken(c) \/ EmitAudit(c)
      PROVE  TenancyInv'
  BY <1>1, ArriveKeeps, AuthenticateKeeps, CheckKeyKeeps, InsertProjectKeeps, SeedTaxonomyKeeps,
     StoreKeyKeeps, MintTokenKeeps, RevokeTokenKeeps, EmitAuditKeeps DEF CreateProject
<1>2. ASSUME NEW c \in Client, Refuse(c) \/ Fault(c) \/ Reads(c)
      PROVE  TenancyInv'
  BY <1>2, RefuseKeeps
<1>3. ASSUME NEW c \in Client, Finish(c) \/ CommitFails(c) \/ HangUp(c)
      PROVE  TenancyInv'
  BY <1>3, FinishKeeps, CommitFailsKeeps, HangUpKeeps
<1>4. ASSUME NEW c \in Client, Leave(c) PROVE TenancyInv'
  BY <1>4, LeaveKeeps DEF Leave
<1>5. ASSUME NEW k \in IdemKey, Expire(k) PROVE TenancyInv'
  BY <1>5, ExpireKeeps
<1>6. CASE UNCHANGED vars
  BY <1>6 DEF vars, TenancyInv, TenancyTypeOK, Sound, InPlace, SoundCreate, SoundToken,
     SoundBearer, Apart, Changing, DeadRevoked, IssuedThere, MutationsAudited, ProjectsWhole
<1> QED
  BY <1>1, <1>2, <1>3, <1>4, <1>5, <1>6 DEF TenancyNext

(* Every state of the org-level API satisfies the inductive invariant.     *)
THEOREM TenancySafe == TenancySpec => []TenancyInv
<1>1. TenancyInit => TenancyInv
  BY InitInv
<1>2. TenancyInv /\ [TenancyNext]_vars => TenancyInv'
  BY StepInv
<1> QED
  BY <1>1, <1>2, PTL DEF TenancySpec

(* Its variables keep their types: every answer has a declared status.     *)
THEOREM TenancyTypeCorrect == TenancySpec => []TenancyTypeOK
<1>1. TenancyInv => TenancyTypeOK
  BY DEF TenancyInv
<1> QED
  BY <1>1, TenancySafe, PTL

(* Once an admin has been told that a token is revoked, no request that    *)
(* arrives with it is served (verify_bearer, revoke_token).                *)
THEOREM RevocationHolds == TenancySpec => []RevokedStaysOut
<1>1. TenancyInv => RevokedStaysOut
  BY DEF TenancyInv, Sound, SoundBearer, RevokedStaysOut
<1> QED
  BY <1>1, TenancySafe, PTL

(* A committed mint or revocation has exactly one audit row, and there is  *)
(* no row of one that did not happen (tokens.rs, audit::emit).             *)
THEOREM AuditAgrees == TenancySpec => []MutationsAudited
<1>1. TenancyInv => MutationsAudited
  BY DEF TenancyInv
<1> QED
  BY <1>1, TenancySafe, PTL

(* A committed project has its taxonomy, and a stored response names one   *)
(* committed project (create_project, idempotency::store).                 *)
THEOREM CreationsWhole == TenancySpec => []ProjectsWhole
<1>1. TenancyInv => ProjectsWhole
  BY DEF TenancyInv
<1> QED
  BY <1>1, TenancySafe, PTL

=============================================================================
