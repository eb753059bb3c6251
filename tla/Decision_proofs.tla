--------------------------- MODULE Decision_proofs --------------------------
(***************************************************************************)
(* Proofs about the decision endpoint, for any requests, snapshots, bodies *)
(* and bounds.  A handler changes only its own record and its own audit    *)
(* row, so the invariant is one of each handler (HandlerInv): the lemma    *)
(* OthersKeep carries it over the steps of the others, and one lemma per   *)
(* action over its own.                                                    *)
(*                                                                         *)
(* And about the weighted draw of select_n: a roll picks each candidate in *)
(* proportion to its weight among those left (HitsFirst), and a pick of n  *)
(* out of the pool is a draw without replacement (IsDraw).                 *)
(***************************************************************************)
EXTENDS Decision, Selection, TLAPS, Loops, FiniteSetTheorems, SequenceTheorems

\* Nothing is decided before the clock has been read.
FreshInv(r) ==
    req[r].phase \in {"new", "open", "audit", "commit", "decide"} =>
        /\ req[r].next = 1
        /\ req[r].events = {} /\ req[r].sent = {}
        /\ \A i \in Ids : req[r].answer[i] = {}

\* The row of a forced request is written after the gate, on the snapshot that
\* the handler keeps, and before the decision.
AuditInv(r) ==
    /\ req[r].phase \in {"new", "open"} => r \notin audit
    /\ r \in audit \/ req[r].phase \in {"audit", "commit"} =>
          ForceRequested(body[r]) /\ ForceGate(body[r], Slice(r))
    /\ req[r].phase \in {"decide", "place", "drain"} \/ (Ok(r) /\ ~Explains(body[r])) =>
          (ForceRequested(body[r]) => r \in audit)

\* What has an answer is done; what decides has passed validation.
ControlInv(r) ==
    /\ req[r].phase # "done" => req[r].code = 0
    /\ req[r].phase \in {"audit", "commit", "decide", "place", "drain"} =>
          Len(body[r].placements) =< MaxPlacements
    /\ req[r].next =< Len(body[r].placements) + 1
    /\ req[r].phase = "drain" \/ (Ok(r) /\ ~Explains(body[r])) =>
          req[r].next \notin DOMAIN body[r].placements
    /\ req[r].phase = "place" \/ req[r].code \in {400, 403} => req[r].sent = {}
    /\ Ok(r) => req[r].sent = req[r].events

\* The explainer answers from where it has its transaction dropped, past the gate
\* and without row or event.
ExplainInv(r) ==
    Explains(body[r]) =>
        /\ req[r].phase \in {"new", "open", "done", "gone"}
        /\ r \notin audit /\ req[r].sent = {}
        /\ Ok(r) /\ ForceRequested(body[r]) => ForceGate(body[r], Slice(r))

\* Every ad in the answer comes from the pure decision of a placement of that id,
\* or from its explanation.
AnswerInv(r) ==
    \A i \in Ids : \A a \in req[r].answer[i] :
        \E k \in DOMAIN body[r].placements :
            /\ body[r].placements[k].id = i
            /\ \/ \E F \in DecidePure[req[r].version][body[r]][req[r].at][k] : a \in F
               \/ \E F \in Explained(Slice(r), body[r], body[r].placements[k], req[r].at) : a \in F

\* Events belong to placements decided already and carry the handler's version
\* and time; with distinct ids they are the answer.
EventsInv(r) ==
    /\ \A e \in req[r].events :
        e.placement < req[r].next /\ e.version = req[r].version /\ e.at = req[r].at
    /\ DistinctIds(body[r]) /\ ~Explains(body[r]) =>
        \A k \in DOMAIN body[r].placements : k < req[r].next =>
            req[r].answer[body[r].placements[k].id] =
                {e.ad : e \in {x \in req[r].events : x.placement = k}}

HandlerInv(r) ==
    /\ FreshInv(r) /\ AuditInv(r) /\ ControlInv(r) /\ ExplainInv(r)
    /\ AnswerInv(r) /\ EventsInv(r)

DecisionInv == DecisionTypeOK /\ \A r \in Request : HandlerInv(r)

-----------------------------------------------------------------------------
(* The pure decision.                                                      *)

LEMMA PlacementsSeq ==
  ASSUME NEW b \in Body
  PROVE  /\ Len(b.placements) \in Nat
         /\ DOMAIN b.placements = 1..Len(b.placements)
         /\ b.placements = <<>> <=> Len(b.placements) = 0
         /\ \A k \in DOMAIN b.placements : b.placements[k].id \in Ids
<1>1. b.placements \in Seq({b.placements[k] : k \in DOMAIN b.placements})
  BY DecisionAssumption
<1>2. Len(b.placements) \in Nat /\ DOMAIN b.placements = 1..Len(b.placements)
  BY <1>1
<1>3. b.placements = <<>> <=> Len(b.placements) = 0
  BY <1>1
<1>4. \A k \in DOMAIN b.placements : b.placements[k].id \in Ids
  BY DEF Ids
<1> QED
  BY <1>2, <1>3, <1>4

LEMMA PicksRight ==
  ASSUME NEW s, NEW b, NEW p, NEW t, NEW site \in Sites(s, p),
         NEW D \in Picks(s, b, p, site, t), NEW a \in D
  PROVE  /\ a \in DOMAIN s.ads
         /\ \/ a = p.forceAd
            \/ MayServe(s, b, p, t, a) /\ Passes(s, b, p, site, a)
<1>1. CASE p.forceAd # None
  BY <1>1 DEF Picks, Forced
<1>2. CASE p.forceAd = None
  <2> DEFINE C == Filter(s, b, p, site, t)
  <2>1. D \in Draws(Pool(s, Priority(s, C)), Count(p))
    BY <1>2 DEF Picks
  <2>2. a \in Positive(Pool(s, Priority(s, C)))
    BY <2>1 DEF Draws
  <2>3. a \in Priority(s, C) /\ s.ads[a].weight > 0
    BY <2>2 DEF Positive, Pool
  <2>4. a \in C /\ \A c \in C : Tier(s, a) =< Tier(s, c)
    BY <2>3 DEF Priority
  <2> DEFINE Running == {f \in DOMAIN s.flights :
                /\ s.flights[f].active
                /\ s.flights[f].start # None => s.flights[f].start =< t
                /\ s.flights[f].end # None => s.flights[f].end >= t
                /\ s.flights[f].sites # {} => site \in s.flights[f].sites
                /\ s.flights[f].zones # {} => s.flights[f].zones \cap p.zones # {}
                /\ s.flights[f].adTypes # {} => s.flights[f].adTypes \cap p.adTypes # {}
                /\ s.flights[f].advertiser \notin b.blockAdvertisers
                /\ s.flights[f].campaign \notin b.blockCampaigns}
             Eligible == {c \in DOMAIN s.ads : s.ads[c].active /\ s.ads[c].flight \in Running}
  <2>5. C = Eligible
    BY DEF Filter, ActiveAt, Targets, Blocked
  <2>6. a \in Eligible /\ \A c \in Eligible : Tier(s, a) =< Tier(s, c)
    BY <2>4, <2>5
  <2>7. MayServe(s, b, p, t, a)
    BY <2>3, <2>6 DEF MayServe
  <2>8. Passes(s, b, p, site, a)
    BY <2>4 DEF Filter, Targets, Passes
  <2> QED
    BY <2>6, <2>7, <2>8
<1> QED
  BY <1>1, <1>2

\* What a placement may be answered with, by the decision or by the explainer.
Right(s, b, p, t, a) ==
    /\ a \in DOMAIN s.ads
    /\ \/ a = p.forceAd
       \/ MayServe(s, b, p, t, a) /\ \E site \in Sites(s, p) : Passes(s, b, p, site, a)

LEMMA FillsRight ==
  ASSUME NEW s, NEW b, NEW p, NEW t, NEW F \in Fills(s, b, p, t), NEW a \in F
  PROVE  Right(s, b, p, t, a)
<1>1. PICK site \in Sites(s, p) : \E D \in Picks(s, b, p, site, t) : F = {x \in D : Renders(s, x)}
  BY DEF Fills
<1>2. PICK D \in Picks(s, b, p, site, t) : F = {x \in D : Renders(s, x)}
  BY <1>1
<1>3. a \in D
  BY <1>2
<1> QED
  BY <1>2, <1>3, PicksRight DEF Right

LEMMA ExplainedRight ==
  ASSUME NEW s, NEW b, NEW p, NEW t, NEW F \in Explained(s, b, p, t), NEW a \in F
  PROVE  Right(s, b, p, t, a)
<1>1. PICK site \in Sites(s, p) : F \in Picks(s, b, p, site, t)
  BY DEF Explained
<1> QED
  BY <1>1, PicksRight DEF Right


LEMMA DecidePureRight ==
  ASSUME NEW v \in Version, NEW b \in Body, NEW t \in 0..MaxTime,
         NEW k \in DOMAIN b.placements, NEW F \in DecidePure[v][b][t][k]
  PROVE  /\ F \subseteq Ads
         /\ \A a \in F : Right(Catalog[v], b, b.placements[k], t, a)
<1>1. F \in Fills(Catalog[v], b, b.placements[k], t)
  BY DEF DecidePure
<1>2. \A a \in F : Right(Catalog[v], b, b.placements[k], t, a)
  BY <1>1, FillsRight
<1>3. F \subseteq Ads
  BY <1>2 DEF Ads, Right
<1> QED
  BY <1>2, <1>3

\* The explainer's answers are explanations of placements.
LEMMA ExplainPureRight ==
  ASSUME NEW v \in Version, NEW b \in Body, Explains(b), NEW t \in 0..MaxTime,
         NEW answer \in ExplainPure[v][b][t]
  PROVE  /\ answer \in [Ids -> SUBSET Ads]
         /\ \A i \in Ids : \A a \in answer[i] : \E k \in DOMAIN b.placements :
              /\ b.placements[k].id = i
              /\ \E F \in Explained(Catalog[v], b, b.placements[k], t) : a \in F
<1>1. /\ answer \in [Ids -> SUBSET Ads]
      /\ \A i \in Ids : answer[i] \in Reported(Catalog[v], b, i, t)
  BY DEF ExplainPure
<1>2. ASSUME NEW i \in Ids, NEW a \in answer[i]
      PROVE  \E k \in DOMAIN b.placements :
              /\ b.placements[k].id = i
              /\ \E F \in Explained(Catalog[v], b, b.placements[k], t) : a \in F
  BY <1>1, <1>2 DEF Reported
<1> QED
  BY <1>1, <1>2

-----------------------------------------------------------------------------
(* One handler's step leaves the others alone.                             *)

LEMMA OthersKeep ==
  ASSUME DecisionTypeOK, NEW r \in Request, NEW h, NEW q \in Request \ {r},
         req' = [req EXCEPT ![r] = h], body' = body, audit' \ {r} = audit \ {r},
         HandlerInv(q)
  PROVE  HandlerInv(q)'
<1>1. req'[q] = req[q] /\ body'[q] = body[q] /\ (q \in audit' <=> q \in audit)
  BY DEF DecisionTypeOK
<1>2. FreshInv(q)'
  BY <1>1 DEF HandlerInv, FreshInv
<1>3. AuditInv(q)'
  BY <1>1 DEF HandlerInv, AuditInv, Ok, Slice
<1>4. ControlInv(q)'
  BY <1>1 DEF HandlerInv, ControlInv, Ok
<1>5. AnswerInv(q)'
  BY <1>1 DEF HandlerInv, AnswerInv, Slice
<1>6. EventsInv(q)'
  BY <1>1 DEF HandlerInv, EventsInv
<1>7. ExplainInv(q)'
  BY <1>1 DEF HandlerInv, ExplainInv, Ok, Slice
<1> QED
  BY <1>2, <1>3, <1>4, <1>5, <1>6, <1>7 DEF HandlerInv

\* The record and the row of r may change, nothing else of a handler.
OnlyHandler(r) ==
    /\ \E h : req' = [req EXCEPT ![r] = h]
    /\ body' = body
    /\ audit' \ {r} = audit \ {r}

LEMMA OthersAllKeep ==
  ASSUME DecisionInv, NEW r \in Request, OnlyHandler(r)
  PROVE  \A q \in Request \ {r} : HandlerInv(q)'
<1>1. PICK h : req' = [req EXCEPT ![r] = h]
  BY DEF OnlyHandler
<1>2. body' = body /\ audit' \ {r} = audit \ {r}
  BY DEF OnlyHandler
<1> QED
  BY <1>1, <1>2, OthersKeep DEF DecisionInv

LEMMA Effect ==
  ASSUME DecisionTypeOK, NEW r \in Request, NEW h \in Handler, h.sent \subseteq h.events,
         req' = [req EXCEPT ![r] = h], body' = body,
         store' \in Version, now' \in 0..MaxTime, queued' \in 0..Capacity, audit' \subseteq Request
  PROVE  DecisionTypeOK' /\ req'[r] = h /\ body'[r] = body[r]
<1>1. req' \in [Request -> Handler] /\ req'[r] = h
  BY DEF DecisionTypeOK
<1>2. \A q \in Request : req'[q].sent \subseteq req'[q].events
  BY DEF DecisionTypeOK
<1> QED
  BY <1>1, <1>2 DEF DecisionTypeOK

\* A handler that only moves on, with or without an answer.
LEMMA AnswerEffect ==
  ASSUME DecisionTypeOK, NEW r \in Request, NEW code \in Code,
         Answer(r, code), UNCHANGED <<store, now, queued, body>>, audit' \subseteq Request
  PROVE  /\ DecisionTypeOK'
         /\ body'[r] = body[r]
         /\ req'[r].phase = "done" /\ req'[r].code = code
         /\ req'[r].version = req[r].version /\ req'[r].at = req[r].at
         /\ req'[r].next = req[r].next /\ req'[r].answer = req[r].answer
         /\ req'[r].events = req[r].events /\ req'[r].sent = req[r].sent
         /\ \E h : req' = [req EXCEPT ![r] = h]
<1> DEFINE h == [req[r] EXCEPT !.phase = "done", !.code = code]
<1>1. req[r] \in Handler /\ req[r].sent \subseteq req[r].events
  BY DEF DecisionTypeOK
<1>2. h \in Handler /\ h.sent \subseteq h.events
  <2>1. "done" \in Phase
    BY DEF Phase
  <2> QED
    BY <1>1, <2>1 DEF Handler
<1>3. req' = [req EXCEPT ![r] = h]
  BY DEF Answer
<1>4. store' \in Version /\ now' \in 0..MaxTime /\ queued' \in 0..Capacity
  BY DEF DecisionTypeOK
<1>5. DecisionTypeOK' /\ req'[r] = h /\ body'[r] = body[r]
  <2> HIDE DEF h
  <2> QED BY <1>2, <1>3, <1>4, Effect
<1>6. /\ h.phase = "done" /\ h.code = code /\ h.version = req[r].version /\ h.at = req[r].at
      /\ h.next = req[r].next /\ h.answer = req[r].answer
      /\ h.events = req[r].events /\ h.sent = req[r].sent
  BY <1>1 DEF Handler
<1> QED
  BY <1>3, <1>5, <1>6

LEMMA GotoEffect ==
  ASSUME DecisionTypeOK, NEW r \in Request, NEW phase \in Phase,
         Goto(r, phase), UNCHANGED <<store, now, queued, body>>, audit' \subseteq Request
  PROVE  /\ DecisionTypeOK'
         /\ body'[r] = body[r]
         /\ req'[r].phase = phase /\ req'[r].code = req[r].code
         /\ req'[r].version = req[r].version /\ req'[r].at = req[r].at
         /\ req'[r].next = req[r].next /\ req'[r].answer = req[r].answer
         /\ req'[r].events = req[r].events /\ req'[r].sent = req[r].sent
         /\ \E h : req' = [req EXCEPT ![r] = h]
<1> DEFINE h == [req[r] EXCEPT !.phase = phase]
<1>1. req[r] \in Handler /\ req[r].sent \subseteq req[r].events
  BY DEF DecisionTypeOK
<1>2. h \in Handler /\ h.sent \subseteq h.events
  BY <1>1 DEF Handler
<1>3. req' = [req EXCEPT ![r] = h]
  BY DEF Goto
<1>4. store' \in Version /\ now' \in 0..MaxTime /\ queued' \in 0..Capacity
  BY DEF DecisionTypeOK
<1>5. DecisionTypeOK' /\ req'[r] = h /\ body'[r] = body[r]
  <2> HIDE DEF h
  <2> QED BY <1>2, <1>3, <1>4, Effect
<1>6. /\ h.phase = phase /\ h.code = req[r].code /\ h.version = req[r].version
      /\ h.at = req[r].at /\ h.next = req[r].next /\ h.answer = req[r].answer
      /\ h.events = req[r].events /\ h.sent = req[r].sent
  BY <1>1 DEF Handler
<1> QED
  BY <1>3, <1>5, <1>6

LEMMA SameDecision ==
  ASSUME NEW r \in Request, HandlerInv(r), body'[r] = body[r],
         req'[r].version = req[r].version, req'[r].at = req[r].at,
         req'[r].next = req[r].next, req'[r].answer = req[r].answer,
         req'[r].events = req[r].events
  PROVE  AnswerInv(r)' /\ EventsInv(r)'
<1>1. AnswerInv(r)'
  BY DEF HandlerInv, AnswerInv, Slice
<1>2. EventsInv(r)'
  BY DEF HandlerInv, EventsInv
<1> QED
  BY <1>1, <1>2

-----------------------------------------------------------------------------
(* The steps of a handler.                                                 *)

\* Every answer but 200 is given without a look at the decision.
LEMMA AnswerKeeps ==
  ASSUME DecisionInv, NEW r \in Request, NEW code \in Code, code # 0, code # 200,
         Answer(r, code), UNCHANGED <<store, now, queued, body>>,
         audit' \subseteq Request, audit' \ {r} = audit \ {r},
         r \in audit' => r \in audit \/ req[r].phase = "commit",
         code # 503 => req[r].phase \in {"new", "open", "place"}
  PROVE  DecisionInv'
<1> DecisionTypeOK /\ HandlerInv(r)
  BY DEF DecisionInv
<1>1. /\ DecisionTypeOK' /\ body'[r] = body[r]
      /\ req'[r].phase = "done" /\ req'[r].code = code
      /\ req'[r].version = req[r].version /\ req'[r].at = req[r].at
      /\ req'[r].next = req[r].next /\ req'[r].answer = req[r].answer
      /\ req'[r].events = req[r].events /\ req'[r].sent = req[r].sent
  BY AnswerEffect
<1>8. \E h : req' = [req EXCEPT ![r] = h]
  BY AnswerEffect
<1>2. AnswerInv(r)' /\ EventsInv(r)'
  BY <1>1, SameDecision
<1>3. FreshInv(r)'
  BY <1>1 DEF FreshInv
<1>4. AuditInv(r)'
  BY <1>1 DEF HandlerInv, AuditInv, Ok, Slice
<1>5. ControlInv(r)'
  BY <1>1 DEF HandlerInv, ControlInv, FreshInv, Ok, Code
<1>10. ExplainInv(r)'
  BY <1>1 DEF HandlerInv, ExplainInv, Ok, Slice
<1>6. HandlerInv(r)'
  BY <1>2, <1>3, <1>4, <1>5, <1>10 DEF HandlerInv
<1>9. OnlyHandler(r)
  BY <1>8 DEF OnlyHandler
<1>7. \A q \in Request \ {r} : HandlerInv(q)'
  BY <1>9, OthersAllKeep
<1> QED
  BY <1>1, <1>6, <1>7 DEF DecisionInv

\* The moves without an answer, each with what its guard gives.
LEMMA GotoKeeps ==
  ASSUME DecisionInv, NEW r \in Request, NEW phase \in Phase \ {"new", "done"},
         Goto(r, phase), UNCHANGED <<store, now, queued, body>>,
         audit' \subseteq Request, audit' \ {r} = audit \ {r},
         r \in audit' => r \in audit \/ req[r].phase = "commit",
         req[r].phase # "done",
         \/ req[r].phase = "new" /\ phase = "open" /\ audit' = audit
         \/ req[r].phase = "audit" /\ phase = "commit"
         \/ req[r].phase = "commit" /\ phase = "decide" /\ r \in audit'
         \/ /\ req[r].phase = "place" /\ phase = "drain" /\ audit' = audit
            /\ req[r].next \notin DOMAIN body[r].placements
         \/ phase = "gone"
  PROVE  DecisionInv'
<1> DecisionTypeOK /\ HandlerInv(r)
  BY DEF DecisionInv
<1>1. /\ DecisionTypeOK' /\ body'[r] = body[r]
      /\ req'[r].phase = phase /\ req'[r].code = req[r].code
      /\ req'[r].version = req[r].version /\ req'[r].at = req[r].at
      /\ req'[r].next = req[r].next /\ req'[r].answer = req[r].answer
      /\ req'[r].events = req[r].events /\ req'[r].sent = req[r].sent
  BY GotoEffect
<1>9. OnlyHandler(r)
  BY GotoEffect DEF OnlyHandler
<1>2. AnswerInv(r)' /\ EventsInv(r)'
  BY <1>1, SameDecision
<1>3. FreshInv(r)'
  BY <1>1 DEF HandlerInv, FreshInv
<1>4. req[r].code = 0
  BY DEF HandlerInv, ControlInv
<1>5. AuditInv(r)'
  BY <1>1, <1>4 DEF HandlerInv, AuditInv, Ok, Slice
<1>6. ControlInv(r)'
  BY <1>1, <1>4 DEF HandlerInv, ControlInv, Ok
<1>10. ExplainInv(r)'
  BY <1>1, <1>4 DEF HandlerInv, ExplainInv, Ok, Slice
<1>7. HandlerInv(r)'
  BY <1>2, <1>3, <1>5, <1>6, <1>10 DEF HandlerInv
<1>8. \A q \in Request \ {r} : HandlerInv(q)'
  BY <1>9, OthersAllKeep
<1> QED
  BY <1>1, <1>7, <1>8 DEF DecisionInv

LEMMA GrabKeeps ==
  ASSUME DecisionInv, NEW r \in Request, Grab(r)
  PROVE  DecisionInv'
<1> DecisionTypeOK /\ HandlerInv(r)
  BY DEF DecisionInv
<1> DEFINE b == body[r]
           s == Catalog[store]
<1>1. body[r] \in Body /\ req[r].phase = "open" /\ audit \subseteq Request
  BY DEF DecisionTypeOK, Grab
<1>2. CASE \E code \in {400, 403, 503} : Answer(r, code)
  <2>1. PICK code \in {400, 403, 503} : Answer(r, code)
    BY <1>2
  <2>2. code \in Code /\ code # 0 /\ code # 200
    BY DEF Code
  <2> QED
    BY <1>1, <2>1, <2>2, AnswerKeeps DEF Grab
<1>3. CASE /\ Len(b.placements) =< MaxPlacements
           /\ ForceRequested(b) => ForceGate(b, s)
           /\ req' = [req EXCEPT ![r] = [@ EXCEPT
                    !.version = store,
                    !.phase = IF ForceRequested(b) THEN "audit" ELSE "decide"]]
  <2> DEFINE phase == IF ForceRequested(b) THEN "audit" ELSE "decide"
             h == [req[r] EXCEPT !.version = store, !.phase = phase]
  <2>1. req[r] \in Handler /\ req[r].sent \subseteq req[r].events /\ store \in Version
    BY DEF DecisionTypeOK
  <2>15. phase \in Phase
    BY DEF Phase
  <2>3. req' = [req EXCEPT ![r] = h]
    BY <1>3
  <2>16. \A x \in Phase : [req[r] EXCEPT !.version = store, !.phase = x] \in Handler
    BY <2>1 DEF Handler
  <2>2. h \in Handler /\ h.sent \subseteq h.events
    <3> HIDE DEF phase
    <3>1. h \in Handler
      BY <2>15, <2>16
    <3>2. h.sent = req[r].sent /\ h.events = req[r].events
      BY <2>1 DEF Handler
    <3> QED
      BY <2>1, <3>1, <3>2
  <2>4. /\ h.phase = phase /\ h.version = store /\ h.code = req[r].code /\ h.at = req[r].at
        /\ h.next = req[r].next /\ h.answer = req[r].answer
        /\ h.events = req[r].events /\ h.sent = req[r].sent
    BY <2>1 DEF Handler
  <2> HIDE DEF h
  <2>5. DecisionTypeOK' /\ req'[r] = h /\ body'[r] = body[r]
    BY <2>2, <2>3, Effect DEF Grab, DecisionTypeOK
  <2>6. /\ req[r].next = 1 /\ req[r].events = {} /\ req[r].sent = {}
        /\ \A i \in Ids : req[r].answer[i] = {}
    BY <1>1 DEF HandlerInv, FreshInv
  <2>7. FreshInv(r)'
    BY <2>4, <2>5, <2>6 DEF FreshInv
  <2>8. req[r].code = 0 /\ r \notin audit /\ audit' = audit
    BY <1>1 DEF HandlerInv, ControlInv, AuditInv, Grab
  <2>9. AuditInv(r)'
    BY <1>3, <2>4, <2>5, <2>8 DEF AuditInv, Ok, Slice
  <2>10. ControlInv(r)'
    BY <1>3, <2>4, <2>5, <2>6, <2>8 DEF HandlerInv, ControlInv, Ok
  <2>11. AnswerInv(r)'
    BY <2>4, <2>5, <2>6 DEF AnswerInv
  <2>12. EventsInv(r)'
    <3>1. \A k \in DOMAIN body[r].placements : ~(k < 1)
      BY <1>1, PlacementsSeq
    <3> QED
      BY <2>4, <2>5, <2>6, <3>1 DEF EventsInv
  <2>17. ExplainInv(r)'
    BY <2>5 DEF ExplainInv, Grab
  <2>13. HandlerInv(r)'
    BY <2>7, <2>9, <2>10, <2>11, <2>12, <2>17 DEF HandlerInv
  <2>14. \A q \in Request \ {r} : HandlerInv(q)'
    BY <2>3, <2>8, OthersKeep DEF DecisionInv, Grab
  <2> QED
    BY <2>5, <2>13, <2>14 DEF DecisionInv
<1>4. Len(b.placements) \in Nat
  BY <1>1, PlacementsSeq
<1> QED
  BY <1>2, <1>3, <1>4, DecisionAssumption DEF Grab, Malformed

\* The explainer's one step: past the gate, from "open" to its answer.
LEMMA ExplainKeeps ==
  ASSUME DecisionInv, NEW r \in Request, Explain(r)
  PROVE  DecisionInv'
<1> DecisionTypeOK /\ HandlerInv(r)
  BY DEF DecisionInv
<1> DEFINE b == body[r]
<1>1. /\ b \in Body /\ req[r].phase = "open" /\ Explains(b) /\ audit \subseteq Request
      /\ store \in Version /\ now \in 0..MaxTime
      /\ UNCHANGED <<store, now, queued, audit, body>>
  BY DEF DecisionTypeOK, Explain
<1>2. CASE \E code \in {400, 403, 503} : Answer(r, code)
  <2>1. PICK code \in {400, 403, 503} : Answer(r, code)
    BY <1>2
  <2>2. code \in Code /\ code # 0 /\ code # 200
    BY DEF Code
  <2> QED
    BY <1>1, <2>1, <2>2, AnswerKeeps
<1>3. CASE /\ ForceRequested(b) => ForceGate(b, Catalog[store])
           /\ \E answer \in ExplainPure[store][b][now] :
                req' = [req EXCEPT ![r] = [req[r] EXCEPT
                    !.phase = "done", !.code = 200, !.version = store, !.at = now,
                    !.answer = answer]]
  <2>1. PICK answer \in ExplainPure[store][b][now] :
                req' = [req EXCEPT ![r] = [req[r] EXCEPT
                    !.phase = "done", !.code = 200, !.version = store, !.at = now,
                    !.answer = answer]]
    BY <1>3
  <2> DEFINE h == [req[r] EXCEPT !.phase = "done", !.code = 200, !.version = store,
                                 !.at = now, !.answer = answer]
  <2>2. req[r] \in Handler /\ req[r].sent \subseteq req[r].events
    BY DEF DecisionTypeOK
  <2>3. /\ answer \in [Ids -> SUBSET Ads]
        /\ \A i \in Ids : \A a \in answer[i] : \E k \in DOMAIN b.placements :
              /\ b.placements[k].id = i
              /\ \E F \in Explained(Catalog[store], b, b.placements[k], now) : a \in F
    BY <1>1, <2>1, ExplainPureRight
  <2>4. "done" \in Phase /\ 200 \in Code
    BY DEF Phase, Code
  <2>5. h \in Handler
    <3>1. answer \in [Ids -> SUBSET Ads] /\ store \in Version /\ now \in 0..MaxTime
      BY <1>1, <2>3
    <3> QED
      BY <2>2, <2>4, <3>1 DEF Handler
  <2>6. /\ h.phase = "done" /\ h.code = 200 /\ h.version = store /\ h.at = now
        /\ h.next = req[r].next /\ h.answer = answer
        /\ h.events = req[r].events /\ h.sent = req[r].sent
    BY <2>2 DEF Handler
  <2>7. req' = [req EXCEPT ![r] = h]
    BY <2>1
  <2> HIDE DEF h
  <2>8. DecisionTypeOK' /\ req'[r] = h /\ body'[r] = body[r]
    BY <1>1, <2>2, <2>5, <2>6, <2>7, Effect DEF DecisionTypeOK
  <2>9. req[r].next = 1 /\ req[r].events = {} /\ req[r].sent = {} /\ r \notin audit
    BY <1>1 DEF HandlerInv, FreshInv, AuditInv
  <2>10. FreshInv(r)'
    BY <2>6, <2>8 DEF FreshInv
  <2>11. AuditInv(r)'
    BY <1>1, <2>6, <2>8, <2>9 DEF AuditInv
  <2>12. ControlInv(r)'
    <3>1. req[r].next =< Len(body[r].placements) + 1
      BY DEF HandlerInv, ControlInv
    <3>2. Ok(r)' /\ Explains(body'[r]) /\ h.sent = {} /\ h.events = {}
      BY <1>1, <2>6, <2>8, <2>9 DEF Ok
    <3> QED
      BY <2>6, <2>8, <3>1, <3>2 DEF ControlInv
  <2>13. ExplainInv(r)'
    BY <1>1, <1>3, <2>6, <2>8, <2>9 DEF ExplainInv, Slice
  <2>14. AnswerInv(r)'
    BY <1>1, <2>3, <2>6, <2>8 DEF AnswerInv, Slice
  <2>15. EventsInv(r)'
    BY <1>1, <2>6, <2>8, <2>9 DEF EventsInv
  <2>16. \A q \in Request \ {r} : HandlerInv(q)'
    <3>1. OnlyHandler(r)
      BY <1>1, <2>7 DEF OnlyHandler
    <3> QED
      BY <3>1, OthersAllKeep
  <2> QED
    BY <2>8, <2>10, <2>11, <2>12, <2>13, <2>14, <2>15, <2>16 DEF DecisionInv, HandlerInv
<1>4. \/ \E code \in {400, 403, 503} : Answer(r, code)
      \/ /\ ForceRequested(b) => ForceGate(b, Catalog[store])
         /\ \E answer \in ExplainPure[store][b][now] :
              req' = [req EXCEPT ![r] = [req[r] EXCEPT
                  !.phase = "done", !.code = 200, !.version = store, !.at = now,
                  !.answer = answer]]
  <2>1. CASE Answer(r, 503) \/ Answer(r, 400) \/ Answer(r, 403)
    <3>1. \E code \in {400, 403, 503} : Answer(r, code)
      BY <2>1
    <3> QED
      BY <3>1
  <2>2. CASE ~(Answer(r, 503) \/ Answer(r, 400) \/ Answer(r, 403))
    BY <2>2 DEF Explain
  <2> QED
    BY <2>1, <2>2
<1> HIDE DEF b
<1> QED
  BY <1>2, <1>3, <1>4

LEMMA ReadClockKeeps ==
  ASSUME DecisionInv, NEW r \in Request, ReadClock(r)
  PROVE  DecisionInv'
<1> DecisionTypeOK /\ HandlerInv(r)
  BY DEF DecisionInv
<1> DEFINE h == [req[r] EXCEPT !.phase = "place", !.at = now]
<1>1. req[r] \in Handler /\ req[r].sent \subseteq req[r].events /\ now \in 0..MaxTime
  BY DEF DecisionTypeOK
<1>2. h \in Handler /\ h.sent \subseteq h.events
  BY <1>1 DEF Handler, Phase
<1>3. req' = [req EXCEPT ![r] = h]
  BY DEF ReadClock
<1>4. /\ h.phase = "place" /\ h.at = now /\ h.version = req[r].version /\ h.code = req[r].code
      /\ h.next = req[r].next /\ h.answer = req[r].answer
      /\ h.events = req[r].events /\ h.sent = req[r].sent
  BY <1>1 DEF Handler
<1> HIDE DEF h
<1>5. DecisionTypeOK' /\ req'[r] = h /\ body'[r] = body[r]
  BY <1>2, <1>3, Effect DEF ReadClock, DecisionTypeOK
<1>6. /\ req[r].next = 1 /\ req[r].events = {} /\ req[r].sent = {}
      /\ \A i \in Ids : req[r].answer[i] = {}
  BY DEF HandlerInv, FreshInv, ReadClock
<1>7. FreshInv(r)'
  BY <1>4, <1>5 DEF FreshInv
<1>8. AuditInv(r)'
  BY <1>4, <1>5 DEF HandlerInv, ControlInv, AuditInv, Ok, Slice, ReadClock
<1>9. ControlInv(r)'
  BY <1>4, <1>5, <1>6 DEF HandlerInv, ControlInv, Ok, ReadClock
<1>10. AnswerInv(r)'
  BY <1>4, <1>5, <1>6 DEF AnswerInv
<1>11. EventsInv(r)'
  <2>1. body[r] \in Body
    BY DEF DecisionTypeOK
  <2>2. \A k \in DOMAIN body[r].placements : ~(k < 1)
    BY <2>1, PlacementsSeq
  <2> QED
    BY <1>4, <1>5, <1>6, <2>2 DEF EventsInv
<1>12. \A q \in Request \ {r} : HandlerInv(q)'
  <2>1. OnlyHandler(r)
    BY <1>3 DEF ReadClock, OnlyHandler
  <2> QED
    BY <2>1, OthersAllKeep
<1>13. ExplainInv(r)'
  BY <1>5 DEF HandlerInv, ExplainInv, ReadClock
<1> QED
  BY <1>5, <1>7, <1>8, <1>9, <1>10, <1>11, <1>12, <1>13 DEF DecisionInv, HandlerInv

\* The one step that decides: the ads come from DecidePure, and the events added
\* are the only ones of their placement.
LEMMA PlaceKeeps ==
  ASSUME DecisionInv, NEW r \in Request, Place(r)
  PROVE  DecisionInv'
<1> DecisionTypeOK /\ HandlerInv(r)
  BY DEF DecisionInv
<1> DEFINE o == req[r]
           n == req[r].next
           p == body[r].placements[n]
<1>1. PICK ads \in DecidePure[o.version][body[r]][o.at][n] : Served(r, p, ads)
  BY DEF Place, Here
<1> DEFINE new == {[placement |-> n, ad |-> a, version |-> o.version, at |-> o.at] : a \in ads}
           h == [o EXCEPT !.answer = [o.answer EXCEPT ![p.id] = ads],
                          !.events = o.events \cup new,
                          !.next = n + 1]
<1>2. o \in Handler /\ o.sent \subseteq o.events /\ body[r] \in Body
  BY DEF DecisionTypeOK
<1>3. o.phase = "place" /\ n \in DOMAIN body[r].placements
  BY DEF Place, Placing
<1>4. /\ o.version \in Version /\ o.at \in 0..MaxTime /\ n \in Nat
      /\ o.answer \in [Ids -> SUBSET Ads] /\ o.events \subseteq Event
  BY <1>2 DEF Handler
<1>5. n \in 1..MaxPlacements /\ n =< Len(body[r].placements) /\ p.id \in Ids
  <2>1. /\ DOMAIN body[r].placements = 1..Len(body[r].placements)
        /\ Len(body[r].placements) \in Nat
        /\ \A k \in DOMAIN body[r].placements : body[r].placements[k].id \in Ids
    BY <1>2, PlacementsSeq
  <2>2. Len(body[r].placements) =< MaxPlacements
    BY <1>3 DEF HandlerInv, ControlInv
  <2>3. MaxPlacements \in Nat
    BY DecisionAssumption
  <2>4. p.id \in Ids
    BY <1>3, <2>1
  <2> HIDE DEF n, p
  <2> QED
    BY <1>3, <1>4, <2>1, <2>2, <2>3, <2>4
<1>6. ads \subseteq Ads
  BY <1>1, <1>2, <1>3, <1>4, DecidePureRight
<1>7. new \subseteq Event
  BY <1>4, <1>5, <1>6 DEF Event
<1>8. /\ [o.answer EXCEPT ![p.id] = ads] \in [Ids -> SUBSET Ads]
      /\ o.events \cup new \in SUBSET Event
      /\ n + 1 \in 1..(MaxPlacements + 1)
  <2>1. MaxPlacements \in Nat
    BY DecisionAssumption
  <2> DEFINE ans == o.answer
  <2> HIDE DEF new, n, p, ans
  <2>2. ans \in [Ids -> SUBSET Ads] /\ o.events \subseteq Event
    BY <1>4 DEF ans
  <2>3. [ans EXCEPT ![p.id] = ads] \in [Ids -> SUBSET Ads]
    BY <1>5, <1>6, <2>2
  <2>4. n + 1 \in 1..(MaxPlacements + 1)
    BY <1>5, <2>1
  <2> QED
    BY <1>7, <2>2, <2>3, <2>4 DEF ans
<1> HIDE DEF new
<1>9. h \in Handler /\ h.sent \subseteq h.events
  BY <1>2, <1>8 DEF Handler
<1>10. req' = [req EXCEPT ![r] = h]
  BY <1>1 DEF Served, new
<1>11. /\ h.phase = "place" /\ h.code = o.code /\ h.version = o.version /\ h.at = o.at
       /\ h.next = n + 1 /\ h.answer = [o.answer EXCEPT ![p.id] = ads]
       /\ h.events = o.events \cup new /\ h.sent = o.sent
  BY <1>2, <1>3 DEF Handler
<1> HIDE DEF h
<1>12. DecisionTypeOK' /\ req'[r] = h /\ body'[r] = body[r]
  BY <1>9, <1>10, Effect DEF Place, DecisionTypeOK
<1>13. FreshInv(r)'
  BY <1>11, <1>12 DEF FreshInv
<1>14. AuditInv(r)'
  BY <1>3, <1>11, <1>12 DEF HandlerInv, ControlInv, AuditInv, Ok, Slice, Place
<1>15. ControlInv(r)'
  <2>1. Len(body[r].placements) \in Nat
    BY <1>2, PlacementsSeq
  <2>2. h.next =< Len(body[r].placements) + 1
    <3>1. h.next = n + 1
      BY <1>11
    <3>2. n \in Nat /\ n =< Len(body[r].placements)
      BY <1>4, <1>5
    <3> HIDE DEF n
    <3> QED
      BY <2>1, <3>1, <3>2
  <2>3. h.code = 0 /\ h.sent = {} /\ Len(body[r].placements) =< MaxPlacements
    BY <1>3, <1>11 DEF HandlerInv, ControlInv
  <2> QED
    <3>1. /\ req'[r].phase = "place" /\ req'[r].next = h.next /\ req'[r].code = h.code
          /\ req'[r].sent = h.sent /\ body'[r] = body[r]
      BY <1>11, <1>12
    <3> HIDE DEF o, n, p
    <3> QED
      BY <2>2, <2>3, <3>1 DEF ControlInv, Ok
<1>16. AnswerInv(r)'
  <2> SUFFICES ASSUME NEW i \in Ids, NEW a \in h.answer[i]
               PROVE  \E k \in DOMAIN body[r].placements :
                        /\ body[r].placements[k].id = i
                        /\ \/ \E F \in DecidePure[o.version][body[r]][o.at][k] : a \in F
                           \/ \E F \in Explained(Catalog[o.version], body[r],
                                                body[r].placements[k], o.at) : a \in F
    <3>1. /\ req'[r].answer = h.answer /\ req'[r].version = o.version
          /\ req'[r].at = o.at /\ body'[r] = body[r]
      BY <1>11, <1>12
    <3> HIDE DEF o, n, p
    <3> QED
      BY <3>1 DEF AnswerInv, Slice
  <2>1. CASE i = p.id
    BY <1>1, <1>3, <1>4, <1>5, <1>11, <2>1
  <2>2. CASE i # p.id
    BY <1>4, <1>5, <1>11, <2>2 DEF HandlerInv, AnswerInv, Slice
  <2> QED
    BY <2>1, <2>2
<1>17. EventsInv(r)'
  <2>0. \A e \in o.events : e.placement \in Nat /\ e.placement < n
    <3>1. \A e \in o.events : e.placement \in Nat
      BY <1>4 DEF Event
    <3>2. \A e \in o.events : e.placement < n
      BY DEF HandlerInv, EventsInv
    <3> QED
      BY <3>1, <3>2
  <2>1. \A e \in h.events : e.placement < n + 1 /\ e.version = o.version /\ e.at = o.at
    <3>1. \A e \in o.events : e.placement \in Nat /\ e.placement < n
      BY <2>0
    <3>2. \A e \in o.events : e.version = o.version /\ e.at = o.at
      BY DEF HandlerInv, EventsInv
    <3>3. \A e \in new : e.placement = n /\ e.version = o.version /\ e.at = o.at
      BY DEF new
    <3>4. \A e \in o.events : e.placement < n + 1
      BY <1>4, <3>1
    <3>5. n < n + 1
      BY <1>4
    <3> QED
      BY <1>11, <3>2, <3>3, <3>4, <3>5
  <2>2. ASSUME DistinctIds(body[r]), ~Explains(body[r]), NEW k \in DOMAIN body[r].placements, k < n + 1
        PROVE  h.answer[body[r].placements[k].id] =
                  {e.ad : e \in {x \in h.events : x.placement = k}}
    <3>1. k \in Nat /\ body[r].placements[k].id \in Ids
      BY <1>2, PlacementsSeq
    <3>2. CASE k = n
      <4>1. {x \in h.events : x.placement = k} = new
        <5>1. \A x \in o.events : x.placement # n
          BY <1>4, <2>0
        <5>2. \A x \in new : x.placement = n
          BY DEF new
        <5> QED
          BY <1>11, <3>2, <5>1, <5>2
      <4>2. {e.ad : e \in new} = ads
        <5>1. \A e \in new : e.ad \in ads
          BY DEF new
        <5>2. ASSUME NEW a \in ads
              PROVE  \E e \in new : e.ad = a
          <6> DEFINE e == [placement |-> n, ad |-> a, version |-> o.version, at |-> o.at]
          <6>1. e \in new /\ e.ad = a
            BY DEF new
          <6> QED
            BY <6>1
        <5> QED
          BY <5>1, <5>2
      <4> QED
        BY <1>4, <1>5, <1>11, <3>2, <4>1, <4>2
    <3>3. CASE k < n
      <4>1. body[r].placements[k].id # p.id
        BY <1>3, <1>4, <2>2, <3>1, <3>3 DEF DistinctIds
      <4>2. {x \in h.events : x.placement = k} = {x \in o.events : x.placement = k}
        <5>1. \A x \in new : x.placement # k
          BY <1>4, <3>1, <3>3 DEF new
        <5> QED
          BY <1>11, <5>1
      <4>3. o.answer[body[r].placements[k].id] = {e.ad : e \in {x \in o.events : x.placement = k}}
        BY <2>2, <3>3 DEF HandlerInv, EventsInv
      <4> QED
        BY <1>4, <1>11, <3>1, <4>1, <4>2, <4>3
    <3>4. k = n \/ k < n
      BY <1>4, <2>2, <3>1
    <3> QED
      BY <3>2, <3>3, <3>4
  <2>3. /\ req'[r].answer = h.answer /\ req'[r].events = h.events /\ req'[r].next = n + 1
        /\ req'[r].version = o.version /\ req'[r].at = o.at /\ body'[r] = body[r]
    BY <1>11, <1>12
  <2> HIDE DEF o, n, p
  <2> QED
    BY <2>1, <2>2, <2>3 DEF EventsInv
<1>19. ExplainInv(r)'
  BY <1>3, <1>12 DEF HandlerInv, ExplainInv
<1>18. \A q \in Request \ {r} : HandlerInv(q)'
  <2>1. OnlyHandler(r)
    BY <1>10 DEF Place, OnlyHandler
  <2> QED
    BY <2>1, OthersAllKeep
<1> QED
  BY <1>12, <1>13, <1>14, <1>15, <1>16, <1>17, <1>18, <1>19
  DEF DecisionInv, HandlerInv

LEMMA SendKeeps ==
  ASSUME DecisionInv, NEW r \in Request, Send(r)
  PROVE  DecisionInv'
<1> DecisionTypeOK /\ HandlerInv(r)
  BY DEF DecisionInv
<1>1. PICK e \in req[r].events \ req[r].sent :
          req' = [req EXCEPT ![r] = [req[r] EXCEPT !.sent = req[r].sent \cup {e}]]
  BY DEF Send
<1> DEFINE h == [req[r] EXCEPT !.sent = req[r].sent \cup {e}]
<1>2. req[r] \in Handler /\ req[r].sent \subseteq req[r].events
  BY DEF DecisionTypeOK
<1>3. req[r].events \subseteq Event
  BY <1>2 DEF Handler
<1>4. h \in Handler /\ h.sent \subseteq h.events
  BY <1>1, <1>2, <1>3 DEF Handler
<1>5. req' = [req EXCEPT ![r] = h]
  BY <1>1
<1>6. /\ h.phase = "drain" /\ h.code = req[r].code /\ h.version = req[r].version
      /\ h.at = req[r].at /\ h.next = req[r].next /\ h.answer = req[r].answer
      /\ h.events = req[r].events
  BY <1>2 DEF Handler, Send
<1> HIDE DEF h
<1>7. queued' \in 0..Capacity
  BY DecisionAssumption DEF Send, DecisionTypeOK
<1>8. DecisionTypeOK' /\ req'[r] = h /\ body'[r] = body[r]
  BY <1>4, <1>5, <1>7, Effect DEF Send, DecisionTypeOK
<1>9. AnswerInv(r)' /\ EventsInv(r)'
  BY <1>6, <1>8, SameDecision
<1>10. FreshInv(r)'
  BY <1>6, <1>8 DEF FreshInv
<1>11. req[r].phase = "drain" /\ req[r].code = 0
  BY DEF HandlerInv, ControlInv, Send
<1>12. AuditInv(r)'
  BY <1>6, <1>8, <1>11 DEF HandlerInv, AuditInv, Ok, Slice, Send
<1>13. ControlInv(r)'
  BY <1>6, <1>8, <1>11 DEF HandlerInv, ControlInv, Ok
<1>15. ExplainInv(r)'
  BY <1>8, <1>11 DEF HandlerInv, ExplainInv
<1>14. \A q \in Request \ {r} : HandlerInv(q)'
  <2>1. OnlyHandler(r)
    BY <1>5 DEF Send, OnlyHandler
  <2> QED
    BY <2>1, OthersAllKeep
<1> QED
  BY <1>8, <1>9, <1>10, <1>12, <1>13, <1>14, <1>15 DEF DecisionInv, HandlerInv

LEMMA RespondKeeps ==
  ASSUME DecisionInv, NEW r \in Request, Respond(r)
  PROVE  DecisionInv'
<1> DecisionTypeOK /\ HandlerInv(r)
  BY DEF DecisionInv
<1>1. /\ DecisionTypeOK' /\ body'[r] = body[r]
      /\ req'[r].phase = "done" /\ req'[r].code = 200
      /\ req'[r].version = req[r].version /\ req'[r].at = req[r].at
      /\ req'[r].next = req[r].next /\ req'[r].answer = req[r].answer
      /\ req'[r].events = req[r].events /\ req'[r].sent = req[r].sent
      /\ \E h : req' = [req EXCEPT ![r] = h]
  BY AnswerEffect DEF Respond, DecisionTypeOK, Code
<1>2. AnswerInv(r)' /\ EventsInv(r)'
  BY <1>1, SameDecision
<1>3. FreshInv(r)'
  BY <1>1 DEF FreshInv
<1>4. AuditInv(r)'
  BY <1>1 DEF HandlerInv, AuditInv, Ok, Slice, Respond
<1>5. ControlInv(r)'
  BY <1>1 DEF HandlerInv, ControlInv, Ok, Respond
<1>7. ExplainInv(r)'
  BY <1>1 DEF HandlerInv, ExplainInv, Respond
<1>6. \A q \in Request \ {r} : HandlerInv(q)'
  <2>1. OnlyHandler(r)
    BY <1>1 DEF Respond, OnlyHandler
  <2> QED
    BY <2>1, OthersAllKeep
<1> QED
  BY <1>1, <1>2, <1>3, <1>4, <1>5, <1>6, <1>7 DEF DecisionInv, HandlerInv

LEMMA HandleKeeps ==
  ASSUME DecisionInv, NEW r \in Request, Handle(r) \/ HangUp(r)
  PROVE  DecisionInv'
<1> audit \subseteq Request
  BY DEF DecisionInv, DecisionTypeOK
<1>1. CASE Open(r)
  <2>1. CASE Goto(r, "open")
    BY <1>1, <2>1, GotoKeeps DEF Open, Phase
  <2>2. CASE Answer(r, 403)
    BY <1>1, <2>2, AnswerKeeps DEF Code, Open
  <2> QED
    BY <1>1, <2>1, <2>2 DEF Open
<1>2. CASE AuditForce(r)
  <2>1. CASE Goto(r, "commit")
    BY <1>2, <2>1, GotoKeeps DEF AuditForce, Phase
  <2>2. CASE Answer(r, 503)
    BY <1>2, <2>2, AnswerKeeps DEF Code, AuditForce
  <2> QED
    BY <1>2, <2>1, <2>2 DEF AuditForce
<1>3. CASE Commit(r)
  <2>1. CASE audit' = audit \cup {r} /\ Goto(r, "decide")
    BY <1>3, <2>1, GotoKeeps DEF Commit, Phase
  <2>2. CASE audit' \in {audit, audit \cup {r}} /\ Answer(r, 503)
    BY <1>3, <2>2, AnswerKeeps DEF Code, Commit
  <2> QED
    BY <1>3, <2>1, <2>2 DEF Commit
<1>4. CASE PlaceRefused(r)
  BY <1>4, AnswerKeeps DEF Code, PlaceRefused, Placing
<1>5. CASE Placed(r)
  BY <1>5, GotoKeeps DEF Placed, Phase
<1>6. CASE Saturated(r)
  BY <1>6, AnswerKeeps DEF Code, Saturated
<1>7. CASE HangUp(r)
  <2>1. req[r].phase \in {"new", "audit", "commit"} /\ Goto(r, "gone")
    BY <1>7 DEF HangUp
  <2>2. /\ audit' \subseteq Request /\ audit' \ {r} = audit \ {r}
        /\ r \in audit' => r \in audit \/ req[r].phase = "commit"
        /\ UNCHANGED <<store, now, queued, body>>
    BY <1>7 DEF HangUp
  <2> QED
    BY <2>1, <2>2, GotoKeeps DEF Phase
<1> QED
  BY <1>1, <1>2, <1>3, <1>4, <1>5, <1>6, <1>7, GrabKeeps, ExplainKeeps, ReadClockKeeps,
     PlaceKeeps, SendKeeps, RespondKeeps
  DEF Handle

-----------------------------------------------------------------------------
(* The invariant and what follows.                                         *)

LEMMA InitInv == DecisionInit => DecisionInv
<1> SUFFICES ASSUME DecisionInit
             PROVE  DecisionInv
  OBVIOUS
<1>1. DecisionTypeOK
  BY DecisionAssumption DEF DecisionInit, DecisionTypeOK, Handler, Phase, Code
<1>2. ASSUME NEW r \in Request
      PROVE  HandlerInv(r)
  <2>1. /\ req[r].phase = "new" /\ req[r].code = 0 /\ req[r].next = 1
        /\ req[r].events = {} /\ req[r].sent = {}
        /\ \A i \in Ids : req[r].answer[i] = {}
        /\ audit = {} /\ body[r] \in Body
    BY DEF DecisionInit
  <2>2. /\ Len(body[r].placements) \in Nat
        /\ \A k \in DOMAIN body[r].placements : ~(k < 1)
    BY <2>1, PlacementsSeq
  <2>3. FreshInv(r) /\ AuditInv(r) /\ ControlInv(r) /\ ExplainInv(r)
    BY <2>1, <2>2 DEF FreshInv, AuditInv, ControlInv, ExplainInv, Ok
  <2>4. AnswerInv(r) /\ EventsInv(r)
    BY <2>1, <2>2 DEF AnswerInv, EventsInv
  <2> QED
    BY <2>3, <2>4 DEF HandlerInv
<1> QED
  BY <1>1, <1>2 DEF DecisionInv

\* What happens around the handlers does not touch them.
LEMMA EnvironmentKeeps ==
  ASSUME DecisionInv, UNCHANGED <<audit, body, req>>,
         store' \in Version, now' \in 0..MaxTime, queued' \in 0..Capacity
  PROVE  DecisionInv'
<1>1. DecisionTypeOK'
  BY DEF DecisionInv, DecisionTypeOK
<1>2. ASSUME NEW r \in Request
      PROVE  HandlerInv(r)'
  <2>1. HandlerInv(r)
    BY DEF DecisionInv
  <2>2. FreshInv(r)'
    BY <2>1 DEF HandlerInv, FreshInv
  <2>3. AuditInv(r)'
    BY <2>1 DEF HandlerInv, AuditInv, Ok, Slice
  <2>4. ControlInv(r)'
    BY <2>1 DEF HandlerInv, ControlInv, Ok
  <2>5. AnswerInv(r)'
    BY <2>1 DEF HandlerInv, AnswerInv, Slice
  <2>6. EventsInv(r)'
    BY <2>1 DEF HandlerInv, EventsInv
  <2>7. ExplainInv(r)'
    BY <2>1 DEF HandlerInv, ExplainInv, Ok, Slice
  <2> QED
    BY <2>2, <2>3, <2>4, <2>5, <2>6, <2>7 DEF HandlerInv
<1> QED
  BY <1>1, <1>2 DEF DecisionInv

LEMMA StepInv == DecisionInv /\ [DecisionNext]_vars => DecisionInv'
<1> SUFFICES ASSUME DecisionInv, [DecisionNext]_vars
             PROVE  DecisionInv'
  OBVIOUS
<1> USE DecisionAssumption
<1>1. store \in Version /\ now \in 0..MaxTime /\ queued \in 0..Capacity
  BY DEF DecisionInv, DecisionTypeOK
<1>2. CASE \E r \in Request : Handle(r) \/ HangUp(r)
  BY <1>2, HandleKeeps
<1>3. CASE Swap
  BY <1>1, <1>3, EnvironmentKeeps DEF Swap
<1>4. CASE Tick
  BY <1>1, <1>4, EnvironmentKeeps DEF Tick
<1>5. CASE Receive
  BY <1>1, <1>5, EnvironmentKeeps DEF Receive
<1>6. CASE UNCHANGED vars
  BY <1>1, <1>6, EnvironmentKeeps DEF vars
<1> QED
  BY <1>2, <1>3, <1>4, <1>5, <1>6 DEF DecisionNext

\* What the invariant says of an answer that has been given.
LEMMA InvEligible == DecisionInv => AnswersEligible
<1> SUFFICES ASSUME DecisionInv, NEW r \in Request, Ok(r), NEW i \in Ids, NEW a \in req[r].answer[i]
             PROVE  \E k \in DOMAIN body[r].placements :
                      /\ body[r].placements[k].id = i
                      /\ Right(Slice(r), body[r], body[r].placements[k], req[r].at, a)
  BY DEF AnswersEligible, Right
<1>1. AnswerInv(r)
  BY DEF DecisionInv, HandlerInv
<1>2. PICK k \in DOMAIN body[r].placements :
          /\ body[r].placements[k].id = i
          /\ \/ \E F \in DecidePure[req[r].version][body[r]][req[r].at][k] : a \in F
             \/ \E F \in Explained(Slice(r), body[r], body[r].placements[k], req[r].at) : a \in F
  BY <1>1 DEF AnswerInv
<1>3. req[r].version \in Version /\ req[r].at \in 0..MaxTime /\ body[r] \in Body
  BY DEF DecisionInv, DecisionTypeOK, Handler
<1>4. Right(Slice(r), body[r], body[r].placements[k], req[r].at, a)
  BY <1>2, <1>3, DecidePureRight, ExplainedRight DEF Slice
<1> QED
  BY <1>2, <1>4

LEMMA InvAudited == DecisionInv => ForceAudited
<1> SUFFICES ASSUME DecisionInv, NEW r \in Request
             PROVE  /\ Ok(r) /\ ForceRequested(body[r]) =>
                          /\ ForceGate(body[r], Slice(r))
                          /\ Explains(body[r]) \/ r \in audit
                    /\ r \in audit =>
                          /\ ForceRequested(body[r]) /\ ForceGate(body[r], Slice(r))
                          /\ ~Explains(body[r])
  BY DEF ForceAudited
<1>1. AuditInv(r) /\ ExplainInv(r)
  BY DEF DecisionInv, HandlerInv
<1> QED
  BY <1>1 DEF AuditInv, ExplainInv

\* An answered handler has gone through every placement, so EventsInv is about all.
LEMMA InvEvents == DecisionInv => EventsMatchAnswer
<1> SUFFICES ASSUME DecisionInv, NEW r \in Request
             PROVE  /\ Ok(r) =>
                        /\ req[r].sent = req[r].events
                        /\ \A e \in req[r].events : e.version = req[r].version /\ e.at = req[r].at
                    /\ Ok(r) /\ DistinctIds(body[r]) /\ ~Explains(body[r]) =>
                        \A k \in DOMAIN body[r].placements :
                            req[r].answer[body[r].placements[k].id] =
                                {e.ad : e \in {x \in req[r].events : x.placement = k}}
                    /\ req[r].code \in {400, 403} \/ Explains(body[r]) => req[r].sent = {}
  BY DEF EventsMatchAnswer
<1>1. ControlInv(r) /\ EventsInv(r) /\ ExplainInv(r)
  BY DEF DecisionInv, HandlerInv
<1>2. ASSUME Ok(r), ~Explains(body[r]), NEW k \in DOMAIN body[r].placements
      PROVE  k < req[r].next
  <2>1. req[r].next \in Nat /\ req[r].next >= 1 /\ body[r] \in Body
    BY DecisionAssumption DEF DecisionInv, DecisionTypeOK, Handler
  <2>2. Len(body[r].placements) \in Nat /\ DOMAIN body[r].placements = 1..Len(body[r].placements)
    BY <2>1, PlacementsSeq
  <2>3. req[r].next \notin 1..Len(body[r].placements)
    BY <1>1, <1>2, <2>2 DEF ControlInv
  <2>4. k \in 1..Len(body[r].placements)
    BY <2>2
  <2> QED
    BY <2>1, <2>2, <2>3, <2>4
<1> QED
  BY <1>1, <1>2 DEF ControlInv, EventsInv, ExplainInv

\* The inductive invariant: the type invariant, and HandlerInv of every handler.
THEOREM DecisionInvariant == DecisionSpec => []DecisionInv
<1> QED
  BY InitInv, StepInv, PTL DEF DecisionSpec

\* The state has its type: the channel never holds more events than its capacity
\* and a handler has sent only events of its own decision (drain_to_sender).
THEOREM DecisionTypeCorrect == DecisionSpec => []DecisionTypeOK
<1>1. DecisionInv => DecisionTypeOK
  BY DEF DecisionInv
<1> QED
  BY <1>1, DecisionInvariant, PTL

\* Every ad of an answer, or of an explanation, is forced, or passes the filters and is of the first
\* priority tier, in the one snapshot the handler grabbed and at the one time it
\* read, whatever is swapped in meanwhile (decide_pure).
THEOREM AnswersAreEligible == DecisionSpec => []AnswersEligible
<1> QED
  BY InvEligible, DecisionInvariant, PTL

\* No forced answer past a closed gate, no forced decision without its committed
\* audit row, and no row for a request that the gate would have refused or that was
\* only explained (force_gate, audit_force_honored).
THEOREM ForceIsAudited == DecisionSpec => []ForceAudited
<1> QED
  BY InvAudited, DecisionInvariant, PTL

\* The events of an answered request are its ads, all sent; a request refused for
\* its content has sent none (drain_to_sender).
THEOREM EventsAreTheAnswer == DecisionSpec => []EventsMatchAnswer
<1> QED
  BY InvEvents, DecisionInvariant, PTL

-----------------------------------------------------------------------------
Slots == 1..Len(candidates)

Picked(i) == \E k \in DOMAIN picks : picks[k] = i

(* A slot keeps its weight until it is drawn, only slots of positive weight *)
(* are drawn, and each once.                                                *)
PoolInv ==
    /\ candidates \in Seq(Weight) /\ count \in Nat
    /\ pool \in Seq(Nat) /\ Len(pool) = Len(candidates)
    /\ picks \in Seq(Slots)
    /\ \A i \in Slots : pool[i] = IF Picked(i) \/ candidates[i] =< 0 THEN 0 ELSE candidates[i]
    /\ \A k \in 1..Len(picks) : candidates[picks[k]] > 0
    /\ \A k, l \in 1..Len(picks) : picks[k] = picks[l] => k = l

LoopInv ==
    /\ Len(picks) =< Target
    /\ done => Len(picks) = Target \/ Total =< 0

SelectionInv == PoolInv /\ LoopInv

-----------------------------------------------------------------------------
LEMMA SumsDef ==
  ASSUME pool \in Seq(Nat)
  PROVE  /\ Sums \in [0..Len(pool) -> Nat]
         /\ Sums[0] = 0
         /\ \A i \in 1..Len(pool) : Sums[i] = Sums[i - 1] + pool[i]
<1> DEFINE n == Len(pool)
           S == Nat
           turn == [k \in 1..n |-> [x \in S |-> x + pool[k]]]
<1>0. n \in Nat /\ \A k \in 1..n : pool[k] \in Nat
  OBVIOUS
<1>1. turn \in [1..n -> [S -> S]]
  BY <1>0
<1>2. \A k \in 1..n : \A x \in S : turn[k][x] = x + pool[k]
  OBVIOUS
<1>3. PICK zero : zero = 0
  OBVIOUS
<1>4. zero \in S
  BY <1>3
<1> HIDE DEF n, S, turn
<1>5. PICK f \in [0..n -> S] : Loop(f, zero, turn, n)
  BY <1>0, <1>1, <1>4, LoopExists
<1>6. \A k \in 1..n : k - 1 \in 0..n /\ f[k - 1] \in S
  BY <1>0
<1>7. f = [k \in 0..n |-> IF k = 0 THEN 0 ELSE f[k - 1] + pool[k]]
  <2>1. \A k \in 1..n : f[k] = f[k - 1] + pool[k]
    BY <1>2, <1>5, <1>6 DEF Loop
  <2> QED
    BY <1>0, <1>3, <1>5, <2>1 DEF Loop
<1> DEFINE s == Sums
<1>8. s = CHOOSE g : g = [k \in 0..n |-> IF k = 0 THEN 0 ELSE g[k - 1] + pool[k]]
  BY DEF Sums, n
<1> HIDE DEF s
<1>9. s = [k \in 0..n |-> IF k = 0 THEN 0 ELSE s[k - 1] + pool[k]]
  BY <1>7, <1>8
<1>10. s[0] = 0 /\ \A k \in 1..n : s[k] = s[k - 1] + pool[k]
  <2>1. \A k \in 0..n : s[k] = IF k = 0 THEN 0 ELSE s[k - 1] + pool[k]
    BY <1>9, Zenon
  <2>2. 0 \in 0..n /\ \A k \in 1..n : k \in 0..n /\ k # 0
    BY <1>0
  <2> QED
    BY <2>1, <2>2
<1> DEFINE T == {k \in 0..n : s[k] \in Nat}
<1>11. 0..n \subseteq T
  <2>1. ASSUME NEW k \in 0..n, k \in T, k < n
        PROVE  k + 1 \in T
    <3>1. k + 1 \in 1..n /\ k + 1 \in 0..n /\ (k + 1) - 1 = k
      BY <1>0, <2>1
    <3>2. s[k + 1] = s[k] + pool[k + 1] /\ pool[k + 1] \in Nat
      BY <1>0, <1>10, <3>1
    <3>3. s[k] \in Nat
      BY <2>1
    <3> QED
      BY <3>1, <3>2, <3>3
  <2>2. 0 \in T
    BY <1>0, <1>10
  <2> HIDE DEF T
  <2> QED
    BY <1>0, <2>1, <2>2, UpToInduction
<1>12. s \in [0..n -> Nat]
  <2>1. \A k \in 0..n : s[k] \in Nat
    BY <1>11
  <2> QED
    BY <1>9, <2>1
<1> QED
  BY <1>10, <1>12 DEF s, n

LEMMA SumsGrow ==
  ASSUME pool \in Seq(Nat), NEW j \in 0..Len(pool), NEW i \in 0..j
  PROVE  Sums[i] =< Sums[j]
<1> DEFINE n == Len(pool)
           s == Sums
           T == {k \in 0..n : \A m \in 0..k : s[m] =< s[k]}
<1>0. n \in Nat /\ \A k \in 1..n : pool[k] \in Nat
  OBVIOUS
<1>1. s \in [0..n -> Nat] /\ \A k \in 1..n : s[k] = s[k - 1] + pool[k]
  BY SumsDef
<1> HIDE DEF n, s
<1>2. \A k \in 0..n : k \in T /\ k < n => k + 1 \in T
  <2> SUFFICES ASSUME NEW k \in 0..n, k \in T, k < n, NEW m \in 0..(k + 1)
               PROVE  s[m] =< s[k + 1]
    BY <1>0
  <2>1. k + 1 \in 1..n /\ k = (k + 1) - 1 /\ k \in 0..n
    BY <1>0
  <2>2. s[k + 1] = s[k] + pool[k + 1] /\ s[k] \in Nat /\ pool[k + 1] \in Nat
    BY <1>0, <1>1, <2>1
  <2>3. CASE m = k + 1
    BY <2>2, <2>3
  <2>4. CASE m \in 0..k
    <3>1. s[m] =< s[k] /\ s[m] \in Nat
      BY <1>0, <1>1, <2>4
    <3> QED
      BY <2>2, <3>1
  <2> QED
    BY <2>1, <2>3, <2>4
<1>3. 0 \in T
  BY <1>0, <1>1
<1> HIDE DEF T
<1>4. 0..n \subseteq T
  BY <1>0, <1>2, <1>3, UpToInduction
<1>5. j \in T
  BY <1>4 DEF n
<1> QED
  BY <1>5 DEF T, s

(* A roll below the total falls in one slot: the walk stops at the first    *)
(* slot up to which the weights add up to more than the roll.               *)
LEMMA HitsFirst ==
  ASSUME pool \in Seq(Nat), NEW roll \in 0..(Total - 1)
  PROVE  /\ Hits(roll) # {}
         /\ Min(Hits(roll)) \in 1..Len(pool)
         /\ pool[Min(Hits(roll))] # 0
         /\ \A i \in 1..Len(pool) :
               Min(Hits(roll)) = i <=> Sums[i - 1] =< roll /\ roll < Sums[i]
<1> DEFINE n == Len(pool)
           s == Sums
           J == {k \in 0..n : roll < s[k]}
<1>0. n \in Nat /\ DOMAIN pool = 1..n /\ \A k \in 1..n : pool[k] \in Nat
  OBVIOUS
<1>1. s \in [0..n -> Nat] /\ s[0] = 0 /\ \A k \in 1..n : s[k] = s[k - 1] + pool[k]
  BY SumsDef
<1>2. \A k \in 0..n : \A i \in 0..k : s[i] =< s[k]
  BY SumsGrow
<1>3. n \in 0..n /\ s[n] \in Nat /\ s[n] = Total
  BY <1>0, <1>1 DEF Total
<1>4. roll \in Nat /\ roll < s[n]
  BY <1>3
<1>5. Hits(roll) = {i \in 1..n : pool[i] # 0 /\ roll - s[i - 1] < pool[i]}
  BY <1>0 DEF Hits, Before
<1> HIDE DEF n, s
<1>6. \A i \in 1..n : i - 1 \in 0..n /\ i \in 0..n /\ s[i - 1] \in Nat /\ s[i] \in Nat
  BY <1>0, <1>1
<1>7. J \subseteq Nat /\ n \in J
  BY <1>0, <1>3, <1>4
<1>8. PICK j \in J : \A k \in J : j =< k
  <2> HIDE DEF J
  <2> QED
    BY <1>7, NatMin
<1>9. j \in 1..n /\ s[j - 1] =< roll /\ roll < s[j]
  <2>1. j # 0
    BY <1>1, <1>4, <1>8
  <2>2. j \in 1..n
    BY <1>0, <1>8, <2>1
  <2>3. j - 1 \notin J
    BY <1>8, <2>2
  <2> QED
    BY <1>4, <1>6, <1>8, <2>2, <2>3
<1>10. s[j] = s[j - 1] + pool[j] /\ pool[j] \in Nat /\ s[j - 1] \in Nat
  BY <1>0, <1>1, <1>6, <1>9
<1>11. pool[j] # 0 /\ j \in Hits(roll)
  BY <1>4, <1>5, <1>9, <1>10
<1>12. \A k \in Hits(roll) : k \in 1..n /\ j =< k
  <2> SUFFICES ASSUME NEW k \in 1..n, roll - s[k - 1] < pool[k] PROVE j =< k
    BY <1>5
  <2>1. s[k] = s[k - 1] + pool[k] /\ pool[k] \in Nat /\ s[k - 1] \in Nat
    BY <1>0, <1>1, <1>6
  <2>2. roll < s[k] /\ k \in 0..n
    BY <1>4, <1>6, <2>1
  <2> QED
    BY <1>8, <2>2
<1>13. Min(Hits(roll)) = j
  <2> DEFINE H == Hits(roll)
  <2>1. j \in H /\ \A k \in H : j =< k
    BY <1>11, <1>12
  <2>2. \A x \in H : (\A y \in H : x =< y) => x = j
    BY <1>9, <1>11, <1>12
  <2> HIDE DEF H
  <2> QED
    BY <2>1, <2>2 DEF Min, H
<1>14. ASSUME NEW i \in 1..n, s[i - 1] =< roll, roll < s[i] PROVE i = j
  <2>1. j =< i
    BY <1>6, <1>8, <1>14
  <2>2. CASE j < i
    <3>1. i - 1 \in 0..n /\ j \in 0..(i - 1)
      BY <1>0, <1>9, <2>2
    <3>2. s[j] =< s[i - 1]
      BY <1>2, <3>1
    <3> QED
      BY <1>4, <1>6, <1>9, <1>14, <3>2
  <2> QED
    BY <1>9, <2>1, <2>2
<1> QED
  BY <1>9, <1>11, <1>13, <1>14 DEF n, s

-----------------------------------------------------------------------------
LEMMA InitSelection == SelectionInit => SelectionInv
<1> SUFFICES ASSUME SelectionInit PROVE SelectionInv
  OBVIOUS
<1>1. PICK n \in 0..MaxCandidates : candidates \in [1..n -> Weight]
  BY DEF SelectionInit
<1>2. /\ n \in Nat /\ count \in Nat /\ picks = <<>> /\ done = FALSE
      /\ pool = InitialPool(candidates)
  BY <1>1, SelectionAssumption DEF SelectionInit
<1>3. candidates \in Seq(Weight) /\ Len(candidates) = n /\ DOMAIN candidates = 1..n
  <2>1. candidates \in Seq(Weight)
    BY <1>1, <1>2, SeqDef
  <2>2. DOMAIN candidates = 1..n /\ DOMAIN candidates = 1..Len(candidates)
    BY <1>1, <2>1
  <2> QED
    BY <1>2, <2>1, <2>2
<1>4. \A i \in 1..n : candidates[i] \in Int
  BY <1>1, SelectionAssumption
<1>5. /\ pool \in [1..n -> Nat]
      /\ \A i \in 1..n : pool[i] = IF candidates[i] > 0 THEN candidates[i] ELSE 0
  BY <1>2, <1>3, <1>4 DEF InitialPool
<1>6. pool \in Seq(Nat) /\ Len(pool) = n
  <2>1. pool \in Seq(Nat)
    BY <1>2, <1>5, SeqDef
  <2>2. DOMAIN pool = 1..n /\ DOMAIN pool = 1..Len(pool)
    BY <1>5, <2>1
  <2> QED
    BY <1>2, <2>1, <2>2
<1>7. picks \in Seq(Slots) /\ Len(picks) = 0 /\ DOMAIN picks = {}
  BY <1>2
<1>8. PoolInv
  BY <1>2, <1>3, <1>4, <1>5, <1>6, <1>7 DEF PoolInv, Slots, Picked
<1>9. LoopInv
  BY <1>2, <1>3, <1>7 DEF LoopInv, Target
<1> QED
  BY <1>8, <1>9 DEF SelectionInv

LEMMA SelectionTypes ==
  ASSUME SelectionInv
  PROVE  /\ Len(candidates) \in Nat /\ count \in Nat /\ Len(picks) \in Nat
         /\ DOMAIN candidates = 1..Len(candidates)
         /\ \A i \in 1..Len(candidates) : candidates[i] \in Int
         /\ pool \in Seq(Nat) /\ Len(pool) = Len(candidates)
         /\ DOMAIN pool = 1..Len(candidates)
         /\ picks \in Seq(1..Len(candidates)) /\ DOMAIN picks = 1..Len(picks)
<1>1. /\ candidates \in Seq(Weight) /\ pool \in Seq(Nat) /\ count \in Nat
      /\ picks \in Seq(1..Len(candidates)) /\ Len(pool) = Len(candidates)
  BY DEF SelectionInv, PoolInv, Slots
<1>2. /\ Len(candidates) \in Nat /\ DOMAIN candidates = 1..Len(candidates)
      /\ \A i \in 1..Len(candidates) : candidates[i] \in Weight
  BY <1>1, LenProperties
<1>3. DOMAIN pool = 1..Len(pool)
  BY <1>1, LenProperties
<1>4. Len(picks) \in Nat /\ DOMAIN picks = 1..Len(picks)
  BY <1>1, LenProperties
<1> QED
  BY <1>1, <1>2, <1>3, <1>4, SelectionAssumption

LEMMA DrawKeeps ==
  ASSUME SelectionInv, Draw
  PROVE  SelectionInv'
<1> DEFINE n == Len(candidates)
<1>0. /\ n \in Nat /\ Len(pool) = n /\ DOMAIN pool = 1..n /\ DOMAIN picks = 1..Len(picks)
      /\ Len(picks) \in Nat /\ pool \in Seq(Nat) /\ picks \in Seq(1..n)
      /\ \A i \in 1..n : candidates[i] \in Int
  BY SelectionTypes
<1>1. PICK roll \in 0..(Total - 1) :
         /\ picks' = Append(picks, Min(Hits(roll)))
         /\ pool' = [pool EXCEPT ![Min(Hits(roll))] = 0]
         /\ done' = done
  BY <1>0, HitsFirst DEF Draw
<1> DEFINE i == Min(Hits(roll))
<1>2. i \in 1..n /\ pool[i] # 0
  BY <1>0, <1>1, HitsFirst
<1>3. /\ candidates' = candidates /\ count' = count
      /\ picks' = Append(picks, i) /\ pool' = [pool EXCEPT ![i] = 0] /\ ~done'
      /\ Len(picks) < Target
  BY <1>1 DEF Draw
<1> HIDE DEF i
<1>4. /\ picks' \in Seq(1..n) /\ Len(picks') = Len(picks) + 1
      /\ DOMAIN picks' = 1..(Len(picks) + 1)
      /\ picks'[Len(picks) + 1] = i
      /\ \A k \in 1..Len(picks) : picks'[k] = picks[k]
  BY <1>0, <1>2, <1>3
<1>5. ~Picked(i) /\ candidates[i] > 0
  BY <1>0, <1>2 DEF SelectionInv, PoolInv, Slots
<1>6. pool' \in Seq(Nat) /\ Len(pool') = n /\ pool'[i] = 0
      /\ \A j \in 1..n : j # i => pool'[j] = pool[j]
  BY <1>0, <1>2, <1>3, ExceptSeq
<1>7. \A j \in 1..n : Picked(j)' <=> Picked(j) \/ j = i
  <2>1. ASSUME NEW j \in 1..n, NEW k \in 1..(Len(picks) + 1), picks'[k] = j
        PROVE  Picked(j) \/ j = i
    <3>1. k \in 1..Len(picks) \/ k = Len(picks) + 1
      BY <1>0
    <3> QED
      BY <1>0, <1>4, <2>1, <3>1 DEF Picked
  <2>2. Len(picks) + 1 \in 1..(Len(picks) + 1) /\ 1..Len(picks) \subseteq 1..(Len(picks) + 1)
    BY <1>0
  <2> QED
    BY <1>0, <1>4, <2>1, <2>2 DEF Picked
<1>8. \A k \in 1..Len(picks) : picks[k] # i
  BY <1>0, <1>5 DEF Picked
<1>9. \A j \in 1..n : pool'[j] = IF Picked(j)' \/ candidates[j] =< 0 THEN 0 ELSE candidates[j]
  BY <1>0, <1>6, <1>7 DEF SelectionInv, PoolInv, Slots
<1>10. \A k \in 1..(Len(picks) + 1) : candidates[picks'[k]] > 0
  <2> SUFFICES ASSUME NEW k \in 1..(Len(picks) + 1) PROVE candidates[picks'[k]] > 0
    OBVIOUS
  <2>1. CASE k = Len(picks) + 1
    BY <1>4, <1>5, <2>1
  <2>2. CASE k \in 1..Len(picks)
    BY <1>4, <2>2 DEF SelectionInv, PoolInv
  <2> QED
    BY <1>0, <2>1, <2>2
<1>11. \A k, l \in 1..(Len(picks) + 1) : picks'[k] = picks'[l] => k = l
  <2> SUFFICES ASSUME NEW k \in 1..(Len(picks) + 1), NEW l \in 1..(Len(picks) + 1),
                      picks'[k] = picks'[l]
               PROVE  k = l
    OBVIOUS
  <2>1. CASE k \in 1..Len(picks) /\ l \in 1..Len(picks)
    BY <1>4, <2>1 DEF SelectionInv, PoolInv
  <2>2. CASE k = Len(picks) + 1 /\ l \in 1..Len(picks)
    BY <1>4, <1>8, <2>1, <2>2
  <2>3. CASE l = Len(picks) + 1 /\ k \in 1..Len(picks)
    BY <1>4, <1>8, <2>1, <2>3
  <2>4. /\ k \in 1..Len(picks) \/ k = Len(picks) + 1
        /\ l \in 1..Len(picks) \/ l = Len(picks) + 1
    BY <1>0
  <2> QED
    BY <2>1, <2>2, <2>3, <2>4
<1>12. PoolInv'
  <2>1. Slots' = 1..n /\ Len(candidates') = n
    BY <1>3 DEF Slots
  <2> QED
    BY <1>3, <1>4, <1>6, <1>9, <1>10, <1>11, <2>1 DEF SelectionInv, PoolInv
<1>13. LoopInv'
  <2>1. Target' = Target /\ Target \in Nat
    BY <1>0, <1>3 DEF Target, SelectionInv, PoolInv
  <2> QED
    BY <1>0, <1>3, <1>4, <2>1 DEF LoopInv
<1> QED
  BY <1>12, <1>13 DEF SelectionInv

LEMMA NextSelection == SelectionInv /\ [SelectionNext]_drawVars => SelectionInv'
<1> SUFFICES ASSUME SelectionInv, [SelectionNext]_drawVars PROVE SelectionInv'
  OBVIOUS
<1>1. CASE Draw
  BY <1>1, DrawKeeps
<1>2. CASE UNCHANGED drawVars
  <2>1. UNCHANGED <<candidates, count, pool, picks>> /\ done' = done
    BY <1>2 DEF drawVars
  <2>2. Target' = Target /\ Total' = Total
    BY <2>1 DEF Target, Total, Sums
  <2>3. LoopInv'
    BY <2>1, <2>2 DEF SelectionInv, LoopInv
  <2>4. PoolInv'
    BY <2>1 DEF SelectionInv, PoolInv, Slots, Picked
  <2> QED
    BY <2>3, <2>4 DEF SelectionInv
<1>3. CASE Return
  <2>1. UNCHANGED <<candidates, count, pool, picks>> /\ (Len(picks) = Target \/ Total =< 0)
    BY <1>3 DEF Return
  <2>2. Target' = Target /\ Total' = Total
    BY <2>1 DEF Target, Total, Sums
  <2>3. LoopInv'
    BY <2>1, <2>2 DEF SelectionInv, LoopInv
  <2>4. PoolInv'
    BY <2>1 DEF SelectionInv, PoolInv, Slots, Picked
  <2> QED
    BY <2>3, <2>4 DEF SelectionInv
<1> QED
  BY <1>1, <1>2, <1>3 DEF SelectionNext

LEMMA SelectionSafe == SelectionSpec => []SelectionInv
  BY InitSelection, NextSelection, PTL DEF SelectionSpec

-----------------------------------------------------------------------------
LEMMA Proportional == SelectionInv => RollsProportional
<1> SUFFICES ASSUME SelectionInv, NEW i \in DOMAIN candidates
             PROVE  Cardinality({roll \in 0..(Total - 1) :
                                    Hits(roll) # {} /\ Min(Hits(roll)) = i})
                      = IF Picked(i) THEN 0 ELSE IF candidates[i] > 0 THEN candidates[i] ELSE 0
  BY DEF RollsProportional, Picked
<1> DEFINE n == Len(pool)
           s == Sums
           W == {roll \in 0..(Total - 1) : Hits(roll) # {} /\ Min(Hits(roll)) = i}
<1>0. pool \in Seq(Nat) /\ n \in Nat /\ i \in 1..n /\ i \in Slots /\ candidates[i] \in Int
  BY SelectionTypes DEF Slots
<1>1. /\ s[i - 1] \in Nat /\ s[i] = s[i - 1] + pool[i] /\ pool[i] \in Nat
      /\ s[n] = Total /\ Total \in Nat /\ s[i] =< Total
  <2>1. i - 1 \in 0..n /\ i \in 0..n /\ n \in 0..n
    BY <1>0
  <2>2. s[i] =< s[n]
    BY <1>0, <2>1, SumsGrow
  <2>3. /\ s \in [0..n -> Nat] /\ \A k \in 1..n : s[k] = s[k - 1] + pool[k]
    BY <1>0, SumsDef
  <2>4. pool[i] \in Nat /\ s[n] = Total
    BY <1>0 DEF Total
  <2> HIDE DEF s, n
  <2> QED
    BY <1>0, <2>1, <2>2, <2>3, <2>4
<1>2. \A roll \in 0..(Total - 1) :
         Hits(roll) # {} /\ (Min(Hits(roll)) = i <=> s[i - 1] =< roll /\ roll < s[i])
  BY <1>0, HitsFirst
<1> HIDE DEF s, n
<1>3. W = s[i - 1]..(s[i] - 1)
  <2>1. W = {roll \in 0..(Total - 1) : s[i - 1] =< roll /\ roll < s[i]}
    BY <1>2
  <2> HIDE DEF W
  <2> QED
    BY <1>1, <2>1
<1>4. Cardinality(W) = pool[i]
  <2>1. Cardinality(s[i - 1]..(s[i] - 1))
          = IF s[i - 1] > s[i] - 1 THEN 0 ELSE s[i] - 1 - s[i - 1] + 1
    <3>1. s[i - 1] \in Int /\ s[i] - 1 \in Int
      BY <1>1
    <3> QED
      BY <3>1, FS_Interval
  <2> HIDE DEF W
  <2> QED
    BY <1>1, <1>3, <2>1
<1>5. pool[i] = IF Picked(i) \/ candidates[i] =< 0 THEN 0 ELSE candidates[i]
  BY <1>0 DEF SelectionInv, PoolInv
<1> HIDE DEF W
<1>6. Cardinality(W) = IF Picked(i) THEN 0 ELSE IF candidates[i] > 0 THEN candidates[i] ELSE 0
  BY <1>0, <1>4, <1>5
<1> QED
  BY <1>6 DEF W

(* Every turn draws what is left in proportion to the weights, and no roll  *)
(* is wasted, for any candidates and weights (weighted_random).             *)
THEOREM DrawsInProportion == SelectionSpec => []RollsProportional
  BY SelectionSafe, Proportional, PTL

LEMMA PicksFinite ==
  ASSUME SelectionInv
  PROVE  IsFiniteSet(ToSet(picks)) /\ Cardinality(ToSet(picks)) = Len(picks)
<1> DEFINE m == Len(picks)
           f == [k \in 1..m |-> picks[k]]
<1>1. m \in Nat /\ DOMAIN picks = 1..m
  BY DEF SelectionInv, PoolInv
<1>2. ToSet(picks) = {picks[k] : k \in 1..m}
  BY <1>1 DEF ToSet
<1>3. \A k, l \in 1..m : picks[k] = picks[l] => k = l
  BY DEF SelectionInv, PoolInv
<1> HIDE DEF m
<1>4. f \in Bijection(1..m, ToSet(picks))
  <2>1. f \in [1..m -> ToSet(picks)] /\ \A k \in 1..m : f[k] = picks[k]
    BY <1>2
  <2>2. f \in Injection(1..m, ToSet(picks))
    <3> HIDE DEF f
    <3> QED
      BY <1>3, <2>1 DEF Injection, IsInjective
  <2>3. f \in Surjection(1..m, ToSet(picks))
    <3> HIDE DEF f
    <3> QED
      BY <1>2, <2>1 DEF Surjection
  <2> QED
    BY <2>2, <2>3 DEF Bijection
<1>5. ExistsBijection(1..m, ToSet(picks))
  BY <1>4 DEF ExistsBijection
<1>6. IsFiniteSet(1..m)
  BY <1>1, FS_Interval
<1> QED
  BY <1>1, <1>5, <1>6, FS_CountingElements, FS_Bijection DEF m

LEMMA IsDraw == SelectionInv => ReturnsADraw
<1> SUFFICES ASSUME SelectionInv, done
             PROVE  ToSet(picks) \in Draws(candidates, count)
  BY PicksFinite DEF ReturnsADraw
<1> DEFINE n == Len(candidates)
           D == ToSet(picks)
           P == Positive(candidates)
<1>0. /\ n \in Nat /\ count \in Nat /\ Len(picks) \in Nat /\ DOMAIN picks = 1..Len(picks)
      /\ picks \in Seq(1..n) /\ DOMAIN candidates = 1..n /\ pool \in Seq(Nat) /\ Len(pool) = n
      /\ \A i \in 1..n : candidates[i] \in Int
  BY SelectionTypes
<1>1. D = {i \in 1..n : Picked(i)} /\ D \subseteq P
  <2>1. \A k \in 1..Len(picks) : picks[k] \in 1..n /\ candidates[picks[k]] > 0
    BY <1>0 DEF SelectionInv, PoolInv
  <2> QED
    BY <1>0, <2>1 DEF ToSet, Positive, Picked
<1>2. P = {i \in 1..n : candidates[i] > 0}
  BY <1>0 DEF Positive
<1>3. IsFiniteSet(P) /\ Cardinality(P) \in Nat /\ Cardinality(P) =< n
  <2>1. IsFiniteSet(1..n) /\ Cardinality(1..n) = n
    <3>1. 1 \in Int /\ n \in Int
      BY <1>0
    <3> HIDE DEF n
    <3>2. IsFiniteSet(1..n) /\ Cardinality(1..n) = IF 1 > n THEN 0 ELSE n - 1 + 1
      BY <3>1, FS_Interval
    <3> QED
      BY <1>0, <3>2
  <2>2. P \in SUBSET (1..n)
    BY <1>2
  <2> QED
    BY <2>1, <2>2, FS_Subset, FS_CardinalityType
<1>4. /\ Cardinality(D) = Len(picks) /\ Cardinality(D) =< Cardinality(P)
      /\ Cardinality(D) = Cardinality(P) => D = P
  BY <1>1, <1>3, PicksFinite, FS_Subset
<1>5. Len(picks) =< Target /\ (Len(picks) = Target \/ Total =< 0)
  BY DEF SelectionInv, LoopInv
<1>6. Target =< count /\ (Target = count \/ Target = n)
  BY <1>0 DEF Target
<1>7. CASE Total =< 0
  <2>1. \A i \in 1..n : pool[i] = 0
    <3> SUFFICES ASSUME NEW i \in 1..n PROVE pool[i] = 0
      OBVIOUS
    <3>1. i \in 0..n /\ i - 1 \in 0..n /\ n \in 0..n
      BY <1>0
    <3>2. Sums[i] =< Sums[n]
      BY <1>0, <3>1, SumsGrow
    <3>3. Sums \in [0..n -> Nat] /\ \A k \in 1..n : Sums[k] = Sums[k - 1] + pool[k]
      BY <1>0, SumsDef
    <3>4. pool[i] \in Nat /\ Sums[n] = Total
      BY <1>0 DEF Total
    <3>5. Sums[i] = Sums[i - 1] + pool[i] /\ Sums[i - 1] \in Nat /\ Sums[n] \in Nat
      BY <3>1, <3>3
    <3> QED
      BY <1>7, <3>2, <3>4, <3>5
  <2>2. \A i \in P : Picked(i)
    <3> SUFFICES ASSUME NEW i \in 1..n, candidates[i] > 0 PROVE Picked(i)
      BY <1>2
    <3>1. pool[i] = 0 /\ candidates[i] \in Int
      BY <1>0, <2>1
    <3>2. pool[i] = IF Picked(i) \/ candidates[i] =< 0 THEN 0 ELSE candidates[i]
      BY DEF SelectionInv, PoolInv, Slots
    <3> QED
      BY <3>1, <3>2
  <2>3. D = P
    BY <1>1, <1>2, <2>2
  <2> HIDE DEF D, P
  <2>4. ~(count < Cardinality(P))
    BY <1>0, <1>3, <1>4, <1>5, <1>6, <2>3
  <2> QED
    BY <2>3, <2>4 DEF Draws, D, P
<1>8. CASE Len(picks) = Target
  <2> HIDE DEF D, P
  <2>1. IF count < Cardinality(P) THEN Cardinality(D) = count ELSE D = P
    BY <1>0, <1>3, <1>4, <1>6, <1>8
  <2> QED
    BY <1>1, <2>1 DEF Draws, D, P
<1> QED
  BY <1>5, <1>7, <1>8

(* What weighted_random returns is distinct, of positive weight and as many *)
(* as there are, up to the count: what decide relies on.                    *)
THEOREM DrawReturned == SelectionSpec => []ReturnsADraw
  BY SelectionSafe, IsDraw, PTL

=============================================================================
