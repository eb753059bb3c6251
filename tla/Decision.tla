------------------------------ MODULE Decision ------------------------------
(***************************************************************************)
(* The decision endpoint and its explainer (src/src/decisions.rs with the  *)
(* filters of src/src/selection.rs): requests run concurrently, each       *)
(* against the snapshot it grabbed, while the loader swaps snapshots, time *)
(* passes and the event flusher makes room in the channel.                 *)
(*                                                                         *)
(* Ids are abstract.  A snapshot is one project's slice of it; a creative  *)
(* is whether it renders.  The weighted draw is any of the outcomes        *)
(* WeightedDraw allows; Selection shows the loop returns no other.  Left   *)
(* out: a server without a database (503) or without a channel, and the    *)
(* nonce and signature of the URLs.                                        *)
(***************************************************************************)
EXTENDS Integers, Sequences, FiniteSets, WeightedDraw

CONSTANTS Request,        \* calls of POST .../decisions and decisions:explain
          Body,           \* bodies (and callers) a request may have
          Catalog,        \* [version -> the project's slice of that snapshot]
          GlobalForce,    \* decisions.force_overrides_enabled
          MaxPlacements,  \* placements of a request, 32 in the code
          MaxPick,        \* ads of a placement, 10 in the code
          Capacity,       \* slots of the event channel
          MaxTime,        \* bound on the clock
          None            \* an absent option

Version == DOMAIN Catalog
Ads     == UNION {DOMAIN Catalog[v].ads : v \in Version}
Ids     == UNION {{b.placements[k].id : k \in DOMAIN b.placements} : b \in Body}

ASSUME DecisionAssumption ==
    /\ MaxPlacements \in Nat \ {0} /\ MaxPick \in Nat \ {0}
    /\ Capacity \in Nat /\ MaxTime \in Nat
    /\ Version \subseteq Nat /\ 0 \in Version
    /\ ~Catalog[0].loaded
    /\ \A b \in Body :
        b.placements \in Seq({b.placements[k] : k \in DOMAIN b.placements})

VARIABLES
    store,    \* the version the SnapshotStore shows
    now,      \* the clock, in the unit of flight windows
    queued,   \* events in the channel
    audit,    \* requests with a committed force.honored row
    body,     \* [Request -> Body]
    req       \* [Request -> the state of its handler]

vars == <<store, now, queued, audit, body, req>>

\* An event names its placement by its place in the request.
Event == [placement : 1..MaxPlacements, ad : Ads, version : Version, at : 0..MaxTime]

(* Phases: "new" authorizes; "open" has the transaction; "audit", "commit" *)
(* write the row of a forced request; "decide" reads the clock; "place"    *)
(* goes through the placements; "drain" sends; "done" has answered with    *)
(* code (else 0); "gone": the client hung up and the handler was dropped.       *)
Phase == {"new", "open", "audit", "commit", "decide", "place", "drain", "done", "gone"}

\* HTTP statuses of the handler; 0 before there is one.
Code == {0, 200, 400, 403, 503}

Handler ==
    [phase   : Phase,
     code    : Code,
     version : Version,                       \* of the snapshot it holds
     at      : 0..MaxTime,                    \* now_ms
     next    : 1..(MaxPlacements + 1),        \* the placement to decide
     answer  : [Ids -> SUBSET Ads],           \* the decisions map
     events  : SUBSET Event,                  \* events_to_send
     sent    : SUBSET Event]                  \* of which in the channel

DecisionTypeOK ==
    /\ store \in Version
    /\ now \in 0..MaxTime
    /\ queued \in 0..Capacity
    /\ audit \subseteq Request
    /\ body \in [Request -> Body]
    /\ req \in [Request -> Handler]
    /\ \A r \in Request : req[r].sent \subseteq req[r].events

DecisionInit ==
    /\ store = 0
    /\ now = 0
    /\ queued = 0
    /\ audit = {}
    /\ body \in [Request -> Body]
    /\ req = [r \in Request |->
                [phase |-> "new", code |-> 0, version |-> 0, at |-> 0, next |-> 1,
                 answer |-> [i \in Ids |-> {}], events |-> {}, sent |-> {}]]

-----------------------------------------------------------------------------
(* Selection: filter, priority, forced_candidate.                          *)

ActiveAt(f, t) ==
    /\ f.start # None => t >= f.start
    /\ f.end # None => t =< f.end

\* An empty list of the flight means any.
Targets(f, p, site) ==
    /\ f.sites = {} \/ site \in f.sites
    /\ f.zones = {} \/ p.zones \cap f.zones # {}
    /\ f.adTypes = {} \/ p.adTypes \cap f.adTypes # {}

Blocked(f, b) == f.advertiser \in b.blockAdvertisers \/ f.campaign \in b.blockCampaigns

\* An ad whose flight the snapshot lacks is not visited.
Filter(s, b, p, site, t) ==
    {a \in DOMAIN s.ads :
        /\ s.ads[a].active
        /\ s.ads[a].flight \in DOMAIN s.flights
        /\ LET f == s.flights[s.ads[a].flight] IN
            f.active /\ ActiveAt(f, t) /\ Targets(f, p, site) /\ ~Blocked(f, b)}

Tier(s, a) == s.flights[s.ads[a].flight].tier

Priority(s, C) == {a \in C : \A c \in C : Tier(s, a) =< Tier(s, c)}

Pool(s, C) == [a \in C |-> s.ads[a].weight]

\* count.unwrap_or(1).clamp(1, 10)
Count(p) == IF p.count = None \/ p.count < 1 THEN 1
            ELSE IF p.count > MaxPick THEN MaxPick ELSE p.count

\* resolve_site.  By URL it is the first of the rows that carry it, in the order
\* the loader got them; an external id is never resolved.
Sites(s, p) ==
    IF p.siteId # None THEN DOMAIN s.sites \cap {p.siteId}
    ELSE {i \in DOMAIN s.sites : p.siteUrl \in s.sites[i]}

Forced(s, a) ==
    IF a \in DOMAIN s.ads /\ s.ads[a].flight \in DOMAIN s.flights THEN {a} ELSE {}

ForceRequested(b) == \E k \in DOMAIN b.placements : b.placements[k].force

Explains(b) == b.call = "explain"

Malformed(b) == b.placements = <<>> \/ Len(b.placements) > MaxPlacements

ForceGate(b, s) == GlobalForce /\ s.allowForce /\ b.role = "admin"

\* The ads a placement may get before rendering.  Whoever gets here
\* with a forced ad has passed the gate.
Picks(s, b, p, site, t) ==
    IF p.forceAd # None THEN {Forced(s, p.forceAd)}
    ELSE Draws(Pool(s, Priority(s, Filter(s, b, p, site, t))), Count(p))

\* build_decision_creative fails only for a templated creative.
Renders(s, a) ==
    s.ads[a].creative \in DOMAIN s.creatives => s.creatives[s.ads[a].creative]

\* The ads a placement may be answered with: none without a site; a pick that
\* does not render is left out of the answer and of the events.
Fills(s, b, p, t) ==
    IF Sites(s, p) = {} THEN {{}}
    ELSE IF p.adTypes = {} THEN {}
    ELSE {{a \in D : Renders(s, a)} :
            D \in UNION {Picks(s, b, p, site, t) : site \in Sites(s, p)}}

\* What the explainer answers instead: the picks, rendered or not, and nothing for
\* a placement without ad types.
Explained(s, b, p, t) ==
    IF Sites(s, p) = {} \/ p.adTypes = {} THEN {{}}
    ELSE UNION {Picks(s, b, p, site, t) : site \in Sites(s, p)}

\* The rules the explanation lists of an ad whose flight is there; zones, dates,
\* weights and tiers are not among them.
Passes(s, b, p, site, a) ==
    LET f == s.flights[s.ads[a].flight] IN
    /\ f.active /\ s.ads[a].active
    /\ f.sites = {} \/ site \in f.sites
    /\ f.adTypes = {} \/ p.adTypes \cap f.adTypes # {}
    /\ ~Blocked(f, b)

\* decide_pure depends on nothing but the snapshot, the request and the time.
DecidePure ==
    [v \in Version |-> [b \in Body |-> [t \in 0..MaxTime |->
        [k \in DOMAIN b.placements |-> Fills(Catalog[v], b, b.placements[k], t)]]]]

\* The placements with id i, in turn: the last one's answer stays.
Reported(s, b, i, t) ==
    LET of == {k \in DOMAIN b.placements : b.placements[k].id = i} IN
    IF of = {} THEN {{}}
    ELSE UNION {Explained(s, b, b.placements[k], t) : k \in {k \in of : \A j \in of : j =< k}}

\* The answers of the explainer.
ExplainPure ==
    [v \in Version |-> [b \in {c \in Body : Explains(c)} |-> [t \in 0..MaxTime |->
        LET reported == [i \in Ids |-> Reported(Catalog[v], b, i, t)] IN
        {answer \in [Ids -> SUBSET Ads] : \A i \in Ids : answer[i] \in reported[i]}]]]

-----------------------------------------------------------------------------
(* The handler.                                                            *)

Answer(r, code) == req' = [req EXCEPT ![r] = [@ EXCEPT !.phase = "done", !.code = code]]

Goto(r, phase) == req' = [req EXCEPT ![r] = [@ EXCEPT !.phase = phase]]

\* open_project_tx: role, project and tenant; a database error answers 403 too.
Open(r) ==
    /\ req[r].phase = "new"
    /\ \/ body[r].permitted /\ Goto(r, "open")
       \/ Answer(r, 403)
    /\ UNCHANGED <<store, now, queued, audit, body>>

\* Validation, then the snapshot grab, then the force gate on that snapshot.
Grab(r) ==
    /\ req[r].phase = "open" /\ ~Explains(body[r])
    /\ LET b == body[r]
           s == Catalog[store]
       IN  IF Malformed(b) THEN Answer(r, 400)
           ELSE IF ~s.loaded THEN Answer(r, 503)
           ELSE IF ForceRequested(b) /\ ~ForceGate(b, s) THEN Answer(r, 403)
           ELSE req' = [req EXCEPT ![r] = [@ EXCEPT
                    !.version = store,
                    !.phase = IF ForceRequested(b) THEN "audit" ELSE "decide"]]
    /\ UNCHANGED <<store, now, queued, audit, body>>

\* decisions:explain has dropped its transaction and awaits nothing more.  It looks
\* at the store before the placements, passes the same gate, and leaves no audit
\* row and no event.
Explain(r) ==
    /\ req[r].phase = "open" /\ Explains(body[r])
    /\ LET b == body[r]
           s == Catalog[store]
       IN  IF ~s.loaded THEN Answer(r, 503)
           ELSE IF Malformed(b) THEN Answer(r, 400)
           ELSE IF ForceRequested(b) /\ ~ForceGate(b, s) THEN Answer(r, 403)
           ELSE \E answer \in ExplainPure[store][b][now] :
                  req' = [req EXCEPT ![r] = [req[r] EXCEPT
                      !.phase = "done", !.code = 200, !.version = store, !.at = now,
                      !.answer = answer]]
    /\ UNCHANGED <<store, now, queued, audit, body>>

\* audit_force_honored inserts into the open transaction, or fails.
AuditForce(r) ==
    /\ req[r].phase = "audit"
    /\ Goto(r, "commit") \/ Answer(r, 503)
    /\ UNCHANGED <<store, now, queued, audit, body>>

\* Mutant: the request goes on when the commit fails.
CommitUnchecked(r) ==
    /\ req[r].phase = "commit"
    /\ audit' \in {audit, audit \cup {r}}
    /\ Goto(r, "decide")
    /\ UNCHANGED <<store, now, queued, body>>

\* tx.commit().  When it reports an error the row may be there nevertheless.
Commit(r) ==
    /\ req[r].phase = "commit"
    /\ \/ audit' = audit \cup {r} /\ Goto(r, "decide")
       \/ audit' \in {audit, audit \cup {r}} /\ Answer(r, 503)
    /\ UNCHANGED <<store, now, queued, body>>

\* decide_pure is called with epoch_ms().
ReadClock(r) ==
    /\ req[r].phase = "decide"
    /\ req' = [req EXCEPT ![r] = [@ EXCEPT !.phase = "place", !.at = now]]
    /\ UNCHANGED <<store, now, queued, audit, body>>

\* The answer of one placement replaces an earlier one of the same id; its
\* events are added to those to send.
Served(r, p, ads) ==
    LET h == req[r]
        events == {[placement |-> h.next, ad |-> a, version |-> h.version, at |-> h.at] : a \in ads}
    IN  req' = [req EXCEPT ![r] = [h EXCEPT
                    !.answer = [h.answer EXCEPT ![p.id] = ads],
                    !.events = h.events \cup events,
                    !.next = h.next + 1]]

Here(r) == body[r].placements[req[r].next]

Placing(r) == req[r].phase = "place" /\ req[r].next \in DOMAIN body[r].placements

\* Mutant: the store is read again for every placement.
PlaceFromStore(r) ==
    /\ Placing(r)
    /\ \E ads \in DecidePure[store][body[r]][req[r].at][req[r].next] : Served(r, Here(r), ads)
    /\ UNCHANGED <<store, now, queued, audit, body>>

\* One turn of decide_pure's loop.
Place(r) ==
    /\ Placing(r)
    /\ \E ads \in DecidePure[req[r].version][body[r]][req[r].at][req[r].next] :
          Served(r, Here(r), ads)
    /\ UNCHANGED <<store, now, queued, audit, body>>

\* The ad types are looked at when the site has resolved: all the placements
\* before have been decided by then, and a forced request is audited.
PlaceRefused(r) ==
    /\ Placing(r)
    /\ Sites(Catalog[req[r].version], Here(r)) # {}
    /\ Here(r).adTypes = {}
    /\ Answer(r, 400)
    /\ UNCHANGED <<store, now, queued, audit, body>>

Placed(r) ==
    /\ req[r].phase = "place"
    /\ req[r].next \notin DOMAIN body[r].placements
    /\ Goto(r, "drain")
    /\ UNCHANGED <<store, now, queued, audit, body>>

\* Mutant: the capacity is not looked at.
SendUnbounded(r) ==
    /\ req[r].phase = "drain"
    /\ \E e \in req[r].events \ req[r].sent :
          req' = [req EXCEPT ![r] = [req[r] EXCEPT !.sent = req[r].sent \cup {e}]]
    /\ queued' = queued + 1
    /\ UNCHANGED <<store, now, audit, body>>

\* drain_to_sender, one try_send.  Which event goes first is left open.
Send(r) ==
    /\ req[r].phase = "drain"
    /\ queued < Capacity
    /\ \E e \in req[r].events \ req[r].sent :
          req' = [req EXCEPT ![r] = [req[r] EXCEPT !.sent = req[r].sent \cup {e}]]
    /\ queued' = queued + 1
    /\ UNCHANGED <<store, now, audit, body>>

\* Mutant: the full channel ends the drain, not the request.
SaturatedOk(r) ==
    /\ req[r].phase = "drain"
    /\ req[r].sent # req[r].events
    /\ queued = Capacity
    /\ Answer(r, 200)
    /\ UNCHANGED <<store, now, queued, audit, body>>

\* Mutant: the handler waits for room.
SaturatedWaits(r) ==
    /\ req[r].phase = "drain"
    /\ req[r].sent # req[r].events
    /\ queued = Capacity
    /\ UNCHANGED vars

\* The channel is full (or closed, which is answered alike): 503, though the
\* events before this one are in it.
Saturated(r) ==
    /\ req[r].phase = "drain"
    /\ req[r].sent # req[r].events
    /\ queued = Capacity
    /\ Answer(r, 503)
    /\ UNCHANGED <<store, now, queued, audit, body>>

Respond(r) ==
    /\ req[r].phase = "drain"
    /\ req[r].sent = req[r].events
    /\ Answer(r, 200)
    /\ UNCHANGED <<store, now, queued, audit, body>>

\* The client hangs up at an await: a commit under way may still take effect.
HangUp(r) ==
    /\ req[r].phase \in {"new", "audit", "commit"}
    /\ audit' \in IF req[r].phase = "commit" THEN {audit, audit \cup {r}} ELSE {audit}
    /\ Goto(r, "gone")
    /\ UNCHANGED <<store, now, queued, body>>

Handle(r) ==
    \/ Open(r) \/ Grab(r) \/ Explain(r) \/ AuditForce(r) \/ Commit(r) \/ ReadClock(r)
    \/ Place(r) \/ PlaceRefused(r) \/ Placed(r) \/ Send(r) \/ Saturated(r) \/ Respond(r)

-----------------------------------------------------------------------------
(* Around the handlers.                                                    *)

\* SnapshotStore::swap; versions only grow (Snapshot!ReadersNeverGoBack).
Swap ==
    /\ \E v \in Version : v > store /\ store' = v
    /\ UNCHANGED <<now, queued, audit, body, req>>

Tick ==
    /\ now < MaxTime
    /\ now' = now + 1
    /\ UNCHANGED <<store, queued, audit, body, req>>

\* The flusher receives an event.
Receive ==
    /\ queued > 0
    /\ queued' = queued - 1
    /\ UNCHANGED <<store, now, audit, body, req>>

DecisionNext ==
    \/ \E r \in Request : Handle(r) \/ HangUp(r)
    \/ Swap \/ Tick \/ Receive

DecisionSpec == DecisionInit /\ [][DecisionNext]_vars

(* Fairness: a handler is polled and its queries return.                   *)
DecisionFairSpec == DecisionSpec /\ \A r \in Request : WF_vars(Handle(r))

-----------------------------------------------------------------------------
(* Properties.                                                             *)

Slice(r) == Catalog[req[r].version]

Ok(r) == req[r].code = 200

\* What REQUIREMENTS.md 6.1 asks of an ad, steps 1, 2, 4 and 5 but for creatives.
MayServe(s, b, p, t, a) ==
    /\ s.ads[a].weight > 0
    /\ \E site \in Sites(s, p) :
        LET Running == {f \in DOMAIN s.flights :
                /\ s.flights[f].active
                /\ s.flights[f].start # None => s.flights[f].start =< t
                /\ s.flights[f].end # None => s.flights[f].end >= t
                /\ s.flights[f].sites # {} => site \in s.flights[f].sites
                /\ s.flights[f].zones # {} => s.flights[f].zones \cap p.zones # {}
                /\ s.flights[f].adTypes # {} => s.flights[f].adTypes \cap p.adTypes # {}
                /\ s.flights[f].advertiser \notin b.blockAdvertisers
                /\ s.flights[f].campaign \notin b.blockCampaigns}
            Eligible == {c \in DOMAIN s.ads : s.ads[c].active /\ s.ads[c].flight \in Running}
        IN  a \in Eligible /\ \A c \in Eligible : Tier(s, a) =< Tier(s, c)

\* Whatever is swapped in or passes meanwhile, every ad of an answer is one its
\* placement may get in the one snapshot whose version the answer carries, at the
\* one time its events carry; and an ad the explainer answers is one that its
\* explanation fails by no rule.
AnswersEligible ==
    \A r \in Request : Ok(r) =>
        \A i \in Ids : \A a \in req[r].answer[i] :
            \E k \in DOMAIN body[r].placements :
                LET p == body[r].placements[k] IN
                /\ p.id = i
                /\ \/ a = p.forceAd
                   \/ /\ MayServe(Slice(r), body[r], p, req[r].at, a)
                      /\ \E site \in Sites(Slice(r), p) : Passes(Slice(r), body[r], p, site, a)

\* API.md 1: a forced answer is given only to an admin of a project that allows
\* it, with the switch on, and a decision only with its audit row committed; and no
\* row says force was honored for a request that the gate would have turned away,
\* or that was only explained.
ForceAudited ==
    \A r \in Request :
        LET s == Slice(r) IN
        /\ Ok(r) /\ ForceRequested(body[r]) =>
              ForceGate(body[r], s) /\ (Explains(body[r]) \/ r \in audit)
        /\ r \in audit =>
              ForceRequested(body[r]) /\ ForceGate(body[r], s) /\ ~Explains(body[r])

DistinctIds(b) ==
    \A j, k \in DOMAIN b.placements : b.placements[j].id = b.placements[k].id => j = k

\* The events of an answer are its ads, each under the answer's version and time.
\* (Two placements with one id share an entry of the answer; both have events.)
\* Only a request that the channel turned away leaves some events without the
\* others; one that failed earlier, and the explainer, leave none.
EventsMatchAnswer ==
    \A r \in Request :
        /\ Ok(r) =>
            /\ req[r].sent = req[r].events
            /\ \A e \in req[r].events : e.version = req[r].version /\ e.at = req[r].at
        /\ Ok(r) /\ DistinctIds(body[r]) /\ ~Explains(body[r]) =>
            \A k \in DOMAIN body[r].placements :
                req[r].answer[body[r].placements[k].id] =
                    {e.ad : e \in {x \in req[r].events : x.placement = k}}
        /\ req[r].code \in {400, 403} \/ Explains(body[r]) => req[r].sent = {}

\* A handler that has started ends, whatever the channel and the database do.
AllAnswered ==
    \A r \in Request : req[r].phase # "new" ~> req[r].phase \in {"done", "gone"}

=============================================================================
