----------------------------- MODULE DecisionMC -----------------------------
(* Either two concurrent requests, each with one of the bodies below,      *)
(* against two loaded versions and the cold one; or one weighted draw from *)
(* up to four candidates of negative, zero, equal and different weights.   *)
EXTENDS Decision, Selection, TLC

CONSTANTS r1, r2

Flight == [advertiser |-> "adv1", campaign |-> "cam1", tier |-> 1, start |-> None,
           end |-> None, sites |-> {}, zones |-> {}, adTypes |-> {16}, active |-> TRUE]

Ad == [flight |-> "top", creative |-> "html", weight |-> 1, active |-> TRUE]

Cold == [loaded |-> FALSE, allowForce |-> FALSE, flights |-> <<>>, ads |-> <<>>,
         sites |-> <<>>, creatives |-> <<>>]

\* A flight for zone 1 that ends at time 0, and one for any site behind it.
First ==
    [loaded |-> TRUE, allowForce |-> TRUE,
     flights |-> ("top" :> [Flight EXCEPT !.end = 0, !.zones = {1}]
                  @@ "rest" :> [Flight EXCEPT !.tier = 2, !.advertiser = "adv2"]),
     ads |-> ("a1" :> Ad @@ "a2" :> [Ad EXCEPT !.creative = "broken"]
              @@ "a3" :> [Ad EXCEPT !.flight = "rest", !.creative = "other"]
              @@ "a4" :> [Ad EXCEPT !.weight = 0]),
     sites |-> ("s1" :> {"u1"} @@ "s2" :> {"u1", "u2"}),
     creatives |-> ("html" :> TRUE @@ "broken" :> FALSE @@ "other" :> TRUE)]

\* The flights change tiers, one starts later, a2 renders, force is off.
Second ==
    [First EXCEPT
        !.allowForce = FALSE,
        !.flights["top"] = [Flight EXCEPT !.tier = 2, !.sites = {"s1"}],
        !.flights["rest"] = [Flight EXCEPT !.start = 1, !.campaign = "cam2"],
        !.creatives["broken"] = TRUE]

MCCatalog == 0 :> Cold @@ 1 :> First @@ 2 :> Second

Placement == [id |-> "p1", siteId |-> "s1", siteUrl |-> None, zones |-> {1}, adTypes |-> {16},
              count |-> 2, force |-> FALSE, forceAd |-> None]

Plain == [call |-> "decisions", permitted |-> TRUE, role |-> "reader", placements |-> <<Placement>>,
          blockAdvertisers |-> {}, blockCampaigns |-> {}]

Forcing == [Plain EXCEPT
    !.role = "admin",
    !.placements = <<[Placement EXCEPT !.force = TRUE, !.forceAd = "a3"]>>]

MCBody ==
    {\* two placements, the second by URL, outside the zone, by default one ad
     [Plain EXCEPT !.placements =
        <<Placement, [Placement EXCEPT !.id = "p2", !.siteId = None, !.siteUrl = "u1",
                                       !.zones = {}, !.count = None]>>],
     \* two placements of one id
     [Plain EXCEPT !.placements = <<Placement, [Placement EXCEPT !.zones = {}, !.count = 0]>>,
                   !.blockCampaigns = {"cam2"}],
     \* an unknown site, then no ad types, behind a placement that is served
     [Forcing EXCEPT !.placements =
        <<Forcing.placements[1], [Placement EXCEPT !.id = "p2", !.adTypes = {}]>>],
     [Plain EXCEPT !.placements = <<[Placement EXCEPT !.siteId = "s9"]>>],
     Forcing,
     [Forcing EXCEPT !.role = "reader"],
     [Forcing EXCEPT !.placements = <<[Placement EXCEPT !.force = TRUE, !.forceAd = "a9"]>>],
     [Plain EXCEPT !.placements = <<>>],
     [Plain EXCEPT !.placements = <<Placement, Placement, Placement>>],
     [Plain EXCEPT !.blockAdvertisers = {"adv1"}, !.permitted = FALSE],
     \* explained: two placements of which one has no ad types, an ad by force
     \* behind its own id, a reader's force, an empty request
     [Plain EXCEPT !.call = "explain", !.placements =
        <<Placement, [Placement EXCEPT !.id = "p2", !.adTypes = {}]>>],
     [Forcing EXCEPT !.call = "explain", !.placements = <<Placement, Forcing.placements[1]>>],
     [Forcing EXCEPT !.call = "explain", !.role = "reader"],
     [Plain EXCEPT !.call = "explain", !.placements = <<>>]}

MCWeight == {-1, 0, 1, 3}

Drawing == candidates # <<>> \/ count > 0

MCInit ==
    /\ DecisionInit /\ SelectionInit
    /\ Drawing => body = [r \in Request |-> Forcing]

MCNext ==
    \/ Drawing /\ SelectionNext /\ UNCHANGED vars
    \/ ~Drawing /\ DecisionNext /\ UNCHANGED drawVars

MCSpec ==
    /\ MCInit /\ [][MCNext]_<<vars, drawVars>>
    /\ \A r \in Request : WF_vars(~Drawing /\ Handle(r))

=============================================================================
