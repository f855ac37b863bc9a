--------------------------- MODULE MCControlPlane ---------------------------
(***************************************************************************)
(* The control plane's configuration and what is decided by it, side by    *)
(* side.  A behaviour is one of                                            *)
(*   "publication": RuntimePublication;                                    *)
(*   "pricing":     ModelPricing;                                          *)
(*   "rating":      UsageRating, one event;                                *)
(*   "routing":     RouteSelection, one plan and one request;              *)
(* and leaves the other parts as they are.                                 *)
(***************************************************************************)
EXTENDS RuntimePublication

CONSTANTS u1, u2, r1, r2, r3

VARIABLES part,
          clock, prices, save, fields, saves,
          input, rated,
          rows, audience, plan, result

Pricing == INSTANCE ModelPricing WITH MaxTime <- 3, MaxSaves <- 3, versions <- prices
Rating == INSTANCE UsageRating WITH
    Grid <- 12, UnitSizes <- {1, 3, 4}, MaxQuantity <- 3, MaxLines <- 2
Routing == INSTANCE RouteSelection WITH
    Candidates <- <<r1, r2, r3>>, Users <- {u1, u2}, DayLength <- 3, Points <- 60

pricingVars == <<clock, prices, save, fields, saves>>
ratingVars == <<input, rated>>
routingVars == <<rows, audience, plan, result>>

(* Parts with many initial states have one only in the others' behaviours. *)
ControlPlaneInit ==
    /\ part \in {"publication", "pricing", "rating", "routing"}
    /\ Init /\ Pricing!Init
    /\ part # "publication" => versions = <<>>
    /\ \/ part = "rating" /\ Rating!Init
       \/ part # "rating" /\ input = None /\ rated = None
    /\ \/ part = "routing" /\ Routing!Init
       \/ part # "routing" /\ rows = None /\ audience = None /\ plan = None /\ result = None

ControlPlaneNext ==
    /\ UNCHANGED part
    /\ \/ part = "publication" /\ Next /\ UNCHANGED <<pricingVars, ratingVars, routingVars>>
       \/ part = "pricing" /\ Pricing!Next /\ UNCHANGED <<vars, ratingVars, routingVars>>
       \/ part = "rating" /\ Rating!Next /\ UNCHANGED <<vars, pricingVars, routingVars>>
       \/ part = "routing" /\ Routing!Next /\ UNCHANGED <<vars, pricingVars, ratingVars>>

ControlPlaneSpec ==
    /\ ControlPlaneInit
    /\ [][ControlPlaneNext]_<<part, vars, pricingVars, ratingVars, routingVars>>
    /\ \A a \in Admins : WF_vars(part = "publication" /\ Serve(a))

(* The properties of the modules, stated there.                            *)
PricingIsSettled == Pricing!PricingIsSettled
RatingIsExact == part = "rating" => Rating!RatingIsExact
RoutingIsConsistent == part = "routing" => Routing!RoutingIsConsistent
=============================================================================
