---------------------------- MODULE MCModelGateway ----------------------------
(* Small instances of ModelGateway for TLC: one small pin, one writer's    *)
(* pin, and an endpoint that serves the small pin's model.                 *)
EXTENDS ModelGateway, TLC

CONSTANTS small1, frontier1, own1, old, kept, new

MCRegistry == small1 :> kept @@ frontier1 :> old
MCOverrides == small1 :> NoModel @@ frontier1 :> NoModel
MCNamespace == small1 :> {kept, new} @@ frontier1 :> {old, new}
MCListings == {{kept}, {new}}
MCVersion == old :> 1 @@ kept :> 2 @@ new :> 3
MCCost == small1 :> 1 @@ frontier1 :> 30
MCOwnModel == own1 :> kept
=============================================================================
