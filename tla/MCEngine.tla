------------------------------ MODULE MCEngine ------------------------------
(* One site, up or down, and two triggers: a one-shot for its outage and a *)
(* standing watch for its recovery.                                        *)
EXTENDS Engine

MCSites == {1}
MCStamp == [id \in MCSites |-> 1]
MCWorlds == {[watched |-> MCSites, down |-> d, cert |-> {}, localFault |-> FALSE] :
                d \in SUBSET MCSites}

Base == [path |-> "sites.downList", op |-> "appears", above |-> TRUE, limit |-> 0,
         margin |-> 1, value |-> TRUE, hold |-> 1, olderThan |-> 1,
         where |-> MCSites, standing |-> FALSE, expiresAt |-> 1]

MCWatches == {Base, [Base EXCEPT !.op = "disappears", !.standing = TRUE]}
MCInitWatches == [id \in {1} |-> Base]
=============================================================================
