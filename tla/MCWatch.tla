------------------------------ MODULE MCWatch ------------------------------
(* Two sites; a watch of every operator, from both sides of a bound, one-  *)
(* shot and standing, one that outlives the history and one that expires   *)
(* in it.                                                                  *)
EXTENDS Watch

MCSites == {1, 2}
MCStamp == [id \in MCSites |-> 1]

Base == [path |-> "sites.downList", op |-> "appears", above |-> TRUE, limit |-> 1,
         margin |-> 1, value |-> TRUE, hold |-> 2, olderThan |-> 3,
         where |-> MCSites, standing |-> TRUE, expiresAt |-> Horizon]

MCWatches ==
    LET crosses == {[Base EXCEPT !.path = "sites.down", !.op = "crosses", !.above = a] :
                        a \in BOOLEAN}
        count   == {[Base EXCEPT !.op = "count", !.path = "sites.certProblems", !.above = FALSE]}
        becomes == {[Base EXCEPT !.path = "health.localFault", !.op = "becomes", !.value = v] :
                        v \in BOOLEAN}
        lists   == {[Base EXCEPT !.op = o, !.where = f] :
                        o \in {"appears", "disappears"}, f \in {MCSites, {2}}}
                    \cup {[Base EXCEPT !.path = "sites.all"], [Base EXCEPT !.op = "ages"]}
        standing == crosses \cup count \cup becomes \cup lists
    IN  standing \cup {[v EXCEPT !.standing = FALSE] : v \in standing}
                 \cup {[v EXCEPT !.expiresAt = 3] : v \in standing}

\* What the watches above read: outages, one certificate list, the fault flag.
MCWorlds ==
    {s \in Samples : /\ s.watched \in {MCSites, {1}}
                     /\ s.cert \in {{}, s.watched}
                     /\ s.localFault => s.cert = {}}

OutageWatches == {[Base EXCEPT !.op = o] : o \in {"appears", "disappears"}}
=============================================================================
