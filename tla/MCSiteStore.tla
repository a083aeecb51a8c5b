----------------------------- MODULE MCSiteStore -----------------------------
(* Two sites at first and a third to be added; three jobs on two threads,  *)
(* which is a reader, a reload or a call by name beside a change and one   *)
(* more before or after; one edit by hand that drops a site, one that      *)
(* leaves no JSON.  Nothing tells the threads apart.                       *)
EXTENDS SiteStore

S(i, u) == [id |-> i, url |-> u]
MCInitSites == [sites |-> <<S(1, "u1"), S(2, "u2")>>, on |-> TRUE]
MCHandEdits == {[sites |-> <<S(2, "u2")>>, on |-> TRUE], Unreadable}
Symmetry == Permutations(Threads)
=============================================================================
