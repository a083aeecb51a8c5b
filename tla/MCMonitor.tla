----------------------------- MODULE MCMonitor -----------------------------
(* Site s1 from the start, s2 to be added.  MCMonitor.cfg has two workers  *)
(* (as model values, for symmetry), so that a removal overtakes a reload,  *)
(* a tier that saves and one that does not, a site that may be disabled,   *)
(* and answers that fail: one site's counts, two sites' are a local fault. *)
(* MCMonitorLive.cfg has one worker and the two tiers whose rounds are     *)
(* serial and save, the domain's with its bootstrap, for the liveness      *)
(* properties.                                                             *)
EXTENDS Monitor

Page == [url |-> "u1", on |-> TRUE, expect |-> FALSE, tls |-> TRUE, domain |-> TRUE]
Moved == [Page EXCEPT !.url = "u2"]
Shelved == [Moved EXCEPT !.on = FALSE]
MCConfigs == {Page, Moved}
MCConfigsShelved == {Page, Shelved}
MCInitStore == [id \in {"s1"} |-> Page]

WorkerSymmetry == Permutations(Workers)

ReachAnswers1 == [err : {"transport"}, ok : {FALSE}, matched : {FALSE}]
DnsAnswers1 == {[err |-> TRUE, addrs |-> {}, nsErr |-> TRUE, ns |-> {}]}
CertAnswers1 == {[err |-> TRUE, valid |-> FALSE, covers |-> FALSE, notAfter |-> NoTime]}
DomainAnswers1 == {[err |-> TRUE, expires |-> NoTime]}
=============================================================================
