--------------------------- MODULE MCSiteHistory ---------------------------
(* One site, two-tick days, and dates on both sides of every window: with  *)
(* date 2 a certificate expires inside the history, with date 7 it enters  *)
(* the warning window and then the urgent one.                             *)
EXTENDS SiteHistory

MCAddrs == {"a1", "a2"}
MCServers == {"n1", "n2"}
MCDates == {2, 7}
=============================================================================
