------------------------------ MODULE SiteState ------------------------------
(***************************************************************************)
(* What the monitor knows about one site (monitor/state.go), as pure       *)
(* operators on a record: the four apply* methods that fold one answer of  *)
(* a tier into it, and the readings everything else is derived from        *)
(* (Down, Failing, the days left, Severity, Reason) together with the two  *)
(* lists of the alert catalogue that read the same record                  *)
(* (alerts/catalogue.go).                                                  *)
(*                                                                         *)
(* Times are naturals, Day of them to a day, and NoTime is Go's zero time. *)
(* An error or a reason is only present or absent, except that Reason      *)
(* names the case it reports.  Fields that are shown and read by no        *)
(* decision are left out: status code, milliseconds, redirects, issuer,    *)
(* CDN, reverse name, registry status, the error texts of the probe, the   *)
(* lookup and the registry, and the Last* stamps.                          *)
(***************************************************************************)
EXTENDS Integers

CONSTANTS
    Day,          \* units of time in a day
    CertWarn,     \* Store.CertWarn(), in days
    CertUrgent,   \* Store.CertUrgent(), in days
    DomainWarn,   \* Store.DomainWarn(), in days
    FailCap       \* Fails is counted up to here: only "two or more" is read

failuresBeforeDown == 2

ASSUME SiteStateAssumption ==
    /\ Day \in Nat \ {0}
    /\ {CertWarn, CertUrgent, DomainWarn} \subseteq Nat \ {0}
    /\ FailCap \in Nat /\ FailCap >= failuresBeforeDown

NoTime == 0

Severities == 0..3
SevOK == 0
SevInfo == 1
SevWarn == 2
SevUrgent == 3

----------------------------------------------------------------------------
(* The answers of the four tiers, as check.HTTP, Resolve, TLS and RDAP give them.  *)

Errs == {"none", "transport", "answer"}

\* err: no error, a network-layer one, or one that is the far end's answer;
\* ok: a 2xx or 3xx status; matched: the expected text was in the body.
ReachAnswer == [err : Errs, ok : BOOLEAN, matched : BOOLEAN]

DnsAnswer(Addrs, Servers) ==
    [err : BOOLEAN, addrs : SUBSET Addrs, nsErr : BOOLEAN, ns : SUBSET Servers]

CertAnswer(Times) ==
    {c \in [err : BOOLEAN, valid : BOOLEAN, covers : BOOLEAN, notAfter : Times] :
        c.valid => c.covers}

DomainAnswer(Times) == [err : BOOLEAN, expires : Times \cup {NoTime}]

\* Reach.Up
ReachUp(r, expect) == r.err = "none" /\ r.ok /\ (expect => r.matched)

\* check.Transport
Transport(err) == err = "transport"

\* check.LocalFault over the answers of one round, a function from sites.
LocalFaultOf(linkUp, round) ==
    \/ ~linkUp
    \/ /\ \E a, b \in DOMAIN round : a # b
       /\ \A a \in DOMAIN round : Transport(round[a].err)

----------------------------------------------------------------------------
\* The record ensure() creates on first sight of a site.
NewSite(url) ==
    [ url            |-> url,
      probed         |-> FALSE,
      up             |-> FALSE,
      fails          |-> 0,
      stateSince     |-> NoTime,
      addrs          |-> {},
      ns             |-> {},
      addressChanged |-> FALSE,
      nsChanged      |-> FALSE,
      certChecked    |-> FALSE,
      certValid      |-> FALSE,
      certCoversHost |-> FALSE,
      certError      |-> FALSE,
      certNotAfter   |-> NoTime,
      domainKnown    |-> FALSE,
      domainExpires  |-> NoTime ]

SiteStates(Urls, Addrs, Servers, Times) ==
    [ url            : Urls,
      probed         : BOOLEAN,
      up             : BOOLEAN,
      fails          : 0..FailCap,
      stateSince     : Times,
      addrs          : SUBSET Addrs,
      ns             : SUBSET Servers,
      addressChanged : BOOLEAN,
      nsChanged      : BOOLEAN,
      certChecked    : BOOLEAN,
      certValid      : BOOLEAN,
      certCoversHost : BOOLEAN,
      certError      : BOOLEAN,
      certNotAfter   : Times,
      domainKnown    : BOOLEAN,
      domainExpires  : Times ]

----------------------------------------------------------------------------
(* Folding one answer in. *)

MoreFails(n) == IF n < FailCap THEN n + 1 ELSE FailCap

\* Variant: a healthy probe leaves Fails where it was.
applyReachKeepsFails(s, r, expect, now) ==
    LET healthy == ReachUp(r, expect)
        fails   == IF healthy THEN s.fails ELSE MoreFails(s.fails)
    IN  [s EXCEPT !.probed     = TRUE,
                  !.fails      = fails,
                  !.up         = healthy \/ (s.up /\ fails < failuresBeforeDown),
                  !.stateSince = IF healthy # s.up THEN now ELSE @]

\* Variant: every further miss of a site that is down moves its StateSince.
applyReachRestamps(s, r, expect, now) ==
    LET healthy == ReachUp(r, expect)
        fails   == IF healthy THEN 0 ELSE MoreFails(s.fails)
        up      == healthy \/ (s.up /\ fails < failuresBeforeDown)
    IN  [s EXCEPT !.probed     = TRUE,
                  !.fails      = fails,
                  !.up         = up,
                  !.stateSince = IF healthy THEN (IF s.up THEN @ ELSE now)
                                 ELSE IF fails >= failuresBeforeDown THEN now ELSE @]

applyReach(s, r, expect, now) ==
    LET healthy   == ReachUp(r, expect)
        fails     == IF healthy THEN 0 ELSE MoreFails(s.fails)
        up        == healthy \/ (s.up /\ fails < failuresBeforeDown)
        firstLook == ~s.probed
        verdict   == \/ healthy /\ (~s.up \/ firstLook)
                     \/ ~healthy /\ fails >= failuresBeforeDown /\ (s.up \/ firstLook)
    IN  [s EXCEPT !.probed     = TRUE,
                  !.fails      = fails,
                  !.up         = up,
                  !.stateSince = IF verdict THEN now ELSE @]

applyDNS(s, h) ==
    LET nsRead == ~h.nsErr /\ h.ns # {}
    IN  IF h.err
        THEN s
        ELSE [s EXCEPT !.addressChanged = @ \/ (s.addrs # {} /\ s.addrs # h.addrs),
                       !.addrs          = h.addrs,
                       !.nsChanged      = @ \/ (nsRead /\ s.ns # {} /\ s.ns # h.ns),
                       !.ns             = IF nsRead THEN h.ns ELSE @]

applyTLS(s, c) ==
    IF c.err
    THEN [s EXCEPT !.certError = TRUE, !.certChecked = FALSE]
    ELSE [s EXCEPT !.certChecked    = TRUE,
                   !.certNotAfter   = c.notAfter,
                   !.certValid      = c.valid,
                   !.certCoversHost = c.covers,
                   !.certError      = ~c.valid]

\* Variant: a failed query forgets the date already held.
applyDomainForgets(s, d) ==
    IF d.err \/ d.expires = NoTime
    THEN [s EXCEPT !.domainKnown = FALSE]
    ELSE [s EXCEPT !.domainExpires = d.expires, !.domainKnown = TRUE]

applyDomain(s, d) ==
    IF d.err \/ d.expires = NoTime
    THEN s
    ELSE [s EXCEPT !.domainExpires = d.expires, !.domainKnown = TRUE]

----------------------------------------------------------------------------
(* Readings. *)

Down(s) == s.probed /\ ~s.up /\ s.fails >= failuresBeforeDown

Failing(s) == s.probed /\ ~s.up /\ s.fails > 0 /\ s.fails < failuresBeforeDown

\* Variant that loses the sign of a date in the past.
WholeDaysUnsigned(d) == (IF d >= 0 THEN d ELSE -d) \div Day

\* int(d.Hours() / 24): the fraction of a day is cut off towards zero.
WholeDays(d) == IF d >= 0 THEN d \div Day ELSE -((-d) \div Day)

CertDaysLeft(s, now) ==
    IF s.certNotAfter = NoTime THEN 0 ELSE WholeDays(s.certNotAfter - now)

DomainDaysLeft(s, now) ==
    IF ~s.domainKnown \/ s.domainExpires = NoTime
    THEN 0 ELSE WholeDays(s.domainExpires - now)

\* Membership of the catalogue's list of sites that moved.
InMoved(s) == s.addressChanged \/ s.nsChanged

Severity(s, now) ==
    CASE ~s.probed                                                   -> SevOK
      [] s.probed /\ Down(s)                                         -> SevUrgent
      [] s.probed /\ Failing(s)                                      -> SevWarn
      [] OTHER ->
           LET badCert == s.certChecked /\ (~s.certValid \/ ~s.certCoversHost)
               days    == CertDaysLeft(s, now)
           IN  IF badCert \/ (s.certChecked /\ days <= CertUrgent) THEN SevUrgent
               ELSE IF \/ s.certChecked /\ days <= CertWarn
                       \/ s.domainKnown /\ DomainDaysLeft(s, now) <= DomainWarn
                    THEN SevWarn
               ELSE IF InMoved(s) THEN SevInfo
               ELSE SevOK

\* Which line Reason returns; "" when it returns none.  The outage line is the
\* probe's error or its status code, and the chain's is certError.
Reason(s, now) ==
    CASE ~s.probed                            -> "unchecked"
      [] s.probed /\ Failing(s)               -> "missed"
      [] s.probed /\ Down(s)                  -> "outage"
      [] OTHER ->
           IF s.certChecked /\ ~s.certCoversHost THEN "host"
           ELSE IF s.certChecked /\ ~s.certValid
                THEN IF s.certError THEN "chain" ELSE ""
           ELSE IF s.certChecked /\ CertDaysLeft(s, now) <= CertWarn THEN "expiry"
           ELSE IF s.domainKnown /\ DomainDaysLeft(s, now) <= DomainWarn THEN "renewal"
           ELSE IF s.nsChanged THEN "nameservers"
           ELSE IF s.addressChanged THEN "address"
           ELSE ""

InCertProblems(s, now) ==
    /\ s.certChecked
    /\ ~s.certValid \/ ~s.certCoversHost \/ CertDaysLeft(s, now) <= CertWarn

InDomainProblems(s, now) == s.domainKnown /\ DomainDaysLeft(s, now) <= DomainWarn
=============================================================================
