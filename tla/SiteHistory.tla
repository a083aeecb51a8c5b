----------------------------- MODULE SiteHistory -----------------------------
(***************************************************************************)
(* One site's record through a history of answers: the four tiers of       *)
(* monitor/monitor.go fold into it in any order while time passes, and the *)
(* panel and the alert catalogue read it.  Nothing is concurrent here (see *)
(* Monitor for that); what is checked is that a long mix of answers,       *)
(* failures and waiting leaves the readings telling the truth.             *)
(*                                                                         *)
(* misses and onset are history variables: what an observer of the probes  *)
(* alone would say of the site.                                            *)
(***************************************************************************)
EXTENDS SiteState

CONSTANTS
    Addrs,      \* addresses a name can resolve to
    Servers,    \* nameservers
    Dates,      \* expiry dates certificates and registrations carry
    Horizon,    \* the last instant of the history
    Expect      \* whether the site has a text its body must contain

ASSUME SiteHistoryAssumption ==
    /\ Horizon \in Nat \ {0}
    /\ Dates \subseteq Nat

VARIABLES
    site,       \* the record, SiteState
    now,        \* the clock
    misses,     \* probes failed since the last healthy one, up to FailCap
    onset,      \* when the second of them came
    wasUp       \* some probe was healthy

vars == <<site, now, misses, onset, wasUp>>

\* A failed query carries no data, and a name that resolves has an address.
ReachAnswers == {r \in ReachAnswer : r.matched => r.err = "none" /\ Expect}
DnsAnswers == {h \in DnsAnswer(Addrs, Servers) :
                  /\ h.err <=> h.addrs = {}
                  /\ h.nsErr => h.ns = {}}
CertAnswers == {c \in CertAnswer(Dates) : c.err => ~c.covers}
DomainAnswers == {d \in DomainAnswer(Dates) : d.err => d.expires = NoTime}

TypeOK ==
    /\ site \in SiteStates({"url"}, Addrs, Servers, Dates \cup 0..Horizon)
    /\ now \in 1..Horizon
    /\ misses \in 0..FailCap
    /\ onset \in 0..Horizon
    /\ wasUp \in BOOLEAN

Init ==
    /\ site = NewSite("url")
    /\ now = 1
    /\ misses = 0
    /\ onset = NoTime
    /\ wasUp = FALSE

\* A round that is not a local fault folds one probe in.
ReachRound ==
    \E r \in ReachAnswers :
        /\ site' = applyReach(site, r, Expect, now)
        /\ misses' = IF ReachUp(r, Expect) THEN 0 ELSE MoreFails(misses)
        /\ onset' = IF misses = 1 /\ misses' = 2 THEN now ELSE onset
        /\ wasUp' = (wasUp \/ ReachUp(r, Expect))
        /\ UNCHANGED now

DNSRound ==
    \E h \in DnsAnswers :
        /\ site' = applyDNS(site, h)
        /\ UNCHANGED <<now, misses, onset, wasUp>>

TLSRound ==
    \E c \in CertAnswers :
        /\ site' = applyTLS(site, c)
        /\ UNCHANGED <<now, misses, onset, wasUp>>

DomainRound ==
    \E d \in DomainAnswers :
        /\ site' = applyDomain(site, d)
        /\ UNCHANGED <<now, misses, onset, wasUp>>

Wait ==
    /\ now < Horizon
    /\ now' = now + 1
    /\ UNCHANGED <<site, misses, onset, wasUp>>

Next == ReachRound \/ DNSRound \/ TLSRound \/ DomainRound \/ Wait

Spec == Init /\ [][Next]_vars

----------------------------------------------------------------------------
\* A site is down exactly when its last two counted probes (or more) failed,
\* whatever it was before: README's "two consecutive misses", which Down has
\* to reconstruct from Up, Probed and Fails.
DownIsTwoInARow == Down(site) <=> misses >= failuresBeforeDown

\* The "since" a down site shows is the moment of its second miss, for every
\* site that was ever up; one that never was shows none.
SinceIsOnset == Down(site) => site.stateSince = IF wasUp THEN onset ELSE NoTime

\* A probed row is coloured exactly when Reason has a line for it, which needs
\* the urgent window inside the warning one.
ColourHasReason ==
    CertUrgent <= CertWarn /\ site.probed =>
        (Severity(site, now) # SevOK <=> Reason(site, now) # "")

\* Of a site that is answering, the panel's warning colours and the alert
\* lists say the same thing: a row turns warn or urgent exactly when an armed
\* watch on certProblems or domainProblems can see it.
ColourMatchesLists ==
    CertUrgent <= CertWarn /\ site.probed /\ misses = 0 =>
        (Severity(site, now) >= SevWarn <=>
            InCertProblems(site, now) \/ InDomainProblems(site, now))

\* Waiting alone never makes a site look better: with no answer in between, a
\* problem on show stays on show, across the day an expiry falls on.
WaitingNeverHeals ==
    \A later \in now..Horizon : Severity(site, later) >= Severity(site, now)

\* The colour, the reason and the alert lists, each decided by conditions of its
\* own, agree with each other now and do not contradict themselves later.
ReadingsAgree == ColourHasReason /\ ColourMatchesLists /\ WaitingNeverHeals

\* Only a registration with a date outside the window ends a renewal warning;
\* failed queries and answers without a date leave it standing.
WarningNeedsRenewal ==
    [][InDomainProblems(site, now) /\ ~InDomainProblems(site', now')
         => \E t \in Dates : /\ site'.domainExpires = t
                             /\ t # site.domainExpires
                             /\ t > now + DomainWarn * Day]_vars
=============================================================================
