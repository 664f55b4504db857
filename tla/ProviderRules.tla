---------------------------- MODULE ProviderRules ----------------------------
(***************************************************************************)
(* What each reputation provider makes of the report its service sends     *)
(* about an address: one rule per CheckIP, after the HTTP exchange.        *)
(*                                                                         *)
(* A report has a score (abuse confidence, fraud score or risk), the       *)
(* network traits it asserts, whether it accuses the address of abuse      *)
(* (GreyNoise: malicious; IPQS: recent or frequent abuse, an attack, high  *)
(* velocity, a bot; ProxyCheck.io: anonymous, scraper, compromised or an   *)
(* anonymizing operator; ownership: an abuser, or a bogon, which comes     *)
(* without traits) and whether the service knows the address at all        *)
(* (GreyNoise: 404, benign or RIOT; ownership: an ASN and an organization).*)
(***************************************************************************)
EXTENDS Integers

Trait == {"vpn", "proxy", "tor", "hosting"}
Status == {"GOOD", "RISKY", "BAD", "UNKNOWN"}

ReportType == [score : Nat, traits : SUBSET Trait, abuse : BOOLEAN, known : BOOLEAN]
VerdictType == [status : Status, hard : BOOLEAN, penalty : Nat, traits : SUBSET Trait]

Verdict(status, hard, penalty, traits) ==
    [status |-> status, hard |-> hard, penalty |-> penalty, traits |-> traits]

\* It reports a usage type and Tor.  A score of 26 to 90 is BAD with a penalty,
\* but no hard rejection.
AbuseIPDB(r) ==
    LET traits == r.traits \cap {"hosting", "tor"} IN
    IF "hosting" \in traits \/ r.score > 90
    THEN Verdict("BAD", TRUE, 0, traits)
    ELSE IF r.score > 25
         THEN Verdict("BAD", FALSE, r.score \div 5, traits)
         ELSE Verdict("GOOD", FALSE, 0, traits)

\* An address it has seen scanning and cannot classify is UNKNOWN, without an error.
GreyNoise(r) ==
    IF r.abuse THEN Verdict("BAD", TRUE, 0, {})
    ELSE IF r.known THEN Verdict("GOOD", FALSE, 0, {})
         ELSE Verdict("UNKNOWN", FALSE, 0, {})

IPQS(r) ==
    IF r.traits # {} \/ r.abuse \/ r.score >= 90
    THEN Verdict("BAD", TRUE, 0, r.traits)
    ELSE IF r.score >= 75 THEN Verdict("BAD", FALSE, r.score \div 4, {})
         ELSE IF r.score >= 25 THEN Verdict("RISKY", FALSE, r.score \div 5, {})
              ELSE Verdict("GOOD", FALSE, 0, {})

\* Tor alone stays GOOD here; the trait is for the admission to reject.
IPInfo(r) ==
    IF r.traits \cap {"hosting", "vpn", "proxy"} # {}
    THEN Verdict("RISKY", FALSE, 0, r.traits)
    ELSE Verdict("GOOD", FALSE, 0, r.traits)

ProxyCheck(r) ==
    IF r.traits # {} \/ r.abuse \/ r.score >= 51
    THEN Verdict("BAD", TRUE, 0, r.traits)
    ELSE IF r.score > 25 THEN Verdict("RISKY", FALSE, r.score, {})
         ELSE Verdict("GOOD", FALSE, 0, {})

IPOwnership(r) ==
    IF r.traits # {} \/ r.abuse
    THEN Verdict("BAD", TRUE, 0, r.traits)
    ELSE IF r.known THEN Verdict("GOOD", FALSE, 0, {})
         ELSE Verdict("UNKNOWN", FALSE, 0, {})

ProviderName == {"ProxyCheck.io", "IPOwnership", "AbuseIPDB", "GreyNoise", "IPQS", "IPInfo"}

Rule(p, r) ==
    CASE p = "ProxyCheck.io" -> ProxyCheck(r)
      [] p = "IPOwnership"   -> IPOwnership(r)
      [] p = "AbuseIPDB"     -> AbuseIPDB(r)
      [] p = "GreyNoise"     -> GreyNoise(r)
      [] p = "IPQS"          -> IPQS(r)
      [] p = "IPInfo"        -> IPInfo(r)
==============================================================================
