------------------------------ MODULE HostCheck ------------------------------
(***************************************************************************)
(* One host checked again and again: cert_check.py verifies a manual host  *)
(* against the name the operator typed, cert_check_with_discovery.py takes *)
(* the name of a NetBox device from its certificate, and check_payload.py  *)
(* turns either result into the report's entry.  Both make several         *)
(* connections, and nothing says that the host presents the same           *)
(* certificate at each, or that the day is the same.                       *)
(*                                                                         *)
(* Time is counted in days, a day beginning at the time of day at which    *)
(* the certificates begin and end.  A certificate is a record:             *)
(*    sans    its dNSName and iPAddress entries, in the extension's order  *)
(*    cn      its common name, or NoName                                   *)
(*    self    its subject is its issuer                                    *)
(*    public  the system's trust store has a path to it                    *)
(*    internal  its issuer matches INTERNAL_CA_PATTERNS                    *)
(*    from, until  the first and the last day of its validity              *)
(*    form    "good", "der": the x509 parser rejects it, or "san": the     *)
(*            parser rejects its extension once that is read               *)
(* A dNSName, a common name and a device's name may be an IP literal: the  *)
(* code takes it as it comes, the TLS library reads it as an address.      *)
(*                                                                         *)
(* pc: "idle" no check yet; "hs1", "hs2", "hs3" before a handshake of the  *)
(* discovery; "stage1", "stage2" of cert_check; "done"; "raised" when an   *)
(* exception has left the check function.                                  *)
(***************************************************************************)
EXTENDS Integers, SequencesExt

CONSTANTS
    Name,        \* DNS names and patterns, as sequences of labels
    Address,     \* IP addresses
    NoName,      \* "no name", "no address"
    Unusable,    \* names the idna codec raises on (an empty or long label)
    Cert,        \* the certificates a server may present
    NoCert,
    ManualHost,  \* hostnames of manual_hosts
    Device,      \* devices NetBox may return: [id, name, ip4, ip6] records
    Threshold,   \* max(alert_thresholds_days)
    MaxDay       \* bound: the clock stops here

ASSUME NameAssumption ==
    /\ Name \cap Address = {} /\ NoName \notin Name \cup Address
    /\ Unusable \subseteq Name /\ ManualHost \subseteq Name \cup Address
    /\ \A n \in Name \cup Address : n \in Seq(STRING) /\ n # << >>
    /\ \A a \in Address : Head(a) # "*"
ASSUME CertAssumption ==
    /\ NoCert \notin Cert
    /\ \A c \in Cert : /\ c.sans \in Seq([type : {"dns"}, value : Name \cup Address]
                                          \cup [type : {"ip"}, value : Address])
                       /\ c.cn \in Name \cup Address \cup {NoName}
                       /\ {c.self, c.public, c.internal} \subseteq BOOLEAN
                       /\ c.from \in Int /\ c.until \in Int
                       /\ c.form \in {"good", "der", "san"}
ASSUME DeviceAssumption ==
    \A d \in Device : /\ d.name \in Name \cup Address \cup {NoName}
                      /\ {d.ip4, d.ip6} \subseteq Address \cup {NoName}
ASSUME BoundsAssumption == Threshold \in Nat /\ MaxDay \in Nat

VARIABLES
    now,
    pc,
    target,     \* what is connected to; for a manual host, the name to verify
    seen,       \* discovery: the certificate of handshake 1
    days,       \* discovery: days_until_expiry as of handshake 1
    matches,    \* hostname_matches: "yes", "no" or "none"
    code,       \* cert_check: verify_code of stage 1
    entry,      \* the payload of the last check
    begun,      \* history: the day the check began
    ended,      \* history: the day its result was built
    presented,  \* history: the certificates presented to this check
    missed      \* history: a verifying handshake was not completed

progress == <<target, seen, days, matches, code>>
history  == <<begun, ended, presented, missed>>
vars     == <<now, pc, progress, entry, history>>

Discovery == pc \in {"hs1", "hs2", "hs3"}
UnderWay  == Discovery \/ pc \in {"stage1", "stage2"}

-----------------------------------------------------------------------------
(* The TLS library *)

Sans(c, type) == {s.value : s \in {g \in ToSet(c.sans) : g.type = type}}
DnsSans(c)    == Sans(c, "dns")
IpSans(c)     == Sans(c, "ip")

\* A wildcard takes the place of one label, and OpenSSL wants two labels after it.
TlsMatch(n, p) ==
    \/ n = p
    \/ Head(p) = "*" /\ Len(p) >= 3 /\ Len(n) = Len(p) /\ Tail(n) = Tail(p)

\* The names a TLS client accepts c for: its common name only without DNS names,
\* and an address only among the addresses.
TlsNames(c, n) ==
    IF n \in Address
    THEN n \in IpSans(c)
    ELSE \E p \in (IF DnsSans(c) = {} THEN {c.cn} \ {NoName} ELSE DnsSans(c)) :
            TlsMatch(n, p)

Ok               == 0
NotYetValid      == 9
Expired          == 10
SelfSigned       == 18
UnknownIssuer    == 20
HostnameMismatch == 62
AddressMismatch  == 64

\* verify_code when c is presented to a client that expects n.  The path is looked
\* at first, then the name, then the dates; the first error ends the handshake.
VerifyCode(c, n, hasRoots) ==
    IF ~hasRoots \/ ~c.public
    THEN IF c.self THEN SelfSigned ELSE UnknownIssuer
    ELSE IF ~TlsNames(c, n)
    THEN IF n \in Address THEN AddressMismatch ELSE HostnameMismatch
    ELSE CASE now < c.from  -> NotYetValid
           [] now > c.until -> Expired
           [] OTHER         -> Ok

ConnectFault == {"refused", "timeout", "unreachable"}
TlsFault     == {"tls_timeout", "tls_error"}
Fault        == ConnectFault \cup TlsFault

-----------------------------------------------------------------------------
(* What the report says of a certificate *)

\* Mutant: the path is trusted only when verification succeeded.
PathTrustedOnlyOk(c) == c = Ok

\* chain_path_trusted: only the dates or the name are wrong, if anything is.
PathTrusted(c) ==
    c \in {Ok, NotYetValid, Expired, HostnameMismatch, AddressMismatch}

CategorizeCa(c, pathOk) ==
    CASE c.self                              -> "self_signed"
      [] ~c.self /\ pathOk                   -> "well_known_public"
      [] ~c.self /\ ~pathOk /\ c.internal    -> "internal_corporate"
      [] ~c.self /\ ~pathOk /\ ~c.internal   -> "unknown"

\* Mutant: a wildcard stands for any number of labels.
MatchDnsAnyDepth(n, p) ==
    n = p \/ (Head(p) = "*" /\ Len(p) > 1 /\ IsSuffix(Tail(p), n))

\* _match_dns
MatchDns(n, p) ==
    n = p \/ (Head(p) = "*" /\ Len(p) > 1 /\ Len(n) > 1 /\ Tail(n) = Tail(p))

\* _hostname_matches: DNS names of the extension, else the common name.
HostnameMatches(n, c) ==
    IF DnsSans(c) # {}
    THEN \E p \in DnsSans(c) : MatchDns(n, p)
    ELSE c.cn # NoName /\ MatchDns(n, c.cn)

\* The first entry of the extension, of either type, else the common name.
Canonical(c) == IF c.sans # << >> THEN Head(c.sans).value ELSE c.cn

DaysLeft(c) == c.until - now

\* Mutant: the threshold is looked at before the end of validity.
StatusSoonFirst(d, trusted) ==
    CASE d <= Threshold                     -> "cert_expiring_soon"
      [] d > Threshold /\ trusted = "no"    -> "tls_warning"
      [] OTHER                              -> "success"

\* _determine_status
DetermineStatus(d, trusted) ==
    CASE d < 0                              -> "cert_expired"
      [] d \in 0 .. Threshold               -> "cert_expiring_soon"
      [] d > Threshold /\ trusted = "no"    -> "tls_warning"
      [] OTHER                              -> "success"

\* Mutant: an expired certificate maps like the other evaluated ones.
LegacyExpiredHealthy(status) ==
    CASE status \in {"success", "cert_expiring_soon", "tls_warning",
                     "cert_expired"} -> "success"
      [] status \in {"connection_refused", "connection_timeout"} ->
            "connection_failed"
      [] OTHER -> "tls_failed"

\* _DETAILED_TO_LEGACY_STATUS; the states of cert_check are legacy already.
Legacy(status) ==
    CASE status \in {"success", "cert_expiring_soon", "tls_warning"} -> "success"
      [] status \in {"connection_refused", "connection_timeout"} ->
            "connection_failed"
      [] OTHER -> "tls_failed"

NoEntry == [path |-> "none", status |-> "none", detail |-> "none", cert |-> NoCert,
            days |-> 0, matches |-> "none", trusted |-> "none", category |-> "none"]

\* build_check_payload: a result without a certificate has no cert block.
ManualEntry(status, c, m) ==
    [path |-> "manual", status |-> status, detail |-> status, cert |-> c,
     days     |-> IF c = NoCert THEN 0 ELSE DaysLeft(c),
     matches  |-> IF c = NoCert THEN "none" ELSE m,
     trusted  |-> IF c = NoCert THEN "none" ELSE IF status = "success" THEN "yes" ELSE "no",
     category |-> IF c = NoCert THEN "none" ELSE CategorizeCa(c, PathTrusted(code))]

\* build_check_payload_from_discovery: chain_trusted_by_system stands in for the
\* trusted path.  days_until_expiry is computed anew, the status is not.
DiscoveryEntry(status, c, m, trusted) ==
    [path |-> "discovery", status |-> Legacy(status), detail |-> status, cert |-> c,
     days     |-> IF c = NoCert THEN 0 ELSE DaysLeft(c),
     matches  |-> m,
     trusted  |-> trusted,
     category |-> IF c = NoCert THEN "none" ELSE CategorizeCa(c, trusted = "yes")]

-----------------------------------------------------------------------------

TypeOK ==
    /\ now \in 0 .. MaxDay
    /\ pc \in {"idle", "hs1", "hs2", "hs3", "stage1", "stage2", "done", "raised"}
    /\ target \in Name \cup Address \cup {NoName}
    /\ seen \in Cert \cup {NoCert}
    /\ days \in Int
    /\ matches \in {"yes", "no", "none"}
    /\ code \in {Ok, NotYetValid, Expired, SelfSigned, UnknownIssuer,
                HostnameMismatch, AddressMismatch}
    /\ entry.cert \in Cert \cup {NoCert}
    /\ {begun, ended} \subseteq 0 .. MaxDay
    /\ presented \subseteq Cert
    /\ missed \in BOOLEAN
    /\ target = NoName <=> pc = "idle"
    /\ pc \in {"hs2", "hs3"} <=> seen # NoCert
    /\ pc \in {"hs2", "hs3"} => Canonical(seen) # NoName
    /\ pc = "hs3" <=> matches # "none"
    /\ pc = "stage2" <=> code # Ok
    /\ pc = "done" <=> entry # NoEntry

Init ==
    /\ now \in 0 .. MaxDay
    /\ pc = "idle"
    /\ target = NoName /\ seen = NoCert /\ days = 0 /\ matches = "none" /\ code = Ok
    /\ entry = NoEntry
    /\ begun = 0 /\ ended = 0 /\ presented = {} /\ missed = FALSE

\* The check ends, normally (End) or by an exception (Raise).
Over(step, e) ==
    /\ pc' = step /\ entry' = e
    /\ seen' = NoCert /\ days' = 0 /\ matches' = "none" /\ code' = Ok
    /\ ended' = now
    /\ UNCHANGED <<now, target, begun>>

End(e) == Over("done", e)
Raise  == Over("raised", NoEntry)

\* The server presents c; or the handshake is not completed.
Presented(c) == presented' = presented \cup {c} /\ UNCHANGED missed
NotCompleted == missed' = TRUE /\ UNCHANGED presented

-----------------------------------------------------------------------------
(* What is checked *)

\* _resolve_ip_address
IpAddress(d) == IF d.ip4 # NoName THEN d.ip4 ELSE d.ip6

\* _device_to_discovered_host: without an id or a name the device is skipped.
Discovered == {d \in Device : d.id /\ d.name # NoName}

\* ip_address or hostname, in the cycle and in the check_host action.
ConnectTarget(d) == IF IpAddress(d) # NoName THEN IpAddress(d) ELSE d.name

Begin(step, t) ==
    /\ ~UnderWay
    /\ pc' = step /\ target' = t
    /\ entry' = NoEntry
    /\ begun' = now /\ ended' = 0 /\ presented' = {} /\ missed' = FALSE
    /\ UNCHANGED <<now, seen, days, matches, code>>

BeginManual    == \E h \in ManualHost : Begin("stage1", h)
BeginDiscovery == \E d \in Discovered : Begin("hs1", ConnectTarget(d))

-----------------------------------------------------------------------------
(* cert_check_with_discovery *)

\* create_connection or wrap_socket fails.
DiscoverFails ==
    /\ pc = "hs1" /\ target \notin Unusable
    /\ \E f \in Fault :
          End(DiscoveryEntry(CASE f \in {"refused", "unreachable"}  -> "connection_refused"
                               [] f \in {"timeout", "tls_timeout"}  -> "connection_timeout"
                               [] f = "tls_error"                   -> "tls_failed_no_cert",
                             NoCert, "none", "none"))
    /\ UNCHANGED <<presented, missed>>

\* load_der_x509_certificate raises: _MalformedCert.
DiscoverMalformed(c) ==
    /\ pc = "hs1" /\ target \notin Unusable /\ c.form = "der"
    /\ End(DiscoveryEntry("tls_failed_malformed_cert", NoCert, "none", "none"))
    /\ Presented(c)

DiscoverNoName(c) ==
    /\ pc = "hs1" /\ target \notin Unusable
    /\ c.form = "good" /\ Canonical(c) = NoName
    /\ End(DiscoveryEntry("cert_no_usable_hostname", c, "none", "none"))
    /\ Presented(c)

\* Mutant: a certificate without any name goes on to the verifying handshakes.
DiscoverUnnamed(c) ==
    /\ pc = "hs1" /\ target \notin Unusable /\ c.form = "good"
    /\ pc' = "hs2"
    /\ seen' = c /\ days' = DaysLeft(c)
    /\ Presented(c)
    /\ UNCHANGED <<now, target, matches, code, entry, begun, ended>>

Discover(c) ==
    /\ pc = "hs1" /\ target \notin Unusable
    /\ c.form = "good" /\ Canonical(c) # NoName
    /\ pc' = "hs2"
    /\ seen' = c /\ days' = DaysLeft(c)
    /\ Presented(c)
    /\ UNCHANGED <<now, target, matches, code, entry, begun, ended>>

\* Nothing catches what the idna codec raises on the target, or the parser on the
\* names of the certificate.
DiscoverRaises ==
    /\ pc = "hs1"
    /\ \/ target \in Unusable /\ UNCHANGED <<presented, missed>>
       \/ target \notin Unusable /\ \E c \in Cert : c.form = "san" /\ Presented(c)
    /\ Raise

\* Mutant: the context of handshake 2 comes with the system's roots.
VerifyHostnameRoots(c) ==
    /\ pc = "hs2" /\ Canonical(seen) \notin Unusable
    /\ pc' = "hs3"
    /\ matches' = IF VerifyCode(c, Canonical(seen), TRUE) = HostnameMismatch
                  THEN "no" ELSE "yes"
    /\ Presented(c)
    /\ UNCHANGED <<now, target, seen, days, code, entry, begun, ended>>

\* _handshake_verify_hostname: any verify_code but 62 is taken for a match.  The
\* trust store is empty, so the path is the first thing wrong, whatever c names.
VerifyHostname(c) ==
    /\ pc = "hs2" /\ Canonical(seen) \notin Unusable
    /\ pc' = "hs3"
    /\ matches' = IF VerifyCode(c, Canonical(seen), FALSE) = HostnameMismatch
                  THEN "no" ELSE "yes"
    /\ Presented(c)
    /\ UNCHANGED <<now, target, seen, days, code, entry, begun, ended>>

\* Mutant: only a failed TLS handshake is expected here, not a failed connection.
VerifyHostnameFailsTls ==
    /\ pc = "hs2"
    /\ \/ Raise
       \/ /\ Canonical(seen) \notin Unusable
          /\ pc' = "hs3" /\ matches' = "no"
          /\ UNCHANGED <<now, target, seen, days, code, entry, begun, ended>>
    /\ NotCompleted

\* No connection, or no TLS: False.
VerifyHostnameFails ==
    /\ pc = "hs2"
    /\ pc' = "hs3" /\ matches' = "no"
    /\ NotCompleted
    /\ UNCHANGED <<now, target, seen, days, code, entry, begun, ended>>

DiscoveryResult(trusted) ==
    End(DiscoveryEntry(DetermineStatus(days, trusted), seen, matches, trusted))

\* _handshake_verify_chain: the system's trust store.
VerifyChain(c) ==
    /\ pc = "hs3" /\ Canonical(seen) \notin Unusable
    /\ DiscoveryResult(IF VerifyCode(c, Canonical(seen), TRUE) = Ok THEN "yes" ELSE "no")
    /\ Presented(c)

VerifyChainFails ==
    /\ pc = "hs3"
    /\ DiscoveryResult("no")
    /\ NotCompleted

\* wrap_socket raises on a server_hostname no SNI can carry.
VerifyRaises ==
    /\ pc \in {"hs2", "hs3"} /\ Canonical(seen) \in Unusable
    /\ Raise
    /\ UNCHANGED <<presented, missed>>

-----------------------------------------------------------------------------
(* cert_check *)

CheckFails ==
    /\ pc = "stage1" /\ target \notin Unusable
    /\ \E f \in Fault :
          End(ManualEntry(IF f \in ConnectFault THEN "connection_failed" ELSE "tls_failed",
                          NoCert, "none"))
    /\ UNCHANGED <<presented, missed>>

Verified(c) ==
    /\ pc = "stage1" /\ target \notin Unusable
    /\ VerifyCode(c, target, TRUE) = Ok /\ c.form = "good"
    /\ End(ManualEntry("success", c, "yes"))
    /\ Presented(c)

\* SSLCertVerificationError: on to stage 2.
NotVerified(c) ==
    /\ pc = "stage1" /\ target \notin Unusable
    /\ VerifyCode(c, target, TRUE) # Ok
    /\ pc' = "stage2"
    /\ code' = VerifyCode(c, target, TRUE)
    /\ Presented(c)
    /\ UNCHANGED <<now, target, seen, days, matches, entry, begun, ended>>

\* The second connection fails: the verdict without a certificate.
RecoverFails ==
    /\ pc = "stage2"
    /\ End(ManualEntry("tls_failed", NoCert, "none"))
    /\ UNCHANGED <<presented, missed>>

Recovered(c) ==
    /\ pc = "stage2" /\ c.form = "good"
    /\ End(ManualEntry("tls_failed", c,
                       IF HostnameMatches(target, c) THEN "yes" ELSE "no"))
    /\ Presented(c)

\* Nothing catches the codec's or the parser's exceptions here either.
CheckRaises ==
    /\ \/ /\ pc = "stage1" /\ target \in Unusable
          /\ UNCHANGED <<presented, missed>>
       \/ \E c \in Cert :
             /\ c.form # "good" /\ target \notin Unusable
             /\ pc = "stage2" \/ (pc = "stage1" /\ VerifyCode(c, target, TRUE) = Ok)
             /\ Presented(c)
    /\ Raise

-----------------------------------------------------------------------------

\* A check takes seconds: at most one day begins while it is under way.
NextDay ==
    /\ now < MaxDay
    /\ UnderWay => now = begun
    /\ now' = now + 1
    /\ UNCHANGED <<pc, progress, entry, history>>

Handshake(c) ==
    \/ DiscoverMalformed(c) \/ DiscoverNoName(c) \/ Discover(c)
    \/ VerifyHostname(c) \/ VerifyChain(c)
    \/ Verified(c) \/ NotVerified(c) \/ Recovered(c)

Failure ==
    \/ DiscoverFails \/ VerifyHostnameFails \/ VerifyChainFails
    \/ CheckFails \/ RecoverFails

Next ==
    \/ BeginManual \/ BeginDiscovery
    \/ \E c \in Cert : Handshake(c)
    \/ Failure
    \/ DiscoverRaises \/ VerifyRaises \/ CheckRaises
    \/ NextDay

Spec == Init /\ [][Next]_vars

-----------------------------------------------------------------------------
(* Properties *)

Reported == pc = "done" /\ entry.cert # NoCert

\* The host presented the certificate of the report, and no other.
Steady == Reported /\ presented = {entry.cert}

\* What the certificate itself says, in the words of ca_category.py and
\* cert_check.py: the issuer's bucket whatever the dates and the name, and the
\* names with a wildcard in the leftmost label only, for exactly one label.
IssuerCategory(c) ==
    IF c.self THEN "self_signed"
    ELSE IF c.public THEN "well_known_public"
    ELSE IF c.internal THEN "internal_corporate"
    ELSE "unknown"

CoversName(c, n) ==
    LET dns == IF DnsSans(c) = {} THEN {c.cn} ELSE DnsSans(c)
    IN  \/ n \in dns
        \/ \E p \in dns \ {NoName} : \E label \in {Head(m) : m \in Name} :
               Len(p) > 1 /\ Head(p) = "*" /\ n = <<label>> \o Tail(p)

InDate(c) == ended \in c.from .. c.until

\* c has a canonical name, and one that TLS can find in it: an IP literal taken
\* from a dNSName or from the common name is looked for among the addresses only.
NamesItself(c) ==
    Canonical(c) # NoName /\ (Canonical(c) \in Address => Canonical(c) \in IpSans(c))

\* A host is never reported healthy with a certificate that had expired before
\* the check began, whichever way it is checked; and when the host presented one
\* certificate throughout, "success" means that the trust store has a path to
\* it, that it names what was verified and that it is in date, although the
\* three verdicts come from three connections (src/README.md:83).
HealthIsEarned ==
    /\ Reported /\ entry.status = "success" => entry.cert.until >= begun
    /\ Steady /\ entry.detail = "success" =>
          /\ entry.cert.public /\ InDate(entry.cert)
          /\ TlsNames(entry.cert, IF entry.path = "manual"
                                  THEN target ELSE Canonical(entry.cert))

\* The status is decided on the days left at the first handshake, the days shown
\* are counted when the result is built: they may contradict each other by the
\* one day that began in between, and by no more (cert_check_with_discovery.py:224
\* and :523).
DaysAgree ==
    Reported /\ entry.path = "discovery" =>
        CASE entry.detail = "cert_expired"         -> entry.days < 0
          [] entry.detail = "cert_expiring_soon"   -> entry.days \in -1 .. Threshold
          [] entry.detail \in {"success", "tls_warning"} -> entry.days >= Threshold
          [] OTHER -> TRUE

\* The issuer's bucket is right whatever else is wrong with the certificate.  Only
\* the discovery, for which "trusted now" stands in for the path, loses it: out of
\* date, without a canonical name, with an IP literal for one that is not among the
\* addresses (code 64 at handshake 3, cert_check_with_discovery.py:468-471), or
\* when the verifying handshakes were not completed (check_payload.py:158-163).
CategoryTrue ==
    Steady =>
        \/ entry.category = IssuerCategory(entry.cert)
        \/ /\ entry.path = "discovery" /\ entry.trusted # "yes" /\ entry.cert.public
           /\ missed \/ ~InDate(entry.cert) \/ ~NamesItself(entry.cert)

\* hostname_matches of cert_check is the answer for a DNS name, both from the TLS
\* library (verified) and from _hostname_matches (recovered).
MatchTrue ==
    Steady /\ entry.path = "manual" /\ target \notin Address =>
        (entry.matches = "yes" <=> CoversName(entry.cert, target))

\* Both verdicts are those of the certificate.
VerdictsTrue == CategoryTrue /\ MatchTrue

Odd(c) == c.form # "good" \/ Canonical(c) \in Unusable

\* Network trouble at whatever point of a check leads to an entry in the report.
\* An exception, which costs the host its entry (check_thread.py:499), takes an odd
\* name or an odd certificate.
OutageNeverRaises ==
    pc = "raised" => target \in Unusable \/ \E c \in presented : Odd(c)

\* What hostname_matches of a discovered host tells: it is no verdict on a name,
\* "no" says that a verifying handshake was not completed, and nothing else does
\* (cert_check_with_discovery.py:359-381; the path error comes before the name is
\* looked at).
MismatchMeansMissed ==
    pc = "done" /\ entry.path = "discovery" /\ entry.matches = "no" => missed

\* When the host presented one certificate throughout, the report says of it what
\* is true of it, and blames no name for an outage of the network.
ReportTellsTheTruth == VerdictsTrue /\ MismatchMeansMissed

\* The inductive form of MismatchMeansMissed.
MissedInv == pc = "hs3" /\ matches = "no" => missed

\* The inductive form of the four: a check lasts no longer than a day, what is kept
\* from one connection to the next was presented at it, and the days kept are those
\* of the first or of the present day.
CheckInv ==
    /\ UnderWay => now \in {begun, begun + 1}
    /\ Discovery \/ pc = "idle" => code = Ok
    /\ pc \in {"hs2", "hs3"} =>
          /\ seen \in presented /\ seen.form = "good"
          /\ days \in {seen.until - begun, DaysLeft(seen)}
    /\ pc \in {"stage1", "hs1"} => presented = {}
    /\ pc = "stage2" =>
          \E c \in presented : PathTrusted(code) <=> c.public

IInv == /\ TypeOK /\ CheckInv
        /\ HealthIsEarned /\ DaysAgree /\ VerdictsTrue /\ OutageNeverRaises

-----------------------------------------------------------------------------
(* What the documentation says and the code does not do *)

\* src/README.md:83: success includes that the hostname matches.
SuccessMeansMatch ==
    pc = "done" /\ entry.detail = "success" => entry.matches = "yes"

\* cert_check_with_discovery.py:25-28 and :352-354: hostname_matches = False means
\* that the server presented another certificate once it was asked by name.
MismatchMeansOtherCert ==
    pc = "done" /\ entry.path = "discovery" /\ entry.matches = "no" =>
        presented # {entry.cert}

\* At least one of the two sentences holds of every check.  One short outage at
\* handshake 2 refutes both at once: _determine_status does not look at
\* hostname_matches, which is FALSE although no other certificate was presented.
MismatchIsTold == SuccessMeansMatch \/ MismatchMeansOtherCert

=============================================================================
