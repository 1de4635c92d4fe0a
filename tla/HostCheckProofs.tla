---------------------------- MODULE HostCheckProofs ----------------------------
(***************************************************************************)
(* Proofs about HostCheck, for any certificates, any names and any way in  *)
(* which the certificate of a host changes between two connections.        *)
(***************************************************************************)
EXTENDS HostCheck, SequenceTheorems, TLAPS

Properties == HealthIsEarned /\ DaysAgree /\ VerdictsTrue /\ OutageNeverRaises

-----------------------------------------------------------------------------
(* The operators *)

\* The fields of a certificate are typed.
LEMMA CertType ==
    ASSUME NEW c \in Cert
    PROVE  /\ c # NoCert /\ c.cn \in Name \cup Address \cup {NoName}
           /\ c.sans \in Seq([type : {"dns"}, value : Name \cup Address]
                              \cup [type : {"ip"}, value : Address])
           /\ c.self \in BOOLEAN /\ c.public \in BOOLEAN /\ c.internal \in BOOLEAN
           /\ c.from \in Int /\ c.until \in Int
BY CertAssumption

\* A handshake yields one of the codes.
LEMMA VerifyCodeType ==
    ASSUME NEW c, NEW n, NEW hasRoots \in BOOLEAN
    PROVE  VerifyCode(c, n, hasRoots) \in
              {Ok, NotYetValid, Expired, SelfSigned, UnknownIssuer, HostnameMismatch,
               AddressMismatch}
BY DEF VerifyCode

\* What a verified handshake says of the certificate.
LEMMA VerifiedCert ==
    ASSUME NEW c \in Cert, NEW n, now \in Int
    PROVE  VerifyCode(c, n, TRUE) = Ok <=>
              c.public /\ TlsNames(c, n) /\ now \in c.from .. c.until
BY CertType DEF VerifyCode, Ok, NotYetValid, Expired, SelfSigned, UnknownIssuer,
   HostnameMismatch, AddressMismatch

\* The code tells whether there is a path, whatever else is wrong.
LEMMA CodeTellsPath ==
    ASSUME NEW c \in Cert, NEW n
    PROVE  PathTrusted(VerifyCode(c, n, TRUE)) <=> c.public
BY CertType DEF PathTrusted, VerifyCode, Ok, NotYetValid, Expired, SelfSigned,
   UnknownIssuer, HostnameMismatch, AddressMismatch

\* The category is the issuer's when the path is judged right.
LEMMA CategoryByPath ==
    ASSUME NEW c \in Cert, NEW pathOk \in BOOLEAN
    PROVE  (c.public <=> pathOk) \/ c.self => CategorizeCa(c, pathOk) = IssuerCategory(c)
BY CertType DEF CategorizeCa, IssuerCategory

\* The entries of the extension are names or addresses, and among the iPAddress
\* entries there are addresses only.
LEMMA SansType ==
    ASSUME NEW c \in Cert
    PROVE  /\ DnsSans(c) \subseteq Name \cup Address /\ IpSans(c) \subseteq Address
           /\ \A g \in ToSet(c.sans) :
                 \/ g.type = "dns" /\ g.value \in DnsSans(c)
                 \/ g.type = "ip" /\ g.value \in IpSans(c)
<1>1. \A g \in ToSet(c.sans) :
        \/ g.type = "dns" /\ g.value \in Name \cup Address
        \/ g.type = "ip" /\ g.value \in Address
  BY CertType DEF ToSet
<1> QED
  BY <1>1 DEF DnsSans, IpSans, Sans

\* A certificate names its canonical name, unless that is an IP literal which is
\* not among its addresses.
LEMMA CanonicalNamed ==
    ASSUME NEW c \in Cert
    PROVE  /\ Canonical(c) \in Name \cup Address \cup {NoName}
           /\ Canonical(c) # NoName => (TlsNames(c, Canonical(c)) <=> NamesItself(c))
<1>0. \A n : TlsMatch(n, n)
  BY DEF TlsMatch
<1>1. CASE c.sans = << >>
  <2>1. Canonical(c) = c.cn /\ c.cn \in Name \cup Address \cup {NoName}
    BY <1>1, CertType DEF Canonical
  <2>2. DnsSans(c) = {}
    BY <1>1 DEF DnsSans, Sans, ToSet
  <2>3. CASE c.cn # NoName
    BY <1>0, <2>1, <2>2, <2>3 DEF TlsNames, NamesItself
  <2> QED
    BY <2>1, <2>3
<1>2. CASE c.sans # << >>
  <2>1. /\ Canonical(c) = Head(c.sans).value
        /\ Head(c.sans) \in ToSet(c.sans)
    BY <1>2, CertType, HeadTailProperties DEF Canonical, ToSet
  <2>2. /\ Canonical(c) \in DnsSans(c) \cup IpSans(c)
        /\ Canonical(c) \in Name \cup Address
    BY <2>1, SansType
  <2>3. CASE Canonical(c) \in Address
    BY <2>3 DEF TlsNames, NamesItself
  <2>4. CASE Canonical(c) \notin Address
    <3>1. Canonical(c) \in DnsSans(c)
      BY <2>2, <2>4, SansType
    <3>2. TlsMatch(Canonical(c), Canonical(c)) /\ DnsSans(c) # {}
      BY <1>0, <3>1
    <3>3. TlsNames(c, Canonical(c))
      BY <2>4, <3>1, <3>2 DEF TlsNames
    <3> QED
      BY <2>2, <2>4, <3>3 DEF NamesItself
  <2> QED
    BY <2>3, <2>4
<1> QED
  BY <1>1, <1>2

\* A pattern stands for one label in front of its rest.
LEMMA PatternCovers ==
    ASSUME NEW n \in Name, NEW p \in Name, Head(p) = "*", Len(p) > 1
    PROVE  (\E label \in {Head(m) : m \in Name} : n = <<label>> \o Tail(p))
              <=> Len(n) > 1 /\ Tail(n) = Tail(p)
<1>1. /\ n \in Seq(STRING) /\ n # << >> /\ p \in Seq(STRING) /\ p # << >>
      /\ Len(n) \in Nat /\ Len(p) \in Nat
  BY NameAssumption
<1>2. /\ Tail(p) \in Seq(STRING) /\ Len(Tail(p)) = Len(p) - 1
      /\ Tail(n) \in Seq(STRING) /\ Len(Tail(n)) = Len(n) - 1 /\ Head(n) \in STRING
  BY <1>1, HeadTailProperties
<1>3. ASSUME NEW label, n = <<label>> \o Tail(p) PROVE Len(n) > 1 /\ Tail(n) = Tail(p)
  BY <1>1, <1>2, <1>3
<1>4. ASSUME Tail(n) = Tail(p) PROVE n = <<Head(n)>> \o Tail(p)
  <2> DEFINE m == <<Head(n)>> \o Tail(n)
  <2>1. <<Head(n)>> \in Seq(STRING)
    BY <1>2
  <2>2. /\ m \in Seq(STRING) /\ Len(m) = 1 + Len(Tail(n))
        /\ \A i \in 1 .. 1 + Len(Tail(n)) :
              m[i] = IF i <= 1 THEN <<Head(n)>>[i] ELSE Tail(n)[i - 1]
    BY <1>2, <2>1, ConcatProperties, Len(<<Head(n)>>) = 1
  <2>3. \A i \in 1 .. Len(n) - 1 : Tail(n)[i] = n[i + 1]
    BY <1>1, <1>2, HeadTailProperties
  <2>4. Len(m) = Len(n)
    BY <1>1, <1>2, <2>2
  <2>5. \A i \in 1 .. Len(n) : m[i] = n[i]
    <3> TAKE i \in 1 .. Len(n)
    <3>1. CASE i = 1
      BY <1>1, <1>2, <2>2, <3>1
    <3>2. CASE i # 1
      <4>1. i - 1 \in 1 .. Len(n) - 1 /\ i \in 1 .. 1 + Len(Tail(n)) /\ ~(i <= 1)
        BY <1>1, <1>2, <3>2
      <4> HIDE DEF m
      <4>2. m[i] = Tail(n)[i - 1]
        BY <2>2, <4>1
      <4>3. Tail(n)[i - 1] = n[(i - 1) + 1] /\ (i - 1) + 1 = i
        BY <2>3, <4>1
      <4> QED
        BY <4>2, <4>3
    <3> QED
      BY <3>1, <3>2
  <2>6. m = n
    <3> HIDE DEF m
    <3> QED
      BY <1>1, <2>2, <2>4, <2>5, SeqEqual
  <2> QED
    BY <1>4, <2>6
<1> QED
  BY <1>3, <1>4

\* The two matchers agree with the reading of their comments, on DNS names.
LEMMA MatchersCover ==
    ASSUME NEW n \in Name, NEW c \in Cert
    PROVE  /\ HostnameMatches(n, c) <=> CoversName(c, n)
           /\ TlsNames(c, n) => CoversName(c, n)
<1>1. n \notin Address /\ n # NoName
  BY NameAssumption
<1>2. DnsSans(c) \subseteq Name \cup Address /\ c.cn \in Name \cup Address \cup {NoName}
  BY CertType, SansType
<1>3. ASSUME NEW p \in Name \cup Address
      PROVE  /\ MatchDns(n, p) <=>
                   \/ n = p
                   \/ \E label \in {Head(m) : m \in Name} :
                         Len(p) > 1 /\ Head(p) = "*" /\ n = <<label>> \o Tail(p)
             /\ TlsMatch(n, p) => MatchDns(n, p)
  <2>1. Len(p) \in Nat /\ Len(n) \in Nat
    BY <1>3, NameAssumption
  <2>2. CASE Head(p) = "*" /\ Len(p) > 1
    <3>1. p \in Name
      BY <1>3, <2>2, NameAssumption
    <3> QED
      BY <2>1, <2>2, <3>1, PatternCovers DEF MatchDns, TlsMatch
  <2>3. CASE ~(Head(p) = "*" /\ Len(p) > 1)
    <3>1. Len(p) >= 3 => Len(p) > 1
      BY <2>1
    <3>2. MatchDns(n, p) <=> n = p
      BY <2>3 DEF MatchDns
    <3>3. TlsMatch(n, p) => n = p
      BY <2>3, <3>1 DEF TlsMatch
    <3> QED
      BY <2>3, <3>2, <3>3
  <2> QED
    BY <2>2, <2>3
<1>4. HostnameMatches(n, c) <=> CoversName(c, n)
  <2>1. CASE DnsSans(c) # {}
    BY <1>2, <1>3, <2>1, NameAssumption DEF HostnameMatches, CoversName
  <2>2. CASE DnsSans(c) = {}
    BY <1>1, <1>2, <1>3, <2>2 DEF HostnameMatches, CoversName
  <2> QED
    BY <2>1, <2>2
<1>5. TlsNames(c, n) => HostnameMatches(n, c)
  BY <1>1, <1>2, <1>3 DEF TlsNames, HostnameMatches
<1> QED
  BY <1>4, <1>5

-----------------------------------------------------------------------------
(* The checks *)

\* The clock and the day a check began are numbers.
LEMMA Times == TypeOK => now \in Int /\ begun \in Int /\ now \in 0 .. MaxDay
BY BoundsAssumption DEF TypeOK

\* A check without a certificate in its entry, or without an entry, has nothing to
\* answer for but an exception.
LEMMA NothingReported ==
    ~Reported /\ OutageNeverRaises => Properties
BY DEF Properties, HealthIsEarned, DaysAgree, VerdictsTrue, CategoryTrue,
   MatchTrue, OutageNeverRaises, Steady

\* The initial states satisfy the inductive invariant.
LEMMA InitInvariant == Init => IInv
<1> SUFFICES ASSUME Init PROVE IInv
  OBVIOUS
<1>1. TypeOK
  <2>1. NoEntry.cert = NoCert /\ 0 \in 0 .. MaxDay
    BY BoundsAssumption DEF NoEntry
  <2>2. /\ pc = "idle" /\ target = NoName /\ seen = NoCert /\ matches = "none"
        /\ code = Ok /\ entry = NoEntry /\ days \in Int
    BY DEF Init
  <2>3. now \in 0 .. MaxDay /\ begun = 0 /\ ended = 0
    BY DEF Init
  <2>4. presented \subseteq Cert /\ missed \in BOOLEAN
    BY DEF Init
  <2> QED
    BY <2>1, <2>2, <2>3, <2>4 DEF TypeOK
<1>2. CheckInv
  BY DEF Init, CheckInv, UnderWay, Discovery
<1>3. ~Reported /\ OutageNeverRaises
  BY DEF Init, Reported, OutageNeverRaises
<1> QED
  BY <1>1, <1>2, <1>3, NothingReported DEF IInv, Properties

\* The end of a check leaves nothing of its progress behind.
LEMMA OverKept ==
    ASSUME TypeOK, UnderWay, NEW e, e.cert \in Cert \cup {NoCert}, e # NoEntry,
           \/ End(e) \/ Raise,
           presented' \subseteq Cert, missed' \in BOOLEAN
    PROVE  TypeOK' /\ CheckInv' /\ pc' \in {"done", "raised"}
<1>1. NoEntry.cert = NoCert
  BY DEF NoEntry
<1>2. /\ (pc' = "done" /\ entry' = e) \/ (pc' = "raised" /\ entry' = NoEntry)
      /\ seen' = NoCert /\ days' = 0 /\ matches' = "none" /\ code' = Ok
      /\ ended' = now /\ UNCHANGED <<now, target, begun>>
  BY DEF End, Raise, Over
<1>3. now \in 0 .. MaxDay /\ begun \in 0 .. MaxDay /\ target # NoName
      /\ target \in Name \cup Address \cup {NoName}
  BY DEF TypeOK, UnderWay, Discovery
<1> QED
  BY <1>1, <1>2, <1>3 DEF TypeOK, CheckInv, UnderWay, Discovery

\* What is reported of a manual host.
LEMMA ManualKept ==
    ASSUME IInv, NEW c \in Cert, NEW status, NEW m \in {"yes", "no"},
           pc \in {"stage1", "stage2"},
           End(ManualEntry(status, c, m)), Presented(c),
           status = "success" => VerifyCode(c, target, TRUE) = Ok,
           {c} = presented \cup {c} => (PathTrusted(code) <=> c.public),
           target \in Name => (m = "yes" <=> CoversName(c, target))
    PROVE  TypeOK' /\ CheckInv' /\ Properties'
<1>1. /\ TypeOK /\ UnderWay /\ now \in Int /\ begun \in Int /\ now >= begun
      /\ target \in Name \cup Address
  BY Times DEF IInv, TypeOK, CheckInv, UnderWay
<1> DEFINE e == ManualEntry(status, c, m)
<1>2. /\ e.path = "manual" /\ e.status = status /\ e.detail = status /\ e.cert = c
      /\ e.matches = m /\ e.category = CategorizeCa(c, PathTrusted(code))
      /\ e # NoEntry
  BY CertType DEF ManualEntry, NoEntry
<1>3. /\ pc' = "done" /\ entry' = e /\ ended' = now /\ begun' = begun /\ target' = target
      /\ presented' = presented \cup {c}
  BY DEF End, Over, Presented
<1>4. TypeOK' /\ CheckInv'
  BY <1>1, <1>2, <1>3, OverKept DEF Presented, TypeOK
<1> HIDE DEF e
<1>5. HealthIsEarned'
  <2>1. ASSUME status = "success"
        PROVE  c.public /\ TlsNames(c, target) /\ c.from <= now /\ now <= c.until
               /\ begun <= c.until /\ InDate(c)'
    <3>1. c.public /\ TlsNames(c, target) /\ now \in c.from .. c.until
      BY <1>1, <2>1, VerifiedCert
    <3> QED
      BY <1>1, <1>3, <3>1, CertType DEF InDate
  <2> QED
    BY <1>1, <1>2, <1>3, <2>1, CertType DEF HealthIsEarned, Reported, Steady
<1>6. DaysAgree'
  BY <1>2, <1>3 DEF DaysAgree
<1>7. CategoryTrue'
  <2>1. PathTrusted(code) \in BOOLEAN
    BY DEF PathTrusted
  <2>2. ASSUME Steady' PROVE entry'.category = IssuerCategory(c) /\ entry'.cert = c
    <3>1. {c} = presented \cup {c}
      BY <1>2, <1>3, <2>2 DEF Steady
    <3> QED
      BY <1>2, <1>3, <2>1, <3>1, CategoryByPath
  <2>3. Steady' => entry'.category = IssuerCategory(entry'.cert)
    BY <2>2
  <2> QED
    BY <2>3 DEF CategoryTrue, IssuerCategory
<1>8. MatchTrue'
  BY <1>1, <1>2, <1>3 DEF MatchTrue, Steady
<1> QED
  BY <1>3, <1>4, <1>5, <1>6, <1>7, <1>8
  DEF Properties, VerdictsTrue, OutageNeverRaises

\* What is reported of a device whose certificate was seen.
LEMMA DiscoveryKept ==
    ASSUME IInv, pc = "hs3", NEW trusted \in {"yes", "no"}, DiscoveryResult(trusted),
           NEW c \in Cert, seen = c, presented' \subseteq Cert, missed' \in BOOLEAN,
           presented \subseteq presented',
           presented' = {c} /\ trusted = "yes" =>
               VerifyCode(c, Canonical(c), TRUE) = Ok,
           presented' = {c} /\ trusted = "no" =>
               missed' \/ VerifyCode(c, Canonical(c), TRUE) # Ok
    PROVE  TypeOK' /\ CheckInv' /\ Properties'
<1>1. /\ TypeOK /\ UnderWay /\ now \in Int /\ begun \in Int /\ now \in {begun, begun + 1}
      /\ Canonical(c) # NoName
      /\ days \in {c.until - begun, c.until - now} /\ c.until \in Int
  BY Times, CertType DEF IInv, TypeOK, CheckInv, UnderWay, Discovery, DaysLeft
<1> DEFINE status == DetermineStatus(days, trusted)
           e == DiscoveryEntry(status, c, matches, trusted)
<1>2. /\ e.path = "discovery" /\ e.status = Legacy(status) /\ e.detail = status
      /\ e.cert = c /\ e.days = c.until - now /\ e.trusted = trusted
      /\ e.category = CategorizeCa(c, trusted = "yes") /\ e # NoEntry
  BY CertType DEF DiscoveryEntry, NoEntry, DaysLeft
<1>3. /\ pc' = "done" /\ entry' = e /\ ended' = now /\ begun' = begun
  BY DEF DiscoveryResult, End, Over
<1>4. TypeOK' /\ CheckInv'
  BY <1>1, <1>2, <1>3, OverKept DEF DiscoveryResult
<1>5. /\ status \in {"cert_expired", "cert_expiring_soon", "tls_warning", "success"}
      /\ status = "cert_expired" <=> days < 0
      /\ status = "cert_expiring_soon" <=> days \in 0 .. Threshold
      /\ status = "success" => trusted = "yes"
  BY <1>1, BoundsAssumption DEF DetermineStatus
<1>6. Legacy(status) = "success" => days >= 0
  BY <1>1, <1>5 DEF Legacy
<1> HIDE DEF status, e
<1>7. presented' = {c} =>
        \/ /\ trusted = "yes" /\ c.public /\ InDate(c)'
           /\ TlsNames(c, Canonical(c))
        \/ /\ trusted = "no"
           /\ missed' \/ ~c.public \/ ~InDate(c)' \/ ~NamesItself(c)
  <2>1. InDate(c)' <=> now \in c.from .. c.until
    BY <1>3 DEF InDate
  <2>2. VerifyCode(c, Canonical(c), TRUE) = Ok <=>
          c.public /\ TlsNames(c, Canonical(c)) /\ InDate(c)'
    BY <1>1, <2>1, VerifiedCert
  <2>3. TlsNames(c, Canonical(c)) <=> NamesItself(c)
    BY <1>1, CanonicalNamed
  <2>4. CASE trusted = "yes"
    BY <2>2, <2>4
  <2>5. CASE trusted = "no"
    BY <2>2, <2>3, <2>5
  <2> QED
    BY <2>4, <2>5
<1>8. HealthIsEarned'
  <2>1. e.status = "success" => c.until >= begun
    BY <1>1, <1>2, <1>6
  <2>2. e.detail = "success" => trusted = "yes"
    BY <1>2, <1>5
  <2>3. Steady' => presented' = {c}
    BY <1>2, <1>3 DEF Steady
  <2>4. /\ entry'.status = "success" => entry'.cert.until >= begun'
        /\ Steady' /\ entry'.detail = "success" =>
              entry'.path = "discovery" /\ entry'.cert = c
                /\ c.public /\ InDate(c)' /\ TlsNames(c, Canonical(c))
    BY <1>2, <1>3, <1>7, <2>1, <2>2, <2>3
  <2> QED
    BY <2>4 DEF HealthIsEarned, InDate
<1>9. DaysAgree'
  <2>1. e.days = days \/ e.days = days - 1
    <3>1. /\ days = c.until - begun \/ days = c.until - now
          /\ now = begun \/ now = begun + 1
          /\ c.until \in Int /\ begun \in Int /\ now \in Int
      BY <1>1
    <3>2. c.until - now = days \/ c.until - now = days - 1
      BY <3>1
    <3> QED
      BY <1>2, <3>2
  <2> QED
    BY <1>1, <1>2, <1>3, <1>5, <2>1, BoundsAssumption DEF DaysAgree
<1>10. CategoryTrue'
  <2>1. Steady' => presented' = {c}
    BY <1>2, <1>3 DEF Steady
  <2>2. trusted = "yes" /\ c.public => CategorizeCa(c, trusted = "yes") = IssuerCategory(c)
    BY CategoryByPath
  <2>3. trusted = "no" /\ ~c.public => CategorizeCa(c, trusted = "yes") = IssuerCategory(c)
    BY CategoryByPath, CertType
  <2>4. Steady' =>
          \/ entry'.category = IssuerCategory(c)
          \/ /\ entry'.path = "discovery" /\ entry'.trusted # "yes" /\ c.public
             /\ missed' \/ ~InDate(c)' \/ ~NamesItself(c)
    BY <1>2, <1>3, <1>7, <2>1, <2>2, <2>3
  <2>5. entry'.cert = c
    BY <1>2, <1>3
  <2> QED
    BY <2>4, <2>5
    DEF CategoryTrue, IssuerCategory, InDate, NamesItself, Canonical, IpSans, Sans
<1>11. MatchTrue'
  BY <1>2, <1>3 DEF MatchTrue
<1> QED
  BY <1>3, <1>4, <1>8, <1>9, <1>10, <1>11
  DEF Properties, VerdictsTrue, OutageNeverRaises

\* Every step preserves the inductive invariant.
LEMMA StepInvariant == IInv /\ [Next]_vars => IInv'
<1>a. ~Reported' /\ OutageNeverRaises' => Properties'
  BY NothingReported, PTL
<1>b. pc' # "raised" => OutageNeverRaises'
  BY DEF OutageNeverRaises
<1>c. TypeOK' /\ CheckInv' /\ Properties' => IInv'
  BY DEF IInv, Properties
<1> SUFFICES ASSUME IInv, [Next]_vars PROVE TypeOK' /\ CheckInv' /\ Properties'
  BY <1>c
<1>0. TypeOK /\ CheckInv /\ now \in Int /\ begun \in Int /\ now \in 0 .. MaxDay
  BY Times DEF IInv
<1> USE <1>0
\* A check begins.
<1>1. ASSUME NEW step \in {"stage1", "hs1"}, NEW t \in Name \cup Address, Begin(step, t)
      PROVE  TypeOK' /\ CheckInv' /\ Properties'
  <2>1. TypeOK'
    <3>1. NoEntry.cert = NoCert /\ 0 \in 0 .. MaxDay /\ t # NoName
      BY NameAssumption, BoundsAssumption DEF NoEntry
    <3>2. seen = NoCert /\ matches = "none" /\ code = Ok
      BY <1>1 DEF Begin, TypeOK, UnderWay, Discovery
    <3> QED
      BY <1>1, <3>1, <3>2 DEF Begin, TypeOK, UnderWay, Discovery, Canonical
  <2>2. CheckInv'
    BY <1>1 DEF Begin, TypeOK, CheckInv, UnderWay, Discovery
  <2> QED
    BY <1>1, <2>1, <2>2, <1>a, <1>b DEF Begin, Reported
<1>2. CASE BeginManual
  BY <1>1, <1>2, NameAssumption DEF BeginManual
<1>3. CASE BeginDiscovery
  <2>1. \A d \in Discovered : ConnectTarget(d) \in Name \cup Address
    BY DeviceAssumption DEF Discovered, ConnectTarget, IpAddress
  <2> QED
    BY <1>1, <1>3, <2>1 DEF BeginDiscovery
\* A check goes on.
<1>4. ASSUME NEW c \in Cert, Discover(c) PROVE TypeOK' /\ CheckInv' /\ Properties'
  <2>1. days' = c.until - now /\ c.until \in Int
    BY <1>4, CertType DEF Discover, DaysLeft
  <2>2. TypeOK'
    BY <1>4, <2>1, CertType DEF Discover, Presented, TypeOK, Canonical
  <2>3. CheckInv'
    BY <1>4, <2>1
    DEF Discover, Presented, TypeOK, CheckInv, UnderWay, Discovery, DaysLeft
  <2> QED
    BY <1>4, <2>2, <2>3, <1>a, <1>b DEF Discover, Reported
<1>5. ASSUME pc = "hs2", pc' = "hs3", matches' \in {"yes", "no"},
             presented \subseteq presented', presented' \subseteq Cert, missed' \in BOOLEAN,
             UNCHANGED <<now, target, seen, days, code, entry, begun, ended>>
      PROVE  TypeOK' /\ CheckInv' /\ Properties'
  <2>1. TypeOK'
    BY <1>5 DEF TypeOK, Canonical
  <2>2. CheckInv'
    BY <1>5 DEF TypeOK, CheckInv, UnderWay, Discovery, DaysLeft
  <2> QED
    BY <1>5, <2>1, <2>2, <1>a, <1>b DEF Reported
<1>6. ASSUME NEW c \in Cert, VerifyHostname(c) PROVE TypeOK' /\ CheckInv' /\ Properties'
  BY <1>5, <1>6 DEF VerifyHostname, Presented, TypeOK
<1>7. CASE VerifyHostnameFails
  BY <1>5, <1>7 DEF VerifyHostnameFails, NotCompleted, TypeOK
<1>8. ASSUME NEW c \in Cert, NotVerified(c) PROVE TypeOK' /\ CheckInv' /\ Properties'
  <2>1. code' # Ok /\ (PathTrusted(code') <=> c.public)
    BY <1>8, CodeTellsPath DEF NotVerified
  <2>2. TypeOK'
    BY <1>8, VerifyCodeType DEF NotVerified, Presented, TypeOK, Canonical
  <2>3. CheckInv'
    BY <1>8, <2>1 DEF NotVerified, Presented, TypeOK, CheckInv, UnderWay, Discovery,
       DaysLeft, PathTrusted
  <2> QED
    BY <1>8, <2>2, <2>3, <1>a, <1>b DEF NotVerified, Reported
\* A check ends without a certificate.
<1>9. ASSUME UnderWay, NEW e, e.cert = NoCert, e # NoEntry, End(e),
             presented' \subseteq Cert, missed' \in BOOLEAN
      PROVE  TypeOK' /\ CheckInv' /\ Properties'
  <2>1. TypeOK' /\ CheckInv'
    BY <1>9, OverKept
  <2> QED
    BY <1>9, <2>1, <1>a, <1>b DEF End, Over, Reported
<1>10. /\ \A s : /\ DiscoveryEntry(s, NoCert, "none", "none").cert = NoCert
                 /\ DiscoveryEntry(s, NoCert, "none", "none") # NoEntry
       /\ \A s : /\ ManualEntry(s, NoCert, "none").cert = NoCert
                 /\ ManualEntry(s, NoCert, "none") # NoEntry
  BY DEF DiscoveryEntry, ManualEntry, NoEntry
<1>11. CASE DiscoverFails
  BY <1>9, <1>10, <1>11 DEF DiscoverFails, UnderWay, Discovery, TypeOK
<1>12. ASSUME NEW c \in Cert, DiscoverMalformed(c)
       PROVE  TypeOK' /\ CheckInv' /\ Properties'
  BY <1>9, <1>10, <1>12 DEF DiscoverMalformed, Presented, UnderWay, Discovery, TypeOK
<1>13. CASE CheckFails
  BY <1>9, <1>10, <1>13 DEF CheckFails, UnderWay, TypeOK
<1>14. CASE RecoverFails
  BY <1>9, <1>10, <1>14 DEF RecoverFails, UnderWay, TypeOK
\* A check ends with an exception.
<1>15. ASSUME UnderWay, Raise, presented' \subseteq Cert, missed' \in BOOLEAN,
              target \in Unusable \/ \E c \in presented' : Odd(c)
       PROVE  TypeOK' /\ CheckInv' /\ Properties'
  <2>1. TypeOK' /\ CheckInv'
    <3>1. ManualEntry("tls_failed", NoCert, "none").cert \in Cert \cup {NoCert}
          /\ ManualEntry("tls_failed", NoCert, "none") # NoEntry
      BY <1>10
    <3> QED
      BY <1>15, <3>1, OverKept
  <2>2. pc' = "raised" /\ target' = target
    BY <1>15 DEF Raise, Over
  <2>3. OutageNeverRaises'
    BY <1>15, <2>2 DEF OutageNeverRaises, Odd, Canonical
  <2> QED
    BY <2>1, <2>2, <2>3, <1>a DEF Reported
<1>16. CASE DiscoverRaises
  BY <1>15, <1>16 DEF DiscoverRaises, Presented, UnderWay, Discovery, TypeOK, Odd
<1>17. CASE VerifyRaises
  <2>1. seen \in presented
    BY <1>17 DEF VerifyRaises, CheckInv
  <2> QED
    BY <1>15, <1>17, <2>1 DEF VerifyRaises, UnderWay, Discovery, TypeOK, Odd
<1>18. CASE CheckRaises
  BY <1>15, <1>18 DEF CheckRaises, Presented, UnderWay, TypeOK, Odd
\* A check ends with a certificate.
<1>19. ASSUME NEW c \in Cert, DiscoverNoName(c)
       PROVE  TypeOK' /\ CheckInv' /\ Properties'
  <2> DEFINE e == DiscoveryEntry("cert_no_usable_hostname", c, "none", "none")
  <2>1. /\ e.path = "discovery" /\ e.status = "tls_failed" /\ e.cert = c
        /\ e.detail = "cert_no_usable_hostname" /\ e.trusted = "none"
        /\ e.category = CategorizeCa(c, FALSE) /\ e # NoEntry
    BY CertType DEF DiscoveryEntry, NoEntry, Legacy
  <2>2. pc' = "done" /\ entry' = e /\ Canonical(c) = NoName
    BY <1>19 DEF DiscoverNoName, End, Over
  <2>3. TypeOK' /\ CheckInv'
    BY <1>19, <2>1, OverKept
    DEF DiscoverNoName, Presented, UnderWay, Discovery, TypeOK
  <2> HIDE DEF e
  <2>4. CategoryTrue'
    BY <2>1, <2>2, CategoryByPath, CertType DEF CategoryTrue, NamesItself, Canonical
  <2> QED
    BY <2>1, <2>2, <2>3, <2>4
    DEF Properties, HealthIsEarned, DaysAgree, VerdictsTrue, MatchTrue,
        OutageNeverRaises, Steady, Reported
<1>20. ASSUME NEW c \in Cert, VerifyChain(c)
       PROVE  TypeOK' /\ CheckInv' /\ Properties'
  <2> DEFINE trusted == IF VerifyCode(c, Canonical(seen), TRUE) = Ok THEN "yes" ELSE "no"
  <2>1. /\ pc = "hs3" /\ trusted \in {"yes", "no"} /\ DiscoveryResult(trusted)
        /\ presented' = presented \cup {c} /\ missed' = missed
    BY <1>20 DEF VerifyChain, Presented
  <2>2. seen \in Cert /\ seen \in presented /\ presented \subseteq Cert /\ missed \in BOOLEAN
    BY <2>1 DEF TypeOK, CheckInv
  <2>3. presented' = {seen} => c = seen
    BY <2>1
  <2>4. /\ presented' = {seen} /\ trusted = "yes" =>
              VerifyCode(seen, Canonical(seen), TRUE) = Ok
        /\ presented' = {seen} /\ trusted = "no" =>
              VerifyCode(seen, Canonical(seen), TRUE) # Ok
    BY <2>3
  <2> HIDE DEF trusted
  <2>5. PICK d \in Cert : seen = d
    BY <2>2
  <2> QED
    BY <2>1, <2>2, <2>4, <2>5, DiscoveryKept
<1>21. CASE VerifyChainFails
  <2>1. /\ pc = "hs3" /\ DiscoveryResult("no") /\ missed' = TRUE /\ presented' = presented
        /\ seen \in Cert /\ presented \subseteq Cert
    BY <1>21 DEF VerifyChainFails, NotCompleted, TypeOK
  <2>2. PICK d \in Cert : seen = d
    BY <2>1
  <2> QED
    BY <2>1, <2>2, DiscoveryKept
<1>22. ASSUME NEW c \in Cert, Verified(c) PROVE TypeOK' /\ CheckInv' /\ Properties'
  <2>1. /\ pc = "stage1" /\ End(ManualEntry("success", c, "yes")) /\ Presented(c)
        /\ VerifyCode(c, target, TRUE) = Ok /\ code = Ok
    BY <1>22 DEF Verified, TypeOK
  <2>2. c.public /\ TlsNames(c, target)
    BY <2>1, VerifiedCert
  <2>3. PathTrusted(code) <=> c.public
    BY <2>1, <2>2 DEF PathTrusted
  <2>4. target \in Name => CoversName(c, target)
    BY <2>2, MatchersCover
  <2> QED
    BY <2>1, <2>3, <2>4, ManualKept
<1>23. ASSUME NEW c \in Cert, Recovered(c) PROVE TypeOK' /\ CheckInv' /\ Properties'
  <2> DEFINE m == IF HostnameMatches(target, c) THEN "yes" ELSE "no"
  <2>1. /\ pc = "stage2" /\ End(ManualEntry("tls_failed", c, m)) /\ Presented(c)
        /\ m \in {"yes", "no"}
    BY <1>23 DEF Recovered
  <2>2. {c} = presented \cup {c} => (PathTrusted(code) <=> c.public)
    BY <2>1 DEF CheckInv
  <2>3. target \in Name => (m = "yes" <=> CoversName(c, target))
    BY MatchersCover
  <2> HIDE DEF m
  <2> QED
    BY <2>1, <2>2, <2>3, ManualKept
\* The environment.
<1>24. CASE NextDay
  <2>1. /\ now' = now + 1 /\ now' \in 0 .. MaxDay /\ (UnderWay => now = begun)
        /\ UNCHANGED <<pc, target, seen, days, matches, code, entry, begun, ended,
                       presented, missed>>
    BY <1>24, BoundsAssumption DEF NextDay, progress, history
  <2>2. TypeOK'
    <3>1. now' \in 0 .. MaxDay
      BY <2>1
    <3>2. UNCHANGED <<pc, target, seen, days, matches, code, entry, begun, ended,
                      presented, missed>>
      BY <2>1
    <3> QED
      BY <3>1, <3>2 DEF TypeOK, Canonical
  <2>3. CheckInv'
    BY <2>1, <1>24 DEF CheckInv, UnderWay, Discovery, DaysLeft, PathTrusted, NextDay
  <2>4. Properties'
    BY <2>1 DEF IInv, Properties, HealthIsEarned, DaysAgree, VerdictsTrue,
       CategoryTrue, MatchTrue, OutageNeverRaises, Steady, Reported, InDate, NamesItself,
       Canonical, IpSans, Sans
  <2> QED
    BY <2>2, <2>3, <2>4
<1>25. CASE UNCHANGED vars
  <2>1. UNCHANGED <<now, pc, target, seen, days, matches, code, entry, begun, ended,
                    presented, missed>>
    BY <1>25 DEF vars, progress, history
  <2>2. TypeOK'
    BY <2>1 DEF TypeOK, Canonical
  <2>3. CheckInv'
    BY <2>1 DEF CheckInv, UnderWay, Discovery, DaysLeft, PathTrusted
  <2>4. Properties'
    BY <2>1 DEF IInv, Properties, HealthIsEarned, DaysAgree, VerdictsTrue,
       CategoryTrue, MatchTrue, OutageNeverRaises, Steady, Reported, InDate, NamesItself,
       Canonical, IpSans, Sans
  <2> QED
    BY <2>2, <2>3, <2>4
<1> QED
  BY <1>2, <1>3, <1>4, <1>6, <1>7, <1>8, <1>11, <1>12, <1>13, <1>14, <1>16, <1>17,
     <1>18, <1>19, <1>20, <1>21, <1>22, <1>23, <1>24, <1>25
  DEF Next, Handshake, Failure

\* The inductive invariant of a check.
THEOREM Invariance == Spec => []IInv
BY InitInvariant, StepInvariant, PTL DEF Spec

\* No host is reported healthy with a certificate that had expired before its check,
\* and success with one certificate throughout means path, name and dates.
THEOREM HealthEarned == Spec => []HealthIsEarned
<1>1. IInv => HealthIsEarned
  BY DEF IInv
<1> QED
  BY <1>1, Invariance, PTL

\* The status and the days shown are never more than the one day apart.
THEOREM DaysNeverFarApart == Spec => []DaysAgree
<1>1. IInv => DaysAgree
  BY DEF IInv
<1> QED
  BY <1>1, Invariance, PTL

\* With one certificate throughout, category and match are those of the certificate.
THEOREM VerdictsAreTrue == Spec => []VerdictsTrue
<1>1. IInv => VerdictsTrue
  BY DEF IInv
<1> QED
  BY <1>1, Invariance, PTL

\* Only an odd name or an odd certificate raises an exception out of a check.
THEOREM OutageIsReported == Spec => []OutageNeverRaises
<1>1. IInv => OutageNeverRaises
  BY DEF IInv
<1> QED
  BY <1>1, Invariance, PTL

\* Without a trust store no certificate is ever found not to name the host.
LEMMA EmptyStoreSeesNoName ==
    ASSUME NEW c, NEW n
    PROVE  VerifyCode(c, n, FALSE) # HostnameMismatch
BY DEF VerifyCode, SelfSigned, UnknownIssuer, HostnameMismatch

LEMMA MissedStep ==
    IInv /\ MissedInv /\ MismatchMeansMissed /\ [Next]_vars
        => MissedInv' /\ MismatchMeansMissed'
<1> SUFFICES ASSUME TypeOK, MissedInv, MismatchMeansMissed, [Next]_vars
             PROVE  MissedInv' /\ MismatchMeansMissed'
  BY DEF IInv
<1>0. /\ \A e : End(e) => MissedInv' /\ pc' = "done" /\ entry' = e
      /\ \A status, c, trusted :
            /\ DiscoveryEntry(status, c, "none", trusted).matches = "none"
            /\ \A m : ManualEntry(status, c, m).path = "manual"
  BY DEF End, Over, MissedInv, DiscoveryEntry, ManualEntry
<1>1. CASE BeginManual \/ BeginDiscovery
  BY <1>1 DEF BeginManual, BeginDiscovery, Begin, MissedInv, MismatchMeansMissed
<1>2. ASSUME NEW c \in Cert, Handshake(c) PROVE MissedInv' /\ MismatchMeansMissed'
  <2>1. CASE VerifyHostname(c)
    BY <2>1, EmptyStoreSeesNoName
    DEF VerifyHostname, MissedInv, MismatchMeansMissed
  <2>2. CASE VerifyChain(c)
    BY <2>2 DEF VerifyChain, DiscoveryResult, DiscoveryEntry, Presented, End, Over,
       MissedInv, MismatchMeansMissed
  <2>3. CASE DiscoverMalformed(c) \/ DiscoverNoName(c)
    BY <1>0, <2>3 DEF DiscoverMalformed, DiscoverNoName, MismatchMeansMissed
  <2>4. CASE Verified(c) \/ Recovered(c)
    <3>1. \E status, m : End(ManualEntry(status, c, m))
      BY <2>4 DEF Verified, Recovered
    <3> QED
      BY <1>0, <3>1 DEF MismatchMeansMissed
  <2>5. CASE Discover(c) \/ NotVerified(c)
    BY <2>5 DEF Discover, NotVerified, MissedInv, MismatchMeansMissed
  <2> QED
    BY <1>2, <2>1, <2>2, <2>3, <2>4, <2>5 DEF Handshake
<1>3. CASE Failure
  <2>1. CASE DiscoverFails
    BY <1>0, <2>1 DEF DiscoverFails, MismatchMeansMissed
  <2>2. CASE VerifyHostnameFails
    BY <2>2 DEF VerifyHostnameFails, NotCompleted, MissedInv, MismatchMeansMissed
  <2>3. CASE VerifyChainFails
    BY <1>0, <2>3 DEF VerifyChainFails, NotCompleted, MismatchMeansMissed,
       DiscoveryResult
  <2>4. CASE CheckFails \/ RecoverFails
    BY <1>0, <2>4 DEF CheckFails, RecoverFails, MismatchMeansMissed
  <2> QED
    BY <1>3, <2>1, <2>2, <2>3, <2>4 DEF Failure
<1>4. CASE DiscoverRaises \/ VerifyRaises \/ CheckRaises
  BY <1>4 DEF DiscoverRaises, VerifyRaises, CheckRaises, Raise, Over, MissedInv,
     MismatchMeansMissed
<1>5. CASE NextDay \/ UNCHANGED vars
  BY <1>5 DEF NextDay, vars, progress, history, MissedInv, MismatchMeansMissed
<1> QED
  BY <1>1, <1>2, <1>3, <1>4, <1>5 DEF Next

\* hostname_matches = false of a discovered host never says anything of a name.
THEOREM MismatchIsAnOutage == Spec => []MismatchMeansMissed
<1>1. Init => MissedInv /\ MismatchMeansMissed
  BY DEF Init, MissedInv, MismatchMeansMissed
<1>2. IInv /\ MissedInv /\ MismatchMeansMissed /\ [Next]_vars
         => MissedInv' /\ MismatchMeansMissed'
  BY MissedStep
<1> QED
  BY <1>1, <1>2, Invariance, PTL DEF Spec

\* What the report says of a host is true of its certificate, if it presented one
\* throughout, and hostname_matches = false is no verdict on a name.
THEOREM ReportIsTrue == Spec => []ReportTellsTheTruth
<1>1. VerdictsTrue /\ MismatchMeansMissed => ReportTellsTheTruth
  BY DEF ReportTellsTheTruth
<1> QED
  BY <1>1, VerdictsAreTrue, MismatchIsAnOutage, PTL

=============================================================================
