----------------------------- MODULE MCHostCheck -----------------------------
(***************************************************************************)
(* HostCheck over one certificate of each kind the code tells apart.       *)
(***************************************************************************)
EXTENDS HostCheck

Www     == <<"www", "example", "com">>
Deep    == <<"a", "www", "example", "com">>
Wild    == <<"*", "example", "com">>
Bad     == <<"", "example", "com">>
Nas     == <<"nas", "lan">>
WildLan == <<"*", "lan">>
Ip      == <<"192.0.2.1">>

MCName    == {Www, Deep, Wild, Bad, Nas, WildLan}
MCAddress == {Ip}
MCUnusable == {Bad}

DnsName(n)   == [type |-> "dns", value |-> n]
IpAddr(a)    == [type |-> "ip", value |-> a]

Base == [sans |-> <<DnsName(Www)>>, cn |-> Www, self |-> FALSE, public |-> TRUE,
         internal |-> FALSE, from |-> 0, until |-> 9, form |-> "good"]
Private == [Base EXCEPT !.public = FALSE, !.internal = TRUE]

MCCert ==
    {Base,
     [Base EXCEPT !.sans = <<DnsName(Wild), DnsName(Www)>>, !.until = 2],
     [Base EXCEPT !.from = 2],
     [Base EXCEPT !.sans = <<IpAddr(Ip)>>, !.until = 1],
     [Base EXCEPT !.sans = <<DnsName(Ip), DnsName(Www)>>],
     [Base EXCEPT !.sans = << >>, !.cn = Ip],
     [Base EXCEPT !.sans = << >>, !.cn = NoName],
     [Base EXCEPT !.form = "san"],
     [Base EXCEPT !.form = "der"],
     [Private EXCEPT !.sans = <<DnsName(WildLan)>>],
     [Private EXCEPT !.internal = FALSE, !.sans = <<DnsName(Wild)>>, !.until = 2],
     [Private EXCEPT !.self = TRUE, !.sans = << >>, !.cn = Nas],
     [Private EXCEPT !.sans = <<DnsName(Bad), DnsName(Www)>>]}

MCManualHost == {Www, Deep, Nas, Bad, Ip}

MCDevice ==
    {[id |-> TRUE, name |-> Nas, ip4 |-> Ip, ip6 |-> NoName],
     [id |-> TRUE, name |-> Bad, ip4 |-> NoName, ip6 |-> NoName],
     [id |-> TRUE, name |-> Www, ip4 |-> NoName, ip6 |-> NoName],
     [id |-> FALSE, name |-> Www, ip4 |-> Ip, ip6 |-> NoName],
     [id |-> TRUE, name |-> NoName, ip4 |-> NoName, ip6 |-> Ip]}

=============================================================================
