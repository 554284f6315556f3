------------------------------ MODULE MCLbMain ------------------------------
(* Instances of LbMain for TLC: two destinations, and frames that end at   *)
(* each check or pass them all.                                            *)
EXTENDS LbMain

(* A bare ACK of the client's: 40 bytes of IP, padded on the wire.         *)
Ack == [len |-> 60, totLen |-> 40, version |-> 4, ihl |-> 5, daddr |-> "vip",
        proto |-> "tcp", dport |-> 80, flow |-> "near", id |-> 7]

Arp == [Ack EXCEPT !.version = 0, !.totLen = 28]
Options == [Ack EXCEPT !.ihl = 6, !.totLen = 44]
Elsewhere == [Ack EXCEPT !.daddr = "host"]
Udp == [Ack EXCEPT !.proto = "udp"]
Ssh == [Ack EXCEPT !.dport = 22]
Data == [Ack EXCEPT !.len = 114, !.totLen = 100]
SevenMore == [Ack EXCEPT !.totLen = 46]

(* The identification for which the checksum carries twice, and the next.  *)
Carries == [Ack EXCEPT !.flow = "far", !.id = 59536]
CarriesOnce == [Ack EXCEPT !.flow = "far", !.id = 59535]

(* Frames of a virtual link, which are not padded.                         *)
Runt == [Ack EXCEPT !.len = 42, !.totLen = 28]
Unpadded == [Ack EXCEPT !.len = 54]

Arriving == {Ack, Arp, Options, Elsewhere, Udp, Ssh, Data, SevenMore, Carries,
             CarriesOnce, Runt, Unpadded}

Slots == [flow \in {"near", "far"} |-> IF flow = "near" THEN 0 ELSE 1]
Table == [s \in 0..1 |-> s + 1]

(* 10.0.0.1, 10.0.0.2 and 192.168.1.254.                                   *)
Addresses == [d \in 0..2 |-> CASE d = 0 -> <<10, 256>>
                               [] d = 1 -> <<10, 512>>
                               [] d = 2 -> <<43200, 65025>>]
=============================================================================
