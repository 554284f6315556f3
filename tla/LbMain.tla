------------------------------- MODULE LbMain -------------------------------
(***************************************************************************)
(* The XDP program of l4lb/c/lb.c, frame by frame, on several CPUs: which  *)
(* frames it passes to the network stack, drops, or wraps in an IPIP       *)
(* header and sends to a destination, what it counts, and how              *)
(* ReadStatCountersAggregate (bindings.go) adds up the counters of the     *)
(* CPUs while frames keep coming.                                          *)
(*                                                                         *)
(* A run of the program on one CPU is one step: nothing it touches but its *)
(* own frame and its CPU's counters is written meanwhile.  The maps it     *)
(* reads are constants here; module L4lb shows them change.                *)
(***************************************************************************)
EXTENDS Integers, Sequences, FiniteSetsExt

CONSTANTS Cpus,     \* 1..Cpus are the CPUs
          Frames,   \* frames that may arrive, see FramesAssumption
          Vip,      \* lb_config.vip_address
          Slot,     \* Slot[flow]: generate_hash_from_flow, modulo the table's size
          Lookup,   \* maglev_lookup_table
          Entries,  \* destinations_map: the two halves of each IP address
          MaxFrames \* bound: frames that arrive

Word == {n \in Nat : n < 65536}

(* What arrives is a well-formed frame: an IP packet of totLen bytes after *)
(* the 14 of the Ethernet header, and perhaps padding after it.  id is the *)
(* IP identification and the addresses are pairs of 16-bit words, all as   *)
(* the CPU loads them.                                                     *)
ASSUME SizesAssumption == Cpus \in Nat \ {0} /\ MaxFrames \in Nat
ASSUME FramesAssumption ==
  \A f \in Frames :
    /\ {f.len, f.totLen, f.version, f.ihl, f.dport} \subseteq Nat
    /\ f.len >= 14 + f.totLen
    /\ f.totLen < 65516
    /\ f.id \in Word
    /\ f.flow \in DOMAIN Slot
ASSUME MapsAssumption ==
  /\ 0 \in DOMAIN Entries
  /\ \A d \in DOMAIN Entries : Entries[d] \in Word \X Word
  /\ \A flow \in DOMAIN Slot :
       Slot[flow] \in DOMAIN Lookup /\ Lookup[Slot[flow]] \in DOMAIN Entries

VARIABLES
  counters,  \* stat_counters_map: counters[c][x]
  sent,      \* the frames last sent, see Encapsulated
  verdicts,  \* history: how many frames met which end
  reading,   \* the CPU whose counters are read next, 0 when no one reads
  sum,       \* the counters added up so far
  floor      \* history: the totals when the reading began

vars == <<counters, sent, verdicts, reading, sum, floor>>

Counters == {"rx_packet_total", "rx_total_size", "too_short_packet_total",
             "non_ipv4_packet_total", "ip_option_packet_total",
             "non_supported_proto_packet_total", "no_vip_match_total",
             "failed_adjust_head_total", "failed_adjust_tail_total"}
Zero == [x \in Counters |-> 0]
Total(x) == MapThenSumSet(LAMBDA c : counters[c][x], 1..Cpus)
Totals == [x \in Counters |-> Total(x)]

Init ==
  /\ counters = [c \in 1..Cpus |-> Zero]
  /\ sent = <<>>
  /\ verdicts = [passed |-> 0, dropped |-> 0, sent |-> 0]
  /\ reading = 0
  /\ sum = Zero
  /\ floor = Zero
-----------------------------------------------------------------------------
(* Which frames are balanced *)

EthLen == 14    \* sizeof(struct ethhdr)
IpLen == 20     \* sizeof(struct iphdr)
TcpLen == 20    \* sizeof(struct tcphdr)
EthZlen == 60   \* ETH_ZLEN, the least length of a frame on the wire

(* The checks in their order, each with the counter of those who fail it.  *)
Class(f) ==
  IF f.len < EthLen + IpLen + TcpLen THEN "too_short_packet_total"
  ELSE IF f.version # 4 THEN "non_ipv4_packet_total"
  ELSE IF f.ihl # 5 THEN "ip_option_packet_total"
  ELSE IF f.daddr # Vip THEN "no_vip_match_total"
  ELSE IF f.proto # "tcp" THEN "non_supported_proto_packet_total"
  ELSE "rx_packet_total"

Ours(f) == Class(f) = "rx_packet_total"

(* To port 22 of the VIP listens the balancer's own SSH server.            *)
ForUs(f) == Ours(f) /\ f.dport = 22
Balanced(f) == Ours(f) /\ ~ForUs(f)

(* Operators named X_Slip or X_... are plausible mistakes in X, there to   *)
(* show which property tells them from X; no behaviour contains them.      *)

(* Frames for port 22 are not counted.                                     *)
Counted_Slip(f) ==
  [x \in Counters |-> IF Balanced(f) /\ x = "rx_total_size" THEN f.len
                      ELSE IF ~ForUs(f) /\ x = Class(f) THEN 1 ELSE 0]

Counted(f) ==
  [x \in Counters |-> IF Ours(f) /\ x = "rx_total_size" THEN f.len
                      ELSE IF x = Class(f) THEN 1 ELSE 0]

Plus(a, b) == [x \in Counters |-> a[x] + b[x]]
One(counter) == [x \in Counters |-> IF x = counter THEN 1 ELSE 0]
-----------------------------------------------------------------------------
(* Encapsulation *)

Swapped(w) == (w % 256) * 256 + w \div 256   \* htons
Not16(w) == 65535 - w

Destination(f) == Lookup[Slot[f.flow]]

(* The outer header, as 16-bit words: version, ihl and tos; tot_len; id;   *)
(* frag_off with DF; ttl 64 and protocol 4; no checksum yet; the addresses *)
(* of the balancer and the destination.                                    *)
Header(f) ==
  LET self == Entries[0]
      dest == Entries[Destination(f)]
  IN  <<69, Swapped(f.totLen + IpLen), Not16(f.id), 64, 1088, 0,
        self[1], self[2], dest[1], dest[2]>>

SumOf(h) == h[1] + h[2] + h[3] + h[4] + h[5] + h[6] + h[7] + h[8] + h[9] + h[10]
Fold(n) == (n % 65536) + n \div 65536

(* The sum is not folded at all.                                           *)
Checksum_Slip(h) == Not16(SumOf(h) % 65536)

(* Folded once, and cut off by the assignment to 16 bits.                  *)
Checksum(h) == Not16(Fold(SumOf(h)) % 65536)

(* The new header is counted as padding.                                   *)
padding_Slip(f) == EthZlen - f.totLen

padding(f) == EthZlen - (EthLen + f.totLen)

Shrinks(f) == padding(f) > 0

Encapsulated(f) ==
  [frame  |-> f,
   dest   |-> Destination(f),
   len    |-> f.len + IpLen - (IF Shrinks(f) THEN padding(f) ELSE 0),
   header |-> [Header(f) EXCEPT ![6] = Checksum(Header(f))]]
-----------------------------------------------------------------------------
(* lb_main *)

Arrived == verdicts.passed + verdicts.dropped + verdicts.sent

Pass(c, f) ==
  /\ Arrived < MaxFrames
  /\ ~Balanced(f)
  /\ counters' = [counters EXCEPT ![c] = Plus(@, Counted(f))]
  /\ verdicts' = [verdicts EXCEPT !.passed = @ + 1]
  /\ UNCHANGED <<sent, reading, sum, floor>>

Send(c, f) ==
  /\ Arrived < MaxFrames
  /\ Balanced(f)
  /\ counters' = [counters EXCEPT ![c] = Plus(@, Counted(f))]
  /\ sent' = <<Encapsulated(f)>>
  /\ verdicts' = [verdicts EXCEPT !.sent = @ + 1]
  /\ UNCHANGED <<reading, sum, floor>>

(* The kernel cannot make room, or cannot shrink the frame.                *)
Drop(c, f, counter) ==
  /\ Arrived < MaxFrames
  /\ Balanced(f)
  /\ counters' = [counters EXCEPT ![c] = Plus(Plus(@, Counted(f)), One(counter))]
  /\ verdicts' = [verdicts EXCEPT !.dropped = @ + 1]
  /\ UNCHANGED <<sent, reading, sum, floor>>

AdjustHeadFails(c, f) == Drop(c, f, "failed_adjust_head_total")
AdjustTailFails(c, f) == Shrinks(f) /\ Drop(c, f, "failed_adjust_tail_total")

(* ReadStatCountersAggregate: the kernel copies one CPU's counters after   *)
(* the other.                                                              *)
StartReading ==
  /\ reading = 0
  /\ reading' = 1
  /\ sum' = Zero
  /\ floor' = Totals
  /\ UNCHANGED <<counters, sent, verdicts>>

(* The last CPU's value of one counter is taken for the sum.               *)
Add_Slip(a, b) == [Plus(a, b) EXCEPT !["rx_total_size"] = b["rx_total_size"]]

Add(a, b) == Plus(a, b)

ReadCpu ==
  /\ reading # 0
  /\ sum' = Add(sum, counters[reading])
  /\ reading' = IF reading = Cpus THEN 0 ELSE reading + 1
  /\ UNCHANGED <<counters, sent, verdicts, floor>>

Next ==
  \/ \E c \in 1..Cpus, f \in Frames :
       \/ Pass(c, f)
       \/ Send(c, f)
       \/ AdjustHeadFails(c, f)
       \/ AdjustTailFails(c, f)
  \/ StartReading
  \/ ReadCpu

Spec == Init /\ [][Next]_vars
-----------------------------------------------------------------------------
(* The counters account for every frame: each is in exactly one of the six *)
(* classes, received frames end in one of the three ways, and every frame  *)
(* that is dropped has left a trace.                                       *)
CountersAccount ==
  /\ Arrived = Total("rx_packet_total") + Total("too_short_packet_total")
                 + Total("non_ipv4_packet_total") + Total("ip_option_packet_total")
                 + Total("no_vip_match_total") + Total("non_supported_proto_packet_total")
  /\ verdicts.dropped = Total("failed_adjust_head_total") + Total("failed_adjust_tail_total")
  /\ verdicts.sent + verdicts.dropped <= Total("rx_packet_total")
  /\ Total("rx_total_size") >= (EthLen + IpLen + TcpLen) * Total("rx_packet_total")

(* What DumpCounters reports is no state the counters were ever in, but it *)
(* lies between the totals when the reading began and those when it ended, *)
(* in every counter.                                                       *)
ReadingIsBetween ==
  [][reading # 0 /\ reading' = 0 =>
       \A x \in Counters : floor[x] <= sum'[x] /\ sum'[x] <= Total(x)]_vars

(* What a destination makes of a frame: the outer header's checksum is     *)
(* verified, and behind the two headers begins the client's packet.        *)
Verifies(h) == Fold(Fold(SumOf(h))) = 65535
InnerLen(o) == o.len - EthLen - IpLen

(* The carry that lb.c loses: the folded sum has again more than 16 bits.  *)
CarriesAgain(f) == Fold(SumOf(Header(f))) > 65535

(* A frame that came over a wire, which is never shorter than EthZlen, is  *)
(* sent on with all of its packet; and the destination accepts its header  *)
(* unless a second carry has been lost, and only then.                     *)
SentArrives ==
  \A i \in DOMAIN sent :
    LET o == sent[i] IN
      /\ o.frame.len >= EthZlen => InnerLen(o) >= o.frame.totLen
      /\ Verifies(o.header) <=> ~CarriesAgain(o.frame)

(* "Drop padding of the original packet if needed" (lb.c:242): what is cut *)
(* off is padding, and never a part of the packet.                         *)
OnlyPaddingDropped ==
  \A i \in DOMAIN sent : InnerLen(sent[i]) >= sent[i].frame.totLen
=============================================================================
