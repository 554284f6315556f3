------------------------------ MODULE GslbDns ------------------------------
(***************************************************************************)
(* The CoreDNS plugin of gslb/corednsplugin/handler.go on top of the core: *)
(* which reply ServeDNS makes of a question while the worker goes on.  It  *)
(* keeps no state of its own and reads the core's through Query and        *)
(* Serial, so a reply is a state function, like Answer.                    *)
(*                                                                         *)
(* A name is the sequence of its labels from the root on, in lower case;   *)
(* that ServeDNS compares names without their case is left out.            *)
(***************************************************************************)
EXTENDS GslbCore

CONSTANTS Zone,       \* p.zone
          HasIp4,     \* PoPs that setup was given an IPv4 address for
          Questions   \* [name, type, resolver, subnets]

(* subnets are the addresses in the client subnet options, in their order. *)
ASSUME ZoneAssumption == Zone \in Seq(STRING)
ASSUME QuestionsAssumption ==
  \A q \in Questions :
    q.name \in Seq(STRING) /\ q.resolver \in Sources /\ q.subnets \in Seq(Sources)
ASSUME HasIp4Assumption == HasIp4 \subseteq Pops

Below(name, ancestor) ==
  /\ Len(ancestor) <= Len(name)
  /\ SubSeq(name, 1, Len(ancestor)) = ancestor

(* What a reply is made of; the plugin chain sends SERVFAIL itself.        *)
Message(rcode, authoritative, answer, authority) ==
  [rcode |-> rcode, aa |-> authoritative, answer |-> answer, ns |-> authority]
ServFail == Message("SERVFAIL", FALSE, <<>>, <<>>)

nsDomain == Append(Zone, "ns")
soaRecord == [owner |-> Zone, type |-> "SOA", data |-> serial]

(* A and AAAA and any other type have the same answer there.               *)
serveNs(q) ==
  Message("NOERROR", TRUE, << [owner |-> nsDomain, type |-> "A", data |-> "nsA"] >>, <<>>)

serveRoot(q) ==
  Message("NOERROR", TRUE,
          CASE q.type = "SOA" -> <<soaRecord>>
            [] q.type = "NS" -> << [owner |-> Zone, type |-> "NS", data |-> nsDomain] >>
            [] OTHER -> <<>>,
          <<>>)

(* Operators named X_Slip or X_... are plausible mistakes in X, there to   *)
(* show which property tells them from X; no behaviour contains them.      *)

(* Only resolvers that send no option count.                               *)
srcIP_Slip(q) == q.resolver

(* The first client subnet option overrides the resolver's address.        *)
srcIP(q) == IF q.subnets = <<>> THEN q.resolver ELSE Head(q.subnets)

(* Anything but www has no records; As4 panics on a PoP without address.   *)
IsWww(name) == name = Append(Zone, "www")

(* Names without a record of the type asked for do not exist.              *)
NameError_Slip(q) == ~IsWww(q.name) \/ q.type # "A"

NameError(q) == ~IsWww(q.name)

serveSub(q) ==
  LET pop_ == Answer(srcIP(q))
  IN  IF NameError(q) THEN Message("NXDOMAIN", FALSE, <<>>, <<soaRecord>>)
      ELSE IF pop_ \notin HasIp4 THEN ServFail
      ELSE IF q.type # "A" THEN Message("NOERROR", TRUE, <<>>, <<soaRecord>>)
      ELSE Message("NOERROR", TRUE,
                   << [owner |-> q.name, type |-> "A", data |-> pop_] >>, <<>>)

Ours(q) == Below(q.name, Zone)

(* The reply to a question in the zone; others go to the next plugin.      *)
ServeDNS(q) ==
  CASE Below(q.name, nsDomain) -> serveNs(q)
    [] q.name = Zone -> serveRoot(q)
    [] OTHER -> serveSub(q)
-----------------------------------------------------------------------------
(* A resolver keeps a name error for the whole name, and for the names     *)
(* below it, whatever type was asked for ("Name exists but we have no      *)
(* records of this type: NODATA", handler.go, line 99).  So none may be    *)
(* given for a name that has an answer of another type, for another        *)
(* client, or below it.                                                    *)
NameErrorsAgree ==
  LET asked == {q \in Questions : Ours(q)}
      none == {q \in asked : ServeDNS(q).rcode = "NXDOMAIN"}
  IN  \A q \in none, o \in asked : Below(o.name, q.name) => o \in none

(* A client whose resolver passes its address on is sent to the nearest    *)
(* PoP of the client's region, in whichever region the resolver itself is, *)
(* as soon as the region has been measured in a round without change.      *)
ClientGetsNearest ==
  \A q \in Questions :
    IsWww(q.name) /\ q.type = "A" /\ q.subnets # <<>> =>
      LET r == RegionOf[Head(q.subnets)]
          reply == ServeDNS(q)
      IN  r \in current /\ (\E p \in Pops : Reached(r, p)) =>
            \/ \E p \in HasIp4 : NearestReached(r, p) /\ reply.answer[1].data = p
            \/ \E p \in Pops \ HasIp4 : NearestReached(r, p) /\ reply = ServFail
=============================================================================
