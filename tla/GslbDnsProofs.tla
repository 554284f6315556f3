--------------------------- MODULE GslbDnsProofs ---------------------------
(***************************************************************************)
(* Proofs about GslbDns, for any zone, questions and PoPs.                 *)
(***************************************************************************)
EXTENDS GslbDns, GslbCoreProofs

(* What names are made of, with the labels of handler.go told.             *)
Labels == STRING \cup {"ns", "www"}

(* Below, label by label.                                                  *)
LEMMA BelowProperty ==
  ASSUME NEW n \in Seq(Labels), NEW a \in Seq(Labels)
  PROVE  Below(n, a) <=> Len(a) <= Len(n) /\ \A i \in 1..Len(a) : n[i] = a[i]
<1> SUFFICES ASSUME Len(a) <= Len(n)
             PROVE  SubSeq(n, 1, Len(a)) = a <=> \A i \in 1..Len(a) : n[i] = a[i]
  BY DEF Below
<1>1. \A i \in 1..Len(a) : n[i] \in Labels
  BY ElementOfSeq
<1> DEFINE t == SubSeq(n, 1, Len(a))
<1>2. t \in Seq(Labels) /\ Len(t) = Len(a) /\ \A i \in 1..Len(a) : t[i] = n[i]
  BY <1>1, SubSeqProperties
<1> HIDE DEF t
<1>3. t = a <=> \A i \in 1..Len(a) : t[i] = a[i]
  BY <1>2, SeqEqual
<1> QED BY <1>2, <1>3 DEF t

LEMMA NamesInZone ==
  /\ Zone \in Seq(Labels)
  /\ nsDomain \in Seq(Labels) /\ Len(nsDomain) = Len(Zone) + 1
  /\ Append(Zone, "www") \in Seq(Labels) /\ Len(Append(Zone, "www")) = Len(Zone) + 1
  /\ \A i \in 1..Len(Zone) : Append(Zone, "www")[i] = Zone[i]
  /\ nsDomain[Len(Zone) + 1] = "ns" /\ Append(Zone, "www")[Len(Zone) + 1] = "www"
<1>1. Zone \in Seq(Labels) /\ "ns" \in Labels /\ "www" \in Labels
  BY ZoneAssumption, SeqMonotonic DEF Labels
<1>2. /\ nsDomain \in Seq(Labels) /\ Len(nsDomain) = Len(Zone) + 1
      /\ nsDomain[Len(Zone) + 1] = "ns"
  BY <1>1, AppendProperties DEF nsDomain
<1>3. /\ Append(Zone, "www") \in Seq(Labels) /\ Len(Append(Zone, "www")) = Len(Zone) + 1
      /\ \A i \in 1..Len(Zone) : Append(Zone, "www")[i] = Zone[i]
      /\ Append(Zone, "www")[Len(Zone) + 1] = "www"
  BY <1>1, AppendProperties
<1> QED BY <1>1, <1>2, <1>3

(* Nothing else than NameError makes a name error.                         *)
LEMMA OnlyNameErrors ==
  ASSUME NEW q
  PROVE  ServeDNS(q).rcode = "NXDOMAIN"
           <=> ~Below(q.name, nsDomain) /\ q.name # Zone /\ ~IsWww(q.name)
<1>1. serveNs(q).rcode = "NOERROR" /\ serveRoot(q).rcode = "NOERROR"
  BY DEF serveNs, serveRoot, Message
<1>2. serveSub(q).rcode = "NXDOMAIN" <=> ~IsWww(q.name)
  BY DEF serveSub, NameError, Message, ServFail
<1> QED BY <1>1, <1>2 DEF ServeDNS

(* A longer name below the zone, and a prefix of it.                       *)
LEMMA NameErrorsHereditary ==
  ASSUME NEW q, NEW o, q.name \in Seq(Labels), o.name \in Seq(Labels),
         Ours(q), ServeDNS(q).rcode = "NXDOMAIN", Below(o.name, q.name)
  PROVE  ServeDNS(o).rcode = "NXDOMAIN"
<1> DEFINE L == Len(Zone)
<1>1. L \in Nat /\ Len(q.name) \in Nat /\ Len(o.name) \in Nat
  BY ZoneAssumption, LenProperties
<1>2. L <= Len(q.name) /\ \A i \in 1..L : q.name[i] = Zone[i]
  BY BelowProperty, NamesInZone DEF Ours
<1>3. ~Below(q.name, nsDomain) /\ q.name # Zone /\ ~IsWww(q.name)
  BY OnlyNameErrors
<1>4. L < Len(q.name)
  BY <1>1, <1>2, <1>3, SeqEqual, NamesInZone
<1>5. Len(q.name) <= Len(o.name) /\ \A i \in 1..Len(q.name) : o.name[i] = q.name[i]
  BY BelowProperty
<1>6. ~Below(o.name, nsDomain)
  <2> SUFFICES ASSUME Below(o.name, nsDomain) PROVE FALSE
    OBVIOUS
  <2>1. \A i \in 1..L + 1 : o.name[i] = nsDomain[i]
    BY BelowProperty, NamesInZone
  <2>2. \A i \in 1..L + 1 : q.name[i] = nsDomain[i]
    BY <1>1, <1>4, <1>5, <2>1
  <2> QED BY <1>1, <1>3, <1>4, <2>2, BelowProperty, NamesInZone
<1>7. o.name # Zone
  BY <1>1, <1>4, <1>5
<1>8. ~IsWww(o.name)
  <2> SUFFICES ASSUME o.name = Append(Zone, "www") PROVE FALSE
    BY DEF IsWww
  <2>1. Len(q.name) = Len(o.name)
    BY <1>1, <1>4, <1>5, NamesInZone
  <2>2. q.name = o.name
    BY <1>5, <2>1, SeqEqual
  <2> QED BY <1>3, <2>2 DEF IsWww
<1> QED BY <1>6, <1>7, <1>8, OnlyNameErrors

LEMMA QuestionNames == \A q \in Questions : q.name \in Seq(Labels)
BY QuestionsAssumption, SeqMonotonic DEF Labels

(* No reply denies a name that another reply of the plugin, to whatever    *)
(* question, tells to exist.                                               *)
THEOREM NamesAreNotDenied == Spec => []NameErrorsAgree
<1>1. NameErrorsAgree
  BY NameErrorsHereditary, QuestionNames DEF NameErrorsAgree
<1> QED BY <1>1, PTL

(* The reply to a client whose resolver passes its address on names the    *)
(* nearest PoP of the client's region.                                     *)
THEOREM ClientIsServed == Spec => []ClientGetsNearest
<1>1. IInv => ClientGetsNearest
  <2> SUFFICES ASSUME IInv, NEW q \in Questions, IsWww(q.name), q.type = "A", q.subnets # <<>>,
                      RegionOf[Head(q.subnets)] \in current,
                      \E p \in Pops : Reached(RegionOf[Head(q.subnets)], p)
               PROVE  LET r == RegionOf[Head(q.subnets)]
                          reply == ServeDNS(q)
                      IN  \/ \E p \in HasIp4 : NearestReached(r, p) /\ reply.answer[1].data = p
                          \/ \E p \in Pops \ HasIp4 : NearestReached(r, p) /\ reply = ServFail
    BY DEF ClientGetsNearest
  <2> DEFINE s == Head(q.subnets)
             r == RegionOf[s]
  <2>1. s \in Sources
    BY QuestionsAssumption, HeadTailProperties
  <2>2. NearestReached(r, Answer(s)) /\ Answer(s) \in Pops
    BY <2>1, AnswersAreNearest
  <2>3. ServeDNS(q) = serveSub(q)
    <3>1. ~Below(q.name, nsDomain)
      <4>1. q.name[Len(Zone) + 1] # nsDomain[Len(Zone) + 1]
        BY NamesInZone DEF IsWww
      <4>2. Len(Zone) + 1 \in 1..Len(nsDomain)
        BY NamesInZone, ZoneAssumption, LenProperties
      <4> QED BY <4>1, <4>2, QuestionNames, NamesInZone, BelowProperty
    <3>2. q.name # Zone
      BY NamesInZone, ZoneAssumption, LenProperties DEF IsWww
    <3> QED BY <3>1, <3>2 DEF ServeDNS
  <2>4. srcIP(q) = s /\ ~NameError(q)
    BY DEF srcIP, NameError
  <2>5. CASE Answer(s) \in HasIp4
    <3>1. ServeDNS(q).answer[1].data = Answer(s)
      BY <2>3, <2>4, <2>5 DEF serveSub, Message
    <3> QED BY <2>2, <2>5, <3>1
  <2>6. CASE Answer(s) \notin HasIp4
    <3>1. ServeDNS(q) = ServFail
      BY <2>3, <2>4, <2>6 DEF serveSub
    <3> QED BY <2>2, <2>6, <3>1
  <2> QED BY <2>5, <2>6
<1> QED BY <1>1, Invariance, PTL
=============================================================================
