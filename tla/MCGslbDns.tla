----------------------------- MODULE MCGslbDns -----------------------------
(* Instances of GslbDns for TLC.                                           *)
EXTENDS GslbDns, MCGslbCore

NcdnTest == <<"test", "ncdn">>

Ask(labels, type, resolver, subnets) ==
  [name |-> labels, type |-> type, resolver |-> resolver, subnets |-> subnets]

Asked ==
  { Ask(NcdnTest \o <<"www">>, "A", "outer", <<"inner", "stranger">>),
    Ask(NcdnTest \o <<"www">>, "A", "stranger", <<"outer">>),
    Ask(NcdnTest \o <<"www">>, "A", "inner", <<>>),
    Ask(NcdnTest \o <<"www">>, "AAAA", "outer", <<>>),
    Ask(NcdnTest \o <<"www", "a">>, "A", "outer", <<>>),
    Ask(NcdnTest, "SOA", "outer", <<>>),
    Ask(NcdnTest, "NS", "outer", <<>>),
    Ask(NcdnTest, "A", "outer", <<>>),
    Ask(NcdnTest \o <<"ns">>, "AAAA", "outer", <<>>),
    Ask(NcdnTest \o <<"ns", "a">>, "A", "outer", <<>>),
    Ask(NcdnTest \o <<"mail">>, "AAAA", "outer", <<>>),
    Ask(<<"test", "other">>, "A", "outer", <<>>) }
=============================================================================
