------------------------- MODULE MCAgentServices -------------------------
(* Small instances of AgentServices. *)
EXTENDS AgentServices, TLC

CONSTANTS a, b, l1, l2

Static(n, l, c) == [Empty EXCEPT !["static"] = <<[name |-> n, label |-> l, check |-> c]>>]
Bucket(n, l, c) == [Empty EXCEPT !["bucket"] = <<[name |-> n, label |-> l, check |-> c]>>]
Proxy(n, l, c) == [Empty EXCEPT !["proxy"] = <<[name |-> n, label |-> l, check |-> c]>>]

EmptyConfig == {Empty}
AnyFirst == {Empty, Static(a, l1, TRUE), Bucket(a, l1, FALSE), Proxy(a, l1, TRUE)}
NoEdits == {}
\* Services that change their type, labels or health check, in a file whose
\* names are distinct, and a file that does not parse.
DistinctEdits ==
    {Bucket(a, l2, TRUE), Static(a, l2, FALSE), Corrupt,
     [Bucket(a, l1, TRUE) EXCEPT !["proxy"] = Proxy(b, l2, FALSE)["proxy"]],
     [t \in Types |-> IF t = "bucket" THEN Bucket(a, l1, TRUE)[t] \o Bucket(b, l2, FALSE)[t]
                                     ELSE <<>>]}
=============================================================================
