---------------------------- MODULE MCBlockList ----------------------------
(* BlockList for TLC: three addresses of one /16, two of them in one /24.  *)
EXTENDS BlockList

MCNet24 == [a \in Addresses |-> IF a \in {1, 2} THEN {1, 2} ELSE {3}]
MCNet16 == [a \in Addresses |-> {1, 2, 3}]

\* Two limits of the four each, and counts small enough to reach.
MCIpLimits == <<[window |-> 0, count |-> 2, block |-> 1], [window |-> 1, count |-> 2, block |-> 2]>>
MCNet24Limits == <<[window |-> 0, count |-> 3, block |-> 1]>>
MCNet16Limits == <<[window |-> 0, count |-> 2, block |-> 1], [window |-> 2, count |-> 3, block |-> 2]>>

Row(entity, start, end) ==
    [ip_entity |-> entity, start_date |-> start, end_date |-> end, modification_date |-> -1]

\* No block, a /24 that ends, an address that is to be blocked later, and an
\* address within a network that is blocked for a time.
MCPrepared ==
    {{},
     {Row({1, 2}, NULL, 2)},
     {Row({1}, 1, NULL)},
     {Row({1, 2, 3}, NULL, 1), Row({2}, NULL, NULL)}}
=============================================================================
