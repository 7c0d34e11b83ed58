---------------------------- MODULE MCCollector ----------------------------
(* Small instances of Collector. *)
EXTENDS Collector, TLC

CONSTANTS n1, n2, t1, t2, up, a1, a2, r1, s1, s2, u1

\* A service query that fails before the modification instant is learnt.
ServiceTimeouts == {<<"svc", "timeout">>}
\* Everything that can go wrong with a query.
AnyFault == Kinds \X Failures
NoFault == {}
ServiceGarbled == {<<"svc", "decode">>}
HealthTimeout == {<<"health", "timeout">>}
OnlineOnly == {"online"}
OnlineOffline == {"online", "offline"}
AnyNetmap == {"online", "offline", "absent"}
=============================================================================
