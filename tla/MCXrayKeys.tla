------------------------------ MODULE MCXrayKeys ------------------------------
(***************************************************************************)
(* Small instances of XrayKeys.                                            *)
(***************************************************************************)
EXTENDS XrayKeys, TLC

CONSTANTS k1, k2, u1, s1

\* One key of one user
OneKey == {k1}
OneUser == {u1}
OneOwner == [k \in OneKey |-> u1]
OneTcp == [k \in OneKey |-> "tcp"]
OneSid == [k \in OneKey |-> s1]

\* Two keys of one user, on one inbound, sharing a managed short id: interchangeable
TwoKeys == {k1, k2}
SameOwner == [k \in TwoKeys |-> u1]
BothTcp == [k \in TwoKeys |-> "tcp"]
SharedSid == [k \in TwoKeys |-> s1]
Interchangeable == Permutations(TwoKeys) \cup Permutations(Tasks)

\* Two keys on different inbounds, the TCP one with a managed short id
TcpAndHttp == [k \in TwoKeys |-> IF k = k1 THEN "tcp" ELSE "http"]
TcpSid == [k \in TwoKeys |-> IF k = k1 THEN s1 ELSE NoSid]

MCShortIds == {s1}
=============================================================================
