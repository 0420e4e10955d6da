------------------------------ MODULE MCDnsFilter ------------------------------
(***************************************************************************)
(* Model values for checking DnsFilter with TLC.                           *)
(***************************************************************************)
EXTENDS DnsFilter, TLC

CONSTANTS q1, q2, q3, name1, name2, w1, w2, nobody

ThreeQueries == {q1, q2, q3}
TwoWorkers == {w1, w2}
\* Two queries for one name, and one for another.
NamesOfQueries == (q1 :> name1) @@ (q2 :> name1) @@ (q3 :> name2)
\* Two that are forwarded, and one that is not; or one that may be, and two that are not.
Mix(one, two, three) == (q1 :> one) @@ (q2 :> two) @@ (q3 :> three)
KindsOfQueries == {Mix("plain", "split", "health"), Mix("safe", "malformed", "blocked")}
TwoUpstreams == <<"dhcp", "configured">>
VpnUpstream == <<"vpn">>
=============================================================================
