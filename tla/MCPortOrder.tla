---------------------------- MODULE MCPortOrder ----------------------------
(***************************************************************************)
(* All dependency tables over three ports and one name that is no port,    *)
(* with at most two dependencies each, and every request of at most three. *)
(***************************************************************************)
EXTENDS PortTable, TLC

Distinct(S, n) == {s \in UNION {[1..k -> S] : k \in 0..n} :
                      \A i, j \in DOMAIN s : s[i] = s[j] => i = j}

AllGraphs == [Ports -> Distinct(Names, 2)]

\* Each port may depend on one that comes later, and on itself.
AllRequests == Distinct(Ports, 3) \cup {<<p, p>> : p \in Ports}
=============================================================================
