---------------------------- MODULE MCDepClosure ----------------------------
(***************************************************************************)
(* Every index over two ordinary packages, "systemd", which is excluded    *)
(* and forbidden, "pam-systemd", which is only forbidden, and "c", which   *)
(* only "b" may need: each may be missing, and each of the ordinary ones   *)
(* may have dependencies, with and without an alternative.                 *)
(***************************************************************************)
EXTENDS DepClosure

Offered == Names \ {"c"}

Alternatives == {<<p>> : p \in Offered} \cup
                {<<pq[1], pq[2]>> : pq \in {pq \in Offered \X Offered : pq[1] # pq[2]}}

Wanted == {{}} \cup {{g} : g \in Alternatives}

\* "a" may also need "b" outright, and "b" may lead back to "a".
AllIndexes == UNION
    {{[p \in S |-> IF p = "a" THEN d ELSE IF p = "b" THEN e ELSE {}] :
        d \in Wanted \cup {{<<"b">>, g} : g \in Alternatives},
        e \in Wanted \cup {{<<"c">>}}} :
     S \in SUBSET Names}

AllEntries == {{"a"}, {"b"}, {"systemd"}, {"b", "pam-systemd"}}

AllManifests == [runtime : {{{"a"}}, {{"a"}, {"systemd"}}},
                 toolchain : {{}, {{"b"}}, {{"b", "pam-systemd"}}}]
=============================================================================
