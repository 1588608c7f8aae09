------------------------- MODULE MCBootstrapStage -------------------------
(***************************************************************************)
(* Small instances of BootstrapStage.  A release of the mirror serves only *)
(* the archives its own index names.  "x" stands for the systemd and       *)
(* OpenSSH packages that pruning removes; manifest "typo" names a package  *)
(* that no release has.                                                    *)
(***************************************************************************)
EXTENDS BootstrapStage

MCArchives == {"a1", "a2", "b1", "b2", "x1"}

\* One stage with package "a", to which manifest "grown" adds "b"; release 2
\* brings a new "b".
OneStagePlans ==
    [m \in {"base", "grown"} |-> [r \in Releases |-> [s \in Stages |->
        [p \in IF m = "base" THEN {"a"} ELSE {"a", "b"} |->
            IF p = "a" THEN "a1" ELSE IF r = 1 THEN "b1" ELSE "b2"]]]]

OneStagePool == [r \in Releases |-> {"a1", IF r = 1 THEN "b1" ELSE "b2"}]

\* The runtime stage has "b", and with manifest "pruned" also "x"; the sysroot
\* has "a" and "b".  Release 2 brings new versions of both.
TwoStagePlans ==
    [m \in {"base", "grown", "pruned", "typo"} |-> [r \in Releases |-> [s \in Stages |->
        [p \in IF m = "base" THEN {"b"}
               ELSE IF s = 2 THEN {"a", "b"}
               ELSE IF m = "pruned" THEN {"b", "x"} ELSE {"b"} |->
            CASE p = "a" -> IF r = 1 THEN "a1" ELSE "a2"
              [] p = "b" -> IF r = 1 THEN "b1" ELSE "b2"
              [] p = "x" -> "x1"]]]]

TwoStagePool == [r \in Releases |->
    {"x1"} \cup IF r = 1 THEN {"a1", "b1"} ELSE {"a2", "b2"}]

TypoRejected == {"typo"} \X Releases
=============================================================================
