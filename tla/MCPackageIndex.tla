--------------------------- MODULE MCPackageIndex ---------------------------
(***************************************************************************)
(* Small instances of PackageIndex: two releases, the second one shorter.  *)
(***************************************************************************)
EXTENDS PackageIndex

ShrinkingSize == [v \in Versions |-> IF v = 1 THEN 3 ELSE 2]
=============================================================================
