----------------------------- MODULE MCBuildRun -----------------------------
(***************************************************************************)
(* Three ports: "core" has the critical files and needs "lib"; "tool" is a *)
(* host-only tool that needs nothing.  The binaries of "lib" load a        *)
(* library of "tool" without being declared to depend on it.               *)
(***************************************************************************)
EXTENDS BuildRun

ThreePorts == {"lib", "tool", "core"}
ThreeNeeds == [p \in ThreePorts |-> IF p = "core" THEN {"lib"} ELSE {}]
ThreeLinks == [p \in ThreePorts |-> IF p = "lib" THEN {"tool"} ELSE {}]
AllOrLib   == {ThreePorts, {"lib"}}
=============================================================================
