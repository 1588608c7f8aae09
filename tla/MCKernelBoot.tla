---------------------------- MODULE MCKernelBoot ----------------------------
(***************************************************************************)
(* A small instance of KernelBoot: two releases of one channel, two        *)
(* commits of the package manager, three builds and two faults.            *)
(***************************************************************************)
EXTENDS KernelBoot

TwoReleases  == 1..2
TwoRevisions == {"one", "two"}
=============================================================================
