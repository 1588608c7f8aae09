--------------------------- MODULE MCFinalRootfs ----------------------------
(***************************************************************************)
(* FinalRootfs with every directory a port may install to, two releases of *)
(* the archive, and up to two builds, restarts and interruptions.          *)
(***************************************************************************)
EXTENDS FinalRootfs

AllDirs == Dirs
Multiarch == {"lib", "canon"}
=============================================================================
