---------------------------- MODULE MCInstaller -----------------------------
(***************************************************************************)
(* A small instance of Installer, with the live system it is started from: *)
(* two devices of any kind, two attempts and two failing commands; of the  *)
(* tools of the initramfs bash and umount may be missing.                  *)
(***************************************************************************)
EXTENDS Installer

=============================================================================
