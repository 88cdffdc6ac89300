-------------------------- MODULE MCDaemonProcess ---------------------------
(***************************************************************************)
(* Two threads and two processes, so that two constructors overlap, the    *)
(* descriptors one closes are reused by the other, and both are deleted by *)
(* one thread; both children may die at any point of their lives.          *)
(***************************************************************************)
EXTENDS DaemonProcess
=============================================================================
