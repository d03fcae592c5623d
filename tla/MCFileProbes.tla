---------------------------- MODULE MCFileProbes ----------------------------
(* An instance of FileProbes for TLC: the System applet, the three stock   *)
(* applets, one with files and one without.                                *)
EXTENDS FileProbes

SixSlots == 0..5
=============================================================================
