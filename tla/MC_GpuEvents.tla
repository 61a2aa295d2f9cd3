----------------------------- MODULE MC_GpuEvents -----------------------------
(* Instantiates GpuEvents for TLC.  Ring units are 8 bytes: a record is   *)
(* its struct (cuda.h, with pid_info taken as 12 bytes) rounded up to 8,  *)
(* plus the 8-byte ring header.  The ring is scaled to 8 units, of which  *)
(* 7 can be in use: a graph record fits beside a malloc or memcpy record, *)
(* a kernel-launch record fits only alone, and a reservation can fail     *)
(* while another CPU is filling.                                          *)
EXTENDS GpuEvents

MCRecSize == [launch |-> 7, malloc |-> 4, memcpy |-> 4, graph |-> 3]
MCRingCap == 8
MCMaxCalls == 3
=============================================================================
