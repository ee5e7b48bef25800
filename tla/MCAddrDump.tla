----------------------------- MODULE MCAddrDump -----------------------------
(* Values for the runs of AddrDump. *)
EXTENDS AddrDump
CONSTANTS eth0, lo, a1, a2, b
=============================================================================
