------------------------------ MODULE MCNetlink ------------------------------
(* Two threads with adjacent thread ids, the case in which their ports clash. *)
EXTENDS Netlink, TLC

CONSTANTS t1, t2
MCThreads == {t1, t2}
MCTid == t1 :> 10 @@ t2 :> 11
MCErrnos == {-13, -17}
=============================================================================
