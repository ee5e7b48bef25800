------------------------------ MODULE MCProgram ------------------------------
(* Values for the runs of Program: one link, and what it may have at first. *)
EXTENDS Program, TLC

CONSTANTS one, two, six

MCFailures == {0, EPERM, EACCES}
MCCalls == {Script[k] : k \in DOMAIN Script}

E(raw, plen) == [raw |-> raw, plen |-> plen]
Boot(st, v6, addrs) ==
  1 :> [st |-> st, name |-> "eth0", mtu |-> 1500, up |-> TRUE, v6 |-> v6, addrs |-> addrs]

\* The addresses of the script, the IPv4 ones with one or two prefix lengths.
Leftovers == {E(one, 24), E(one, 32), E(two, 16), E(two, 24), E(two, 32), E(six, 32), E(six, 64)}
AnyBoot ==
  {ls \in {Boot(st, v6, addrs) : st \in {"here", "gone"}, v6 \in BOOLEAN, addrs \in SUBSET Leftovers}
     : KernelOK(ls)}
PlainBoot == {Boot("here", v6, {}) : v6 \in BOOLEAN}
=============================================================================
