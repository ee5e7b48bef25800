----------------------------- MODULE MCNetIface -----------------------------
(* Values for the runs of NetIface: two links, of which one may come later. *)
EXTENDS NetIfaceDocs, TLC

CONSTANTS v4a, v6a, loop

\* What a caller passes: a string with or without a prefix length, which may be
\* out of range or above 255, or one of the constants of the class.
Given == {FromString(v4a, -1), FromString(v4a, 24), FromString(v6a, 64),
          FromString(v6a, 32), FromBoost(loop),
          FromString(v4a, 64), FromString(v4a, 280), FromString(v6a, 320)}
AnyAddr == FromString(v4a, -1)
AnyMtu == 1500

AddrCalls(addrs) == [op : {"set_ip_address", "del_ip_address"}, addr : addrs, mtu : {AnyMtu}, fam : {All}]
MtuCalls == [op : {"set_mtu"}, addr : {AnyAddr}, mtu : Mtus, fam : {All}]
ReadCalls ==
  [op : ReadOps \cup {"get_index"}, addr : {AnyAddr}, mtu : {AnyMtu}, fam : {All}]
    \cup [op : {"get_ip_addresses"}, addr : {AnyAddr}, mtu : {AnyMtu}, fam : {{"v4"}, {"v6"}}]

AllCalls == AddrCalls(Given) \cup MtuCalls \cup ReadCalls
RaceCalls == AddrCalls({FromString(v4a, 24)})
WorldCalls ==
  AddrCalls({FromString(v4a, 24)})
    \cup [op : {"set_mtu"}, addr : {AnyAddr}, mtu : {9000}, fam : {All}]
    \cup [op : {"get_mac_address", "get_index"}, addr : {AnyAddr}, mtu : {AnyMtu}, fam : {All}]
MCFailures == {0, EACCES}
FlushCalls == AddrCalls({FromString(v6a, 24)}) \cup MtuCalls

E(raw, plen) == [raw |-> raw, plen |-> plen]
ALink(st, name, up, v6, addrs) ==
  [st |-> st, name |-> name, mtu |-> AnyMtu, up |-> up, v6 |-> v6, addrs |-> addrs]

\* One link, with any of these addresses that it can have together.
Assigned == {E(v4a, 0), E(v4a, 24), E(v4a, 32), E(loop, 32), E(v6a, 32), E(v6a, 64)}
OneLink ==
  {ls \in {1 :> ALink(st, "eth0", up, v6, addrs) :
             st \in {"here", "gone"}, up \in BOOLEAN, v6 \in BOOLEAN, addrs \in SUBSET Assigned}
     : KernelOK(ls)}
RaceLink ==
  {1 :> ALink("here", "eth0", TRUE, TRUE, addrs) : addrs \in SUBSET {E(v4a, 24), E(v4a, 32)}}

\* The second link may be created, with a name that is free by then.
TwoLinks ==
  {1 :> ALink("here", "eth0", TRUE, TRUE, addrs) @@ 2 :> ALink("unborn", "eth0", TRUE, TRUE, {})
     : addrs \in {{}, {E(v4a, 24)}}}
FlushLink == {1 :> ALink("here", "eth0", TRUE, TRUE, {})}
=============================================================================
