-------------------------------- MODULE Rtnl --------------------------------
(***************************************************************************)
(* The kernel's side of the requests of netiface.cpp (external: modelled   *)
(* from how the code uses it).  A link is [st, name, mtu, up, v6, addrs]:  *)
(* whether it exists, its attributes, whether IPv6 is enabled on it, and   *)
(* its addresses with their prefix lengths.  The index of a removed link   *)
(* is not used again.                                                      *)
(*                                                                         *)
(* A request yields a set of [errno, link]: the possible answers, each     *)
(* with what becomes of the link.                                          *)
(***************************************************************************)
EXTENDS IpAddress

CONSTANTS Indexes,    \* ifi_index values the links can have
          Names,      \* interface names
          Mtus,       \* MTUs links are given
          MtuLimit,   \* the largest MTU that the links take
          PrefixLens  \* prefix lengths that addresses have

ASSUME RtnlAssumption ==
  /\ Indexes \subseteq Nat \ {0}
  /\ Mtus \subseteq Nat
  /\ MtuLimit \in Nat
  /\ PrefixLens \subseteq Nat

MaxPrefix(raw) == IF raw \in V4 THEN 32 ELSE 128
Entries == {e \in [raw : Raw, plen : PrefixLens] : e.plen <= MaxPrefix(e.raw)}
Link == [st : {"unborn", "here", "gone"}, name : Names, mtu : Mtus,
         up : BOOLEAN, v6 : BOOLEAN, addrs : SUBSET Entries]

Here(links) == {i \in DOMAIN links : links[i].st = "here"}
AddrsOfFamily(link, raws) == {e \in link.addrs : e.raw \in raws}

EPERM == -1
EEXIST == -17
ENODEV == -19
EINVAL == -22
EADDRNOTAVAIL == -99
EACCES == -13

Answer(errno, link) == {[errno |-> errno, link |-> link]}

\* The names of existing links differ, a link has an IPv6 address once, and a
\* link without IPv6 has none.
KernelOK(links) ==
  /\ \A i, j \in Here(links) : links[i].name = links[j].name => i = j
  /\ \A i \in DOMAIN links :
       /\ \A d, e \in links[i].addrs : d.raw \in V6 /\ d.raw = e.raw => d = e
       /\ ~ links[i].v6 => AddrsOfFamily(links[i], V6) = {}
       /\ links[i].st # "here" => links[i].addrs = {}

\* RTM_NEWADDR with NLM_F_CREATE | NLM_F_EXCL.  Prefix lengths tell IPv4
\* addresses apart, IPv6 addresses not.
NewAddr(link, e) ==
  IF e.plen > MaxPrefix(e.raw) THEN Answer(EINVAL, link)
  ELSE IF e.raw \in V6 /\ ~ link.v6 THEN Answer(EACCES, link)
  ELSE IF \E d \in link.addrs : d.raw = e.raw /\ (d.raw \in V4 => d = e)
  THEN Answer(EEXIST, link)
  ELSE Answer(0, [link EXCEPT !.addrs = @ \cup {e}])

\* RTM_DELADDR that carries IFA_LOCAL alone: one IPv4 address goes, whatever
\* its prefix length; for IPv6 the prefix length has to match.
DelAddr(link, e) ==
  LET matches == {d \in link.addrs : d.raw = e.raw /\ (d.raw \in V6 => d = e)}
  IN IF matches = {} THEN Answer(EADDRNOTAVAIL, link)
     ELSE UNION {Answer(0, [link EXCEPT !.addrs = @ \ {d}]) : d \in matches}

\* RTM_NEWLINK with IFLA_MTU.  The MTU comes first; then the flags that
\* ifi_change selects are set to ifi_flags too, and a link that goes down loses
\* its IPv6 addresses.
SetLink(link, mtu, flags, change) ==
  LET up == ("up" \in change /\ "up" \in flags) \/ ("up" \notin change /\ link.up)
  IN IF mtu > MtuLimit THEN Answer(EINVAL, link)
     ELSE Answer(0, [link EXCEPT !.mtu = mtu, !.up = up,
                       !.addrs = IF link.up /\ ~ up THEN AddrsOfFamily(link, V4) ELSE @])
=============================================================================
