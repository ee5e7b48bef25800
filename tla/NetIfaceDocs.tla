----------------------------- MODULE NetIfaceDocs -----------------------------
(***************************************************************************)
(* What the documentation of netiface.hpp and the comments of netiface.cpp *)
(* say of the methods and the code does not do.                            *)
(***************************************************************************)
EXTENDS NetIface

Undisturbed(p, op) == Idle(p) /\ hist[p].quiet /\ call[p].op = op

\* netiface.hpp:65 "Set the MTU of this interface": set_mtu changes the MTU of
\* a link and nothing else of it.
SetMtuSetsOnlyMtu ==
  [][\A p \in Procs, i \in Indexes :
       call[p].op = "set_mtu" /\ hist'[p].changes > hist[p].changes =>
         links'[i] = [links[i] EXCEPT !.mtu = links'[i].mtu]]_vars

\* netiface.hpp:102 "if the address is not assigned to the interface, no action
\* is taken": an undisturbed del_ip_address that returns leaves the interface
\* without the address.
DelRemovesAddress ==
  \A p \in Procs :
    Undisturbed(p, "del_ip_address") /\ out[p].kind = "ok" =>
      \A i \in Bearers(links, nic[p]) : \A e \in links[i].addrs : e.raw # call[p].addr.raw

\* netiface.hpp:92 "this function is idempotent - if the address is already
\* assigned to the interface, no action is taken": set_ip_address does not fail
\* for the reason that the address is assigned.
SetIsIdempotent ==
  \A p \in Procs :
    Idle(p) /\ call[p].op = "set_ip_address" /\ out[p].val = EEXIST => ~ hist[p].held

\* netiface.hpp:60 "@return MTU of the interface": an undisturbed get_mtu that
\* returns was asked of an interface that exists.
MtuOfTheInterface ==
  \A p \in Procs :
    Undisturbed(p, "get_mtu") /\ out[p].kind = "ok" => Bearers(links, nic[p]) # {}
=============================================================================
