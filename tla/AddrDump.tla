------------------------------ MODULE AddrDump ------------------------------
(***************************************************************************)
(* get_ip_addresses() when the addresses do not fit in one datagram.  The  *)
(* kernel dumps its table, of all links, datagram by datagram as the       *)
(* socket is read, and remembers between two of them how many entries it   *)
(* has passed (external).  Others add and remove addresses meanwhile.  The *)
(* kernel marks such a dump NLM_F_DUMP_INTR and may end it with an error   *)
(* in NLMSG_DONE; the loop of netlink.cpp looks at neither.                *)
(***************************************************************************)
EXTENDS Naturals, SequencesExt

CONSTANTS Idx,           \* the link that get_index() returned
          Links, Addrs,  \* the links and addresses of the table
          Wanted,        \* the addresses of the families that are asked for
          PerDatagram,   \* entries that fit in a datagram
          MaxAdded,      \* bound: addresses added during the dump
          MaxRemoved,    \* bound: addresses removed during the dump
          MaxTable       \* bound: entries in the table

ASSUME AddrDumpAssumption ==
  /\ Idx \in Links /\ Wanted \subseteq Addrs
  /\ PerDatagram \in Nat \ {0}
  /\ {MaxAdded, MaxRemoved, MaxTable} \subseteq Nat

VARIABLES
  table,     \* the kernel's addresses, in its order
  passed,    \* entries the dump has passed
  broken,    \* the kernel ended the dump with an error
  status,    \* "reading", "returned" or "failed"
  addresses, \* the vector of get_ip_addresses_impl()
  ever,      \* history: entries of the table since the call began
  always,    \* history: those that have been there all the time
  added,     \* history: entries added, and
  removed    \* removed since then

vars == <<table, passed, broken, status, addresses, ever, always, added, removed>>

Entry == [idx : Links, addr : Addrs]
Table == {t \in UNION {[1 .. n -> Entry] : n \in 0 .. MaxTable} : IsInjective(t)}

TypeOK ==
  /\ table \in Table
  /\ passed \in 0 .. MaxTable
  /\ broken \in BOOLEAN
  /\ status \in {"reading", "returned", "failed"}
  /\ addresses \in Seq(Addrs) /\ Len(addresses) <= passed
  /\ always \subseteq ToSet(table) /\ ToSet(table) \subseteq ever /\ ever \subseteq Entry
  /\ added \in 0 .. MaxAdded
  /\ removed \in 0 .. MaxRemoved

Init ==
  /\ table \in Table
  /\ passed = 0 /\ broken = FALSE
  /\ status = "reading" /\ addresses = <<>>
  /\ ever = ToSet(table) /\ always = ToSet(table)
  /\ added = 0 /\ removed = 0
-----------------------------------------------------------------------------
EveryLink(e) == e.addr \in Wanted    \* mutant: NLM_F_MATCH is trusted to filter
Selected(e) == e.idx = Idx /\ e.addr \in Wanted

\* The callback of get_ip_addresses_impl(), which is called for each message of
\* a datagram in turn.
Twice(vector, e) ==          \* mutant: IFA_LOCAL is taken as well as IFA_ADDRESS
  IF Selected(e) THEN Append(Append(vector, e.addr), e.addr) ELSE vector
Callback(vector, e) == IF Selected(e) THEN Append(vector, e.addr) ELSE vector

Appended(entries) ==
  LET upTo[n \in 0 .. Len(entries)] ==
        IF n = 0 THEN addresses ELSE Callback(upTo[n - 1], entries[n])
  IN upTo[Len(entries)]

\* The first n entries of a datagram, and whether NLMSG_DONE comes with them:
\* it does not before the end of the table, unless the dump is broken off.
Left == IF passed < Len(table) THEN Len(table) - passed ELSE 0
OneDatagram(done) == TRUE    \* mutant
LoopEnds(done) == done

Receive ==
  /\ status = "reading"
  /\ \E n \in 0 .. PerDatagram, done \in BOOLEAN, error \in BOOLEAN :
       /\ n <= Left
       /\ done \/ n > 0
       /\ done => error \/ n = Left
       /\ error => done
       /\ addresses' = Appended(SubSeq(table, passed + 1, passed + n))
       /\ passed' = passed + n
       /\ broken' = error
       /\ status' = IF LoopEnds(done) THEN "returned" ELSE status
  /\ UNCHANGED <<table, ever, always, added, removed>>

\* recvmsg() fails or times out: the exception leaves the method.
ReceiveFails ==
  /\ status = "reading"
  /\ status' = "failed"
  /\ addresses' = <<>>
  /\ UNCHANGED <<table, passed, broken, ever, always, added, removed>>

AddEntry(e, k) ==
  /\ status = "reading"
  /\ added < MaxAdded /\ Len(table) < MaxTable
  /\ e \notin ToSet(table)
  /\ table' = InsertAt(table, k, e)
  /\ added' = added + 1
  /\ ever' = ever \cup {e}
  /\ UNCHANGED <<passed, broken, status, addresses, always, removed>>

RemoveEntry(k) ==
  /\ status = "reading"
  /\ removed < MaxRemoved
  /\ table' = RemoveAt(table, k)
  /\ removed' = removed + 1
  /\ always' = always \ {table[k]}
  /\ UNCHANGED <<passed, broken, status, addresses, ever, added>>

Next ==
  \/ Receive \/ ReceiveFails
  \/ \E e \in Entry, k \in 1 .. Len(table) + 1 : AddEntry(e, k)
  \/ \E k \in DOMAIN table : RemoveEntry(k)

Spec == Init /\ [][Next]_vars
-----------------------------------------------------------------------------
(* Properties *)

OfLink(entries) == {e.addr : e \in {d \in entries : d.idx = Idx}} \cap Wanted

\* Every address that the call returns was assigned to the link at some moment
\* of it, and is of a family that was asked for, however the table moved under
\* the dump.
ReportedWasThere ==
  status = "returned" => ToSet(addresses) \subseteq OfLink(ever)

\* An address that was there all the time is missed only for an address that
\* was removed meanwhile, or because the kernel gave up.
MissesExplained ==
  status = "returned" /\ ~ broken =>
    Cardinality(OfLink(always) \ ToSet(addresses)) <= removed

\* An address is repeated only for one that was added meanwhile.
RepeatsExplained ==
  Len(addresses) - Cardinality(ToSet(addresses)) <= added
=============================================================================
