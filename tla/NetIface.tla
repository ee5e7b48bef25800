------------------------------- MODULE NetIface -------------------------------
(***************************************************************************)
(* netiface.cpp: calls of the methods of netiface objects by several       *)
(* threads, or programs, on interfaces that others change meanwhile.       *)
(*                                                                         *)
(* A method is a sequence of netlink transactions.  Each is one step here  *)
(* (Netlink.tla has them in detail): the kernel executes the request while *)
(* the method waits.  Every transaction that is about an interface is      *)
(* preceded by one of get_index(), since only the name is kept: idx = 0    *)
(* says that get_index() comes next, any other value is what it returned.  *)
(* A table is taken to fit in one datagram and its dump not to be broken   *)
(* off, so that a dump is atomic (AddrDump.tla has those that are not).    *)
(***************************************************************************)
EXTENDS Rtnl

CONSTANTS
  Procs,      \* callers
  Calls,      \* calls they may make: [op, addr, mtu] records
  Changes,    \* what others may change: of "addr", "link", "name", "mtu"
  Failures,   \* errnos with which any transaction may fail, 0 without one
  BootLinks   \* the links there may be at first

NotFound == -1

\* ip_family_type: the bits of v4, v6 and all, and operator& on them.
All == {"v4", "v6"}
Families == {{"v4"}, {"v6"}, All}
Has(fam, bit) == fam \cap {bit} = {bit}

ChangeOps == {"set_mtu", "set_ip_address", "del_ip_address"}
ReadOps == {"get_mtu", "get_mac_address", "get_ip_addresses"}
Ops == ChangeOps \cup ReadOps \cup {"get_index"}

ASSUME NetIfaceAssumption ==
  /\ "others" \notin Procs
  /\ Raw # {} /\ Mtus # {}
  /\ Calls \subseteq [op : Ops, addr : IpAddr, mtu : Mtus, fam : Families]
  /\ \A c \in Calls :
       c.op = "set_ip_address" /\ c.addr.prefix % 256 <= MaxPrefix(c.addr.raw) =>
         c.addr.prefix < 0 \/ c.addr.prefix % 256 \in PrefixLens
  /\ Failures \subseteq {0, EPERM, EACCES}
  /\ "" \notin Names
  /\ BootLinks \subseteq {ls \in [Indexes -> Link] : KernelOK(ls)}

VARIABLES
  links,   \* the kernel's links, by index
  nic,     \* nic[p]: name_ of the caller's netiface object, or "" without one
  call,    \* call[p]: the call in progress, or the last one
  out,     \* out[p]: what the last call returned or threw
  hist     \* hist[p]: what happened during the call (history)

vars == <<links, nic, call, out, hist>>

Stages == {"idle", "index", "read", "discard", "check", "act", "verify"}
Kinds == {"none", "ok", "netex", "denied", "timeout"}

Call == [op : Ops \cup {"open"}, addr : IpAddr, mtu : Mtus, fam : Families, stage : Stages,
         idx : Indexes \cup {NotFound, 0}, late : BOOLEAN]
Outcome == [kind : Kinds, val : Int, addrs : SUBSET IpAddr]
History == [quiet : BOOLEAN, first : BOOLEAN, held : BOOLEAN,
            named : SUBSET Indexes, changes : Nat]

Idle(p) == call[p].stage = "idle"
-----------------------------------------------------------------------------
(* The transactions *)

NamesInUse == {links[i].name : i \in Here(links)}
Bearers(ls, n) == {i \in Here(ls) : ls[i].name = n}

\* get_index(): the link with the name, -1 if there is none.
FirstIndex(ls, n) ==      \* mutant: any name will do
  IF Here(ls) = {} THEN NotFound ELSE CHOOSE i \in Here(ls) : TRUE
IndexOf(ls, n) ==
  IF Bearers(ls, n) = {} THEN NotFound ELSE CHOOSE i \in Bearers(ls, n) : TRUE

\* get_ip_addresses(fam): no link has the index -1.
Selects(fam, raw) == IF raw \in V4 THEN Has(fam, "v4") ELSE Has(fam, "v6")
ListedOf(idx, fam) ==
  IF idx \notin Here(links) THEN {}
  ELSE {FromString(e.raw, e.plen) : e \in {d \in links[idx].addrs : Selects(fam, d.raw)}}
Listed(idx) == ListedOf(idx, All)

\* get_mtu(): iface_mtu is not initialized, so that it has any value when no
\* link of the dump has the index.
MtuRead(idx) == IF idx \in Here(links) THEN {links[idx].mtu} ELSE Mtus

\* get_mac_address(): a link's index stands for its address, 0 for the default.
MacRead(idx) == IF idx \in Here(links) THEN idx ELSE 0

MtuFlags == {}
MtuChange == {"up"}    \* 0xFFFFFFFF: every flag, of which "up" matters here

\* ifa_prefixlen has 8 bits, a prefix length of the caller is an int.
Entry(a) == [raw |-> a.raw, plen |-> a.prefix % 256]

\* What the kernel may answer to the request of a change.
Answers(c) ==
  IF c.idx \notin Here(links) THEN {[errno |-> ENODEV, link |-> {}]}
  ELSE LET link == links[c.idx]
       IN CASE c.op = "set_mtu" -> SetLink(link, c.mtu, MtuFlags, MtuChange)
            [] c.op = "set_ip_address" -> NewAddr(link, Entry(c.addr))
            [] c.op = "del_ip_address" -> DelAddr(link, Entry(c.addr))

\* The test that makes set_ip_address and del_ip_address return early.
SameAddressSet(a, listed) == \E x \in listed : x.raw = a.raw   \* mutant
AlreadySet(a, listed) == a \in listed
ExactlyDeleted(a, listed) == a \notin listed                  \* mutant
AlreadyDeleted(a, listed) ==
  IF IsV4(a) THEN \A x \in listed : WithoutPrefix(x) # WithoutPrefix(a)
             ELSE a \notin listed
OnlyDeletionTested(c) ==      \* mutant
  c.op = "del_ip_address" /\ AlreadyDeleted(c.addr, Listed(c.idx))
NothingToDo(c) ==
  IF c.op = "set_ip_address" THEN AlreadySet(c.addr, Listed(c.idx))
                             ELSE AlreadyDeleted(c.addr, Listed(c.idx))

\* The values the condition of WaitFor may have.
Verdicts(c) ==
  CASE c.op = "set_mtu" -> {m = c.mtu : m \in MtuRead(c.idx)}
    [] c.op = "set_ip_address" -> {AlreadySet(c.addr, Listed(c.idx))}
    [] c.op = "del_ip_address" ->
         {WithoutPrefix(c.addr) \notin {WithoutPrefix(x) : x \in Listed(c.idx)}}

FirstStage(op) ==
  CASE op = "set_mtu" -> "act"
    [] op = "set_ip_address" -> "check"
    [] op = "del_ip_address" -> "discard"
    [] op = "get_index" -> "index"
    [] op \in ReadOps -> "read"
-----------------------------------------------------------------------------
(* History *)

\* What a change is asked to bring about, of the link it is about.
Asked(a) == [raw |-> a.raw, plen |-> a.prefix]
Goal(c, link) ==
  CASE c.op = "set_mtu" -> link.mtu = c.mtu
    [] c.op = "set_ip_address" -> Asked(c.addr) \in link.addrs
    [] c.op = "del_ip_address" /\ IsV4(c.addr) -> \A e \in link.addrs : e.raw # c.addr.raw
    [] c.op = "del_ip_address" /\ IsV6(c.addr) -> Asked(c.addr) \notin link.addrs
    [] OTHER -> FALSE

\* It holds of a link that has had the name, or there is nothing to delete from.
GoalHolds(c, ls, n, named) ==
  \/ \E i \in named : Goal(c, ls[i])
  \/ c.op = "del_ip_address" /\ Bearers(ls, n) = {}

NewHistory(c, ls, n) ==
  LET holds == GoalHolds(c, ls, n, Bearers(ls, n))
  IN [quiet |-> TRUE, changes |-> 0, named |-> Bearers(ls, n),
      first |-> holds, held |-> holds]

\* The record of what p's call has seen, after a step of the actor.
Recorded(p, actor) ==
  LET moved == links' # links
      named == IF Idle(p) THEN hist[p].named
               ELSE hist[p].named \cup Bearers(links', nic[p])
  IN IF p = actor /\ Idle(p) THEN NewHistory(call'[p], links', nic'[p])
     ELSE [quiet |-> hist[p].quiet /\ (moved => p = actor),
           first |-> hist[p].first,
           held |-> hist[p].held \/ (~ Idle(p) /\ GoalHolds(call[p], links', nic[p], named)),
           named |-> named,
           changes |-> hist[p].changes + (IF moved /\ p = actor THEN 1 ELSE 0)]

Record(actor) == hist' = [p \in Procs |-> Recorded(p, actor)]
-----------------------------------------------------------------------------
(* The methods *)

Goto(p, stage) == call' = [call EXCEPT ![p].stage = stage, ![p].idx = 0]

Finish(p, kind, val, addrs) ==
  /\ call' = [call EXCEPT ![p].stage = "idle", ![p].idx = 0, ![p].late = FALSE]
  /\ out' = [out EXCEPT ![p] = [kind |-> kind, val |-> val, addrs |-> addrs]]

\* handle_response_async() throws permission_denied for EACCES alone.
Thrown(errno) == IF errno = EACCES THEN "denied" ELSE "netex"

Return(p, val) == Finish(p, "ok", val, {})
Throw(p, errno) == Finish(p, Thrown(errno), errno, {})

\* netiface(name): get_iface_names() has to return, and return the name.
Open(p, n) ==
  /\ Idle(p)
  /\ call' = [call EXCEPT ![p].op = "open"]
  /\ \/ /\ n \in NamesInUse
        /\ nic' = [nic EXCEPT ![p] = n]
        /\ out' = [out EXCEPT ![p] = [kind |-> "ok", val |-> 0, addrs |-> {}]]
     \/ /\ n \notin NamesInUse
        /\ out' = [out EXCEPT ![p] = [kind |-> "netex", val |-> 0, addrs |-> {}]]
        /\ UNCHANGED nic
     \/ /\ \E e \in Failures :
             out' = [out EXCEPT ![p] = [kind |-> Thrown(e), val |-> e, addrs |-> {}]]
        /\ UNCHANGED nic
  /\ UNCHANGED links
  /\ Record(p)

NeverBad(c) == FALSE       \* mutant
BadPrefix(c) == c.op = "set_ip_address" /\ c.addr.prefix < 0

Started(c, stage) ==
  [op |-> c.op, addr |-> c.addr, mtu |-> c.mtu, fam |-> c.fam,
   stage |-> stage, idx |-> 0, late |-> FALSE]

Begin(p, c) ==
  /\ Idle(p)
  /\ nic[p] \in Names
  /\ \/ /\ ~ BadPrefix(c)
        /\ call' = [call EXCEPT ![p] = Started(c, FirstStage(c.op))]
        /\ UNCHANGED out
     \/ /\ BadPrefix(c)
        /\ call' = [call EXCEPT ![p] = Started(c, "idle")]
        /\ out' = [out EXCEPT ![p] = [kind |-> "netex", val |-> 0, addrs |-> {}]]
  /\ UNCHANGED <<links, nic>>
  /\ Record(p)

GetIndex(p) ==
  /\ ~ Idle(p) /\ call[p].idx = 0
  /\ LET i == IndexOf(links, nic[p])
     IN \/ /\ call[p].stage = "index"
           /\ Return(p, i)
        \/ /\ call[p].stage # "index"
           /\ call' = [call EXCEPT ![p].idx = i]
           /\ UNCHANGED out
  /\ UNCHANGED <<links, nic>>
  /\ Record(p)

\* del_ip_address lists the addresses into a variable it does not use.
Discard(p) ==
  /\ call[p].stage = "discard" /\ call[p].idx # 0
  /\ Goto(p, "check")
  /\ UNCHANGED <<links, nic, out>>
  /\ Record(p)

Check(p) ==
  /\ call[p].stage = "check" /\ call[p].idx # 0
  /\ \/ NothingToDo(call[p]) /\ Return(p, 0)
     \/ ~ NothingToDo(call[p]) /\ Goto(p, "act") /\ UNCHANGED out
  /\ UNCHANGED <<links, nic>>
  /\ Record(p)

Act(p) ==
  /\ call[p].stage = "act" /\ call[p].idx # 0
  /\ \E a \in Answers(call[p]) :
       \/ /\ a.errno = 0
          /\ links' = [links EXCEPT ![call[p].idx] = a.link]
          /\ Goto(p, "verify")
          /\ UNCHANGED out
       \/ /\ a.errno # 0
          /\ Throw(p, a.errno)
          /\ UNCHANGED links
  /\ UNCHANGED nic
  /\ Record(p)

NeverOverdue(c) == FALSE   \* mutant
Overdue(c) == c.late
RetryFromAct == "act"      \* mutant: the change is requested again
RetryFrom == "verify"

Verify(p) ==
  /\ call[p].stage = "verify" /\ call[p].idx # 0
  /\ \E satisfied \in Verdicts(call[p]) :
       \/ satisfied /\ Return(p, 0)
       \/ ~ satisfied /\ Overdue(call[p]) /\ Finish(p, "timeout", 0, {})
       \/ ~ satisfied /\ ~ Overdue(call[p]) /\ Goto(p, RetryFrom) /\ UNCHANGED out
  /\ UNCHANGED <<links, nic>>
  /\ Record(p)

Read(p) ==
  /\ call[p].stage = "read" /\ call[p].idx # 0
  /\ LET c == call[p]
     IN \/ c.op = "get_mtu" /\ \E m \in MtuRead(c.idx) : Return(p, m)
        \/ c.op = "get_mac_address" /\ Return(p, MacRead(c.idx))
        \/ c.op = "get_ip_addresses" /\ Finish(p, "ok", 0, ListedOf(c.idx, c.fam))
  /\ UNCHANGED <<links, nic>>
  /\ Record(p)

\* 500 ms of the clock have passed since WaitFor began.
Expire(p) ==
  /\ call[p].stage = "verify" /\ ~ call[p].late
  /\ call' = [call EXCEPT ![p].late = TRUE]
  /\ UNCHANGED <<links, nic, out>>
  /\ Record(p)

\* The kernel refuses a request, whichever of the call's it is, or the socket
\* fails before the request is executed (0).
Refused(p) ==
  /\ ~ Idle(p)
  /\ \E e \in Failures : Throw(p, e)
  /\ UNCHANGED <<links, nic>>
  /\ Record(p)

\* The socket fails or is silent for NL_SOCKET_TIMEOUT after the request has
\* been executed.
AnswerLost(p) ==
  /\ 0 \in Failures /\ call[p].stage = "act" /\ call[p].idx # 0
  /\ \E a \in Answers(call[p]) :
       /\ a.errno = 0
       /\ links' = [links EXCEPT ![call[p].idx] = a.link]
  /\ Throw(p, 0)
  /\ UNCHANGED nic
  /\ Record(p)
-----------------------------------------------------------------------------
(* Others: programs, administrators, the kernel itself *)

SetOthers(i, link) ==
  /\ links' = [links EXCEPT ![i] = link]
  /\ UNCHANGED <<nic, call, out>>
  /\ Record("others")

OthersChangeAddr(i) ==
  /\ "addr" \in Changes
  /\ links[i].st = "here"
  /\ \E e \in Entries :
       LET answers == NewAddr(links[i], e) \cup DelAddr(links[i], e)
       IN \E a \in answers : a.errno = 0 /\ SetOthers(i, a.link)

OthersSetLink(i) ==
  /\ "mtu" \in Changes
  /\ links[i].st = "here"
  /\ \E m \in Mtus, flags \in {{}, {"up"}} :
       \E a \in SetLink(links[i], m, flags, {"up"}) : a.errno = 0 /\ SetOthers(i, a.link)

OthersCreate(i) ==
  /\ "link" \in Changes
  /\ links[i].st = "unborn"
  /\ links[i].name \notin NamesInUse
  /\ SetOthers(i, [links[i] EXCEPT !.st = "here"])

OthersRemove(i) ==
  /\ "link" \in Changes
  /\ links[i].st = "here"
  /\ SetOthers(i, [links[i] EXCEPT !.st = "gone", !.addrs = {}])

OthersRename(i) ==
  /\ "name" \in Changes
  /\ links[i].st = "here"
  /\ \E n \in Names \ NamesInUse : SetOthers(i, [links[i] EXCEPT !.name = n])

Others(i) ==
  \/ OthersChangeAddr(i) \/ OthersSetLink(i)
  \/ OthersCreate(i) \/ OthersRemove(i) \/ OthersRename(i)
-----------------------------------------------------------------------------
(* The specification *)

NoCall == [op |-> "open", addr |-> FromBoost(CHOOSE r \in Raw : TRUE),
           mtu |-> CHOOSE m \in Mtus : TRUE, fam |-> All, stage |-> "idle", idx |-> 0, late |-> FALSE]

Init ==
  /\ links \in BootLinks
  /\ nic = [p \in Procs |-> ""]
  /\ call = [p \in Procs |-> NoCall]
  /\ out = [p \in Procs |-> [kind |-> "none", val |-> 0, addrs |-> {}]]
  /\ hist = [p \in Procs |-> NewHistory(NoCall, links, "")]

Proceed(p) ==
  \/ GetIndex(p) \/ Discard(p) \/ Check(p) \/ Act(p) \/ Verify(p) \/ Read(p)

Step(p) ==
  \/ \E n \in Names : Open(p, n)
  \/ \E c \in Calls : Begin(p, c)
  \/ Proceed(p)
  \/ Expire(p)
  \/ Refused(p) \/ AnswerLost(p)

Next ==
  \/ \E p \in Procs : Step(p)
  \/ \E i \in Indexes : Others(i)

Spec == Init /\ [][Next]_vars

\* A thread in a method is scheduled, every transaction ends (Netlink.tla's
\* TransactionEnds), and the clock advances.
Fairness ==
  \A p \in Procs :
    /\ WF_vars(Proceed(p))
    /\ WF_vars(Expire(p))
FairSpec == Spec /\ Fairness
-----------------------------------------------------------------------------
(* Properties *)

\* A call in progress is one of those that are made, and has passed the test of
\* its prefix length.
InProgress(c) ==
  /\ [op |-> c.op, addr |-> c.addr, mtu |-> c.mtu, fam |-> c.fam] \in Calls
  /\ c.op = "set_ip_address" => c.addr.prefix >= 0

\* No call that has come to build a request has an unspecified prefix length,
\* and an interrupted or finished call leaves nothing of itself behind.
TypeOK ==
  /\ links \in [Indexes -> Link] /\ KernelOK(links)
  /\ nic \in [Procs -> Names \cup {""}]
  /\ call \in [Procs -> Call]
  /\ out \in [Procs -> Outcome]
  /\ hist \in [Procs -> History]
  /\ \A p \in Procs :
       /\ Idle(p) => call[p].idx = 0
       /\ call[p].late => call[p].stage = "verify"
       /\ ~ Idle(p) => nic[p] \in Names /\ InProgress(call[p])

\* set_ip_address, del_ip_address and set_mtu return normally only if what they
\* promise was the case at some moment of the call, on a link that bore the
\* interface's name during the call, however others interfere: as long as dumps
\* are atomic, neither the early return nor WaitFor's test is deceived.
OkMeansAchieved ==
  \A p \in Procs :
    Idle(p) /\ out[p].kind = "ok" /\ call[p].op \in ChangeOps => hist[p].held

\* What the caller learns bounds what was done: the kernel was changed at most
\* once, and not at all if the call only reads or if the exception gives a
\* reason that the request of the change alone can meet (a poll of WaitFor, after
\* the change, may be denied too); a timeout of an address change says that the
\* change was made although it did not show.
NamesConflict(o) == o.kind \in {"netex", "denied"} /\ o.val \notin Failures
OutcomeAccounts ==
  \A p \in Procs : Idle(p) =>
    /\ hist[p].changes <= 1
    /\ NamesConflict(out[p]) => hist[p].changes = 0
    /\ out[p].kind = "timeout" /\ call[p].op # "set_mtu" => hist[p].changes = 1
    /\ call[p].op \notin ChangeOps => hist[p].changes = 0 /\ out[p].kind # "timeout"

\* The answer to a call that nobody disturbed is right, and its errors are
\* those of the documented cases: idempotent calls change nothing, a change is
\* visible when it returns, a value read is the current one, and the only
\* failures are transactions that fail, a missing link, an MTU or prefix length
\* out of range, IPv6 disabled, an IPv6 address that is there with another prefix
\* length, the time out of a deletion after which the IPv4 address is there with
\* another one, and what comes of a prefix length that does not fit in 8 bits.
RightValue(c, ls, i, o) ==
  CASE c.op = "get_index" -> o.val = i
    [] c.op = "get_mac_address" -> o.val = (IF i = NotFound THEN 0 ELSE i)
    [] c.op = "get_mtu" -> i # NotFound => o.val = ls[i].mtu
    [] c.op = "get_ip_addresses" ->
         {Entry(a) : a \in o.addrs} =
            IF i = NotFound THEN {}
            ELSE UNION {AddrsOfFamily(ls[i], IF f = "v4" THEN V4 ELSE V6) : f \in c.fam}
    [] c.op \in {"set_mtu", "set_ip_address"} -> i # NotFound /\ Goal(c, ls[i])
    [] c.op = "del_ip_address" -> i # NotFound => Goal(c, ls[i])
    [] OTHER -> TRUE

RightError(c, ls, i, errno) ==
  \/ c.op = "open" \/ BadPrefix(c)
  \/ errno \in Failures
  \/ errno = EINVAL /\ c.op = "set_mtu" /\ c.mtu > MtuLimit
  \/ errno = EINVAL /\ c.op = "set_ip_address" /\ c.addr.prefix > MaxPrefix(c.addr.raw)
  \/ errno = ENODEV /\ i = NotFound /\ c.op # "del_ip_address"
  \/ /\ errno = EEXIST /\ c.op = "set_ip_address"
     /\ \E e \in ls[i].addrs :
          /\ e.raw = c.addr.raw /\ e.plen # c.addr.prefix
          /\ IsV6(c.addr) \/ c.addr.prefix > 255

RightTimeout(c, ls, i) ==
  /\ \/ c.op = "del_ip_address" /\ IsV4(c.addr)
     \/ c.op = "set_ip_address" /\ c.addr.prefix > 255
  /\ \E e \in ls[i].addrs : e.raw = c.addr.raw

Right(c, ls, i, o) ==
  /\ o.kind = "ok" => RightValue(c, ls, i, o)
  /\ o.kind = "denied" => o.val \in Failures \/ (IsV6(c.addr) /\ ~ ls[i].v6)
  /\ o.kind = "netex" => RightError(c, ls, i, o.val)
  /\ o.kind = "timeout" => RightTimeout(c, ls, i)

UndisturbedCallsAreRight ==
  \A p \in Procs :
    Idle(p) /\ hist[p].quiet =>
      /\ Right(call[p], links, IndexOf(links, nic[p]), out[p])
      /\ hist[p].first /\ call[p].op \in {"set_ip_address", "del_ip_address"} =>
           hist[p].changes = 0

\* The lines that a program prints of an interface's addresses tell them apart,
\* but for an IPv4 address that is there with the prefix lengths 0 and 32, of
\* which to_string() shows neither.
TextTellsApart ==
  \A p \in Procs : \A a, b \in out[p].addrs :
    Text(a) = Text(b) => a = b \/ (IsV4(a) /\ {a.prefix, b.prefix} = {0, 32})

\* A call changes no link but one that has borne the interface's name since the
\* call began, and of its addresses at most the one it is about, whoever
\* renames, removes or creates links between get_index() and the request.
Differ(a, b) == (a \ b) \cup (b \ a)
ChangesNamedLink ==
  [][\A p \in Procs, i \in Indexes :
       hist'[p].changes > hist[p].changes /\ links'[i] # links[i] =>
         /\ i \in hist[p].named
         /\ call[p].op # "set_mtu" =>
              \E e \in Entries : /\ Differ(links[i].addrs, links'[i].addrs) = {e}
                                 /\ e.raw = call[p].addr.raw]_vars

\* What get_mac_address and get_index return belongs to a link that has borne
\* the interface's name since the call began, or says that there is none.
ReadsNamedLink ==
  \A p \in Procs :
    /\ Idle(p) /\ out[p].kind = "ok"
    /\ call[p].op \in {"get_mac_address", "get_index"}
    => out[p].val \in hist[p].named \cup {0, NotFound}

\* The inductive invariant behind these: a call is in a stage of its method, it
\* has changed nothing before it verifies, what it knows of the interface is
\* recorded as named, and what is true of its goal as held.
StagesOf(op) ==
  CASE op = "set_mtu" -> {"act", "verify"}
    [] op = "set_ip_address" -> {"check", "act", "verify"}
    [] op = "del_ip_address" -> {"discard", "check", "act", "verify"}
    [] op = "get_index" -> {"index"}
    [] op \in ReadOps -> {"read"}
    [] OTHER -> {}
ChangesOnce(p) ==
  /\ hist[p].changes <= 1
  /\ call[p].stage # "verify" => hist[p].changes = 0
  /\ call[p].stage = "verify" /\ call[p].op # "set_mtu" => hist[p].changes = 1
NamesRecorded(p) ==
  /\ Bearers(links, nic[p]) \subseteq hist[p].named
  /\ call[p].idx \in Indexes => call[p].idx \in hist[p].named
GoalRecorded(p) ==
  /\ GoalHolds(call[p], links, nic[p], hist[p].named) => hist[p].held
  /\ call[p].op = "del_ip_address" /\ call[p].idx = NotFound => hist[p].held
  /\ call[p].op = "set_mtu" /\ call[p].stage = "verify" => hist[p].held
InCall(p) ==
  /\ call[p].stage \in StagesOf(call[p].op)
  /\ ChangesOnce(p) /\ NamesRecorded(p) /\ GoalRecorded(p)
Inductive ==
  /\ TypeOK /\ OkMeansAchieved /\ OutcomeAccounts /\ ReadsNamedLink
  /\ \A p \in Procs : ~ Idle(p) => InCall(p)

\* Each call is one call of IfaceApi: it changes the configuration at most once,
\* and what it answers is true of its goal and of that change.
Phase(p) ==
  IF ~ Idle(p) THEN "busy"
  ELSE CASE out[p].kind = "none" -> "idle"
         [] out[p].kind = "ok" -> IF call[p].op \in ChangeOps THEN "achieved" ELSE "answered"
         [] NamesConflict(out[p]) -> "refused"
         [] OTHER -> "failed"
Api == INSTANCE IfaceApi WITH
  Callers <- Procs,
  config <- links,
  phase <- [p \in Procs |-> Phase(p)],
  met <- [p \in Procs |-> hist[p].held],
  spent <- [p \in Procs |-> hist[p].changes]
IsApi == Api!Spec

\* Every call returns or throws.
CallsEnd == \A p \in Procs : ~ Idle(p) ~> Idle(p)
=============================================================================
