---------------------------- MODULE NetIfaceProofs ----------------------------
(***************************************************************************)
(* Proofs about NetIface, for any callers, calls, links, addresses and     *)
(* limits: types first, then the inductive invariant.                      *)
(***************************************************************************)
EXTENDS NetIface, TLAPS

USE DEF Raw

\* What KernelOK says of a single link.
LinkOK(l) ==
  /\ \A d, e \in l.addrs : d.raw \in V6 /\ d.raw = e.raw => d = e
  /\ ~ l.v6 => AddrsOfFamily(l, V6) = {}
  /\ l.st # "here" => l.addrs = {}

LEMMA MaxPrefixType == \A raw \in Raw : MaxPrefix(raw) \in 32 .. 128
  BY SMT DEF MaxPrefix

-----------------------------------------------------------------------------
(* The kernel's answers *)

\* A link that answers keeps its place and its name and stays well formed.
LEMMA NewAddrAnswers ==
  ASSUME NEW l \in Link, LinkOK(l), l.st = "here",
         NEW e \in [raw : Raw, plen : Nat], e.plen <= MaxPrefix(e.raw) => e \in Entries,
         NEW a \in NewAddr(l, e)
  PROVE  /\ a.errno \in Int
         /\ a.link \in Link /\ LinkOK(a.link)
         /\ a.link.st = "here" /\ a.link.name = l.name
         /\ a.errno = 0 => e \in a.link.addrs /\ a.link # l
         /\ a.errno # 0 => a.errno # EPERM
<1> USE IpAddressAssumption DEF Answer, EINVAL, EACCES, EEXIST, EPERM
<1>1. CASE e.plen > MaxPrefix(e.raw)
  BY <1>1 DEF NewAddr
<1>2. CASE ~ (e.plen > MaxPrefix(e.raw))
  <2>0. e \in Entries  BY <1>2, MaxPrefixType
  <2>1. CASE e.raw \in V6 /\ ~ l.v6
    BY <1>2, <2>1 DEF NewAddr
  <2>2. CASE ~ (e.raw \in V6 /\ ~ l.v6) /\ \E d \in l.addrs : d.raw = e.raw /\ (d.raw \in V4 => d = e)
    BY <1>2, <2>2 DEF NewAddr
  <2>3. CASE ~ (e.raw \in V6 /\ ~ l.v6) /\ ~ \E d \in l.addrs : d.raw = e.raw /\ (d.raw \in V4 => d = e)
    <3>1. a = [errno |-> 0, link |-> [l EXCEPT !.addrs = @ \cup {e}]]
      BY <1>2, <2>3 DEF NewAddr
    <3>2. a.link \in Link  BY <3>1, <2>0 DEF Link
    <3>3. a.link.addrs = l.addrs \cup {e}  BY <3>1 DEF Link
    <3>4. e \notin l.addrs  BY <2>3
    <3>5. LinkOK(a.link)
      BY <3>1, <3>3, <2>3, <2>0 DEF LinkOK, Link, AddrsOfFamily, Entries
    <3>6. a.link # l  BY <3>3, <3>4
    <3> QED  BY <3>1, <3>2, <3>3, <3>5, <3>6 DEF Link
  <2> QED  BY <2>1, <2>2, <2>3
<1> QED  BY <1>1, <1>2, MaxPrefixType

LEMMA DelAddrAnswers ==
  ASSUME NEW l \in Link, LinkOK(l), l.st = "here", NEW e, NEW a \in DelAddr(l, e)
  PROVE  /\ a.errno \in Int
         /\ a.link \in Link /\ LinkOK(a.link)
         /\ a.link.st = "here" /\ a.link.name = l.name
         /\ a.errno = 0 => a.link # l
         /\ a.errno # 0 => a.errno # EPERM
<1> DEFINE matches == {d \in l.addrs : d.raw = e.raw /\ (d.raw \in V6 => d = e)}
<1> USE DEF Answer, EADDRNOTAVAIL, EPERM
<1>1. CASE matches = {}
  BY <1>1 DEF DelAddr
<1>2. CASE matches # {}
  <2>1. PICK d \in matches : a = [errno |-> 0, link |-> [l EXCEPT !.addrs = @ \ {d}]]
    BY <1>2 DEF DelAddr
  <2>2. a.link.addrs = l.addrs \ {d}  BY <2>1 DEF Link
  <2>3. a.link \in Link  BY <2>1 DEF Link
  <2>4. LinkOK(a.link)
    BY <2>1, <2>2 DEF LinkOK, Link, AddrsOfFamily
  <2>5. a.link # l  BY <2>2
  <2>6. a.errno = 0 /\ a.link.st = l.st /\ a.link.name = l.name  BY <2>1 DEF Link
  <2> QED  BY <2>3, <2>4, <2>5, <2>6
<1> QED
  <2>1. CASE matches = {}  BY <2>1, <1>1
  <2> QED  BY <2>1, <1>2

LEMMA SetLinkAnswers ==
  ASSUME NEW l \in Link, LinkOK(l), l.st = "here",
         NEW mtu \in Mtus, NEW flags, NEW change, NEW a \in SetLink(l, mtu, flags, change)
  PROVE  /\ a.errno \in Int
         /\ a.link \in Link /\ LinkOK(a.link)
         /\ a.link.st = "here" /\ a.link.name = l.name
         /\ a.errno = 0 => a.link.mtu = mtu
         /\ a.errno # 0 => a.errno # EPERM
<1> USE DEF Answer, EINVAL, EPERM
<1>1. CASE mtu > MtuLimit
  BY <1>1 DEF SetLink
<1>2. CASE ~ (mtu > MtuLimit)
  <2> DEFINE up == ("up" \in change /\ "up" \in flags) \/ ("up" \notin change /\ l.up)
             addrs == IF l.up /\ ~ up THEN AddrsOfFamily(l, V4) ELSE l.addrs
  <2>1. a = [errno |-> 0, link |-> [l EXCEPT !.mtu = mtu, !.up = up, !.addrs = addrs]]
    BY <1>2 DEF SetLink, Link
  <2>2. up \in BOOLEAN  OBVIOUS
  <2>3. addrs \subseteq l.addrs  BY DEF AddrsOfFamily
  <2> HIDE DEF up, addrs
  <2>4. a.link \in Link  BY <2>1, <2>2, <2>3 DEF Link
  <2>5. a.link.addrs = addrs /\ a.link.v6 = l.v6 /\ a.link.st = l.st  BY <2>1 DEF Link
  <2>6. LinkOK(a.link)
    BY <2>3, <2>5 DEF LinkOK, AddrsOfFamily
  <2>7. a.errno = 0 /\ a.link.mtu = mtu /\ a.link.name = l.name  BY <2>1 DEF Link
  <2> QED  BY <2>4, <2>5, <2>6, <2>7
<1>3. mtu \in Nat /\ MtuLimit \in Nat  BY RtnlAssumption
<1> QED  BY <1>1, <1>2
-----------------------------------------------------------------------------
(* Types *)

\* What the kernel may answer to the request of a call.
LEMMA AnswersFit ==
  ASSUME links \in [Indexes -> Link], KernelOK(links),
         NEW c \in Call, InProgress(c), c.op \in ChangeOps, c.idx # 0,
         NEW a \in Answers(c)
  PROVE  /\ a.errno \in Int /\ a.errno # EPERM
         /\ a.errno = 0 =>
              /\ c.idx \in Here(links)
              /\ a.link \in Link /\ LinkOK(a.link)
              /\ a.link.st = "here" /\ a.link.name = links[c.idx].name
              /\ c.op # "set_mtu" => a.link # links[c.idx]
              /\ c.op = "set_mtu" => a.link.mtu = c.mtu
              /\ c.op = "set_ip_address" => Entry(c.addr) \in a.link.addrs
<1>1. CASE c.idx \notin Here(links)
  BY <1>1 DEF Answers, ENODEV, EPERM
<1>2. CASE c.idx \in Here(links)
  <2>0. c.idx \in Indexes /\ links[c.idx] \in Link  BY <1>2 DEF Here
  <2>a. PICK l \in Link : l = links[c.idx]  BY <2>0
  <2>1. l.st = "here" /\ LinkOK(l)
    BY <1>2, <2>0, <2>a DEF Here, KernelOK, LinkOK
  <2>2. Entry(c.addr) \in [raw : Raw, plen : Nat]
    <3>1. c.addr \in IpAddr  BY DEF Call
    <3>2. c.addr.raw \in Raw /\ c.addr.prefix \in Int  BY <3>1 DEF IpAddr
    <3>3. c.addr.prefix % 256 \in Nat  BY <3>2
    <3> QED  BY <3>2, <3>3 DEF Entry
  <2>3. CASE c.op = "set_mtu"
    <3>1. a \in SetLink(l, c.mtu, MtuFlags, MtuChange)  BY <1>2, <2>a, <2>3 DEF Answers
    <3>2. c.mtu \in Mtus  BY DEF Call
    <3>3. c.op # "set_ip_address"  BY <2>3
    <3> QED  BY <1>2, <2>a, <2>1, <2>3, <3>1, <3>2, <3>3, SetLinkAnswers DEF EPERM
  <2>4. CASE c.op = "set_ip_address"
    <3>1. a \in NewAddr(l, Entry(c.addr))  BY <1>2, <2>a, <2>4 DEF Answers
    <3>2. Entry(c.addr).plen <= MaxPrefix(Entry(c.addr).raw) => Entry(c.addr) \in Entries
      <4>1. PICK d \in Calls : d.op = c.op /\ d.addr = c.addr  BY DEF InProgress
      <4>3. d.op = "set_ip_address" /\ d.addr.prefix % 256 <= MaxPrefix(d.addr.raw) =>
              d.addr.prefix < 0 \/ d.addr.prefix % 256 \in PrefixLens
        BY NetIfaceAssumption
      <4>4. c.addr.prefix >= 0 /\ c.addr.prefix \in Int
        BY <2>4 DEF InProgress, Call, IpAddr
      <4>2. c.addr.prefix % 256 <= MaxPrefix(c.addr.raw) => c.addr.prefix % 256 \in PrefixLens
        BY <2>4, <4>1, <4>3, <4>4
      <4>5. Entry(c.addr).raw = c.addr.raw /\ Entry(c.addr).plen = c.addr.prefix % 256
        BY DEF Entry
      <4>6. c.addr.raw \in Raw  BY DEF Call, IpAddr
      <4>7. Entry(c.addr).plen <= MaxPrefix(Entry(c.addr).raw) =>
              Entry(c.addr) \in [raw : Raw, plen : PrefixLens]
        BY <4>2, <4>5, <4>6 DEF Entry
      <4> QED  BY <4>7 DEF Entries
    <3> QED  BY <1>2, <2>a, <2>1, <2>2, <2>4, <3>1, <3>2, NewAddrAnswers DEF EPERM
  <2>5. CASE c.op = "del_ip_address"
    <3>1. a \in DelAddr(l, Entry(c.addr))  BY <1>2, <2>a, <2>5 DEF Answers
    <3> QED  BY <1>2, <2>a, <2>1, <2>5, <3>1, DelAddrAnswers DEF EPERM
  <2> QED  BY <2>3, <2>4, <2>5 DEF ChangeOps
<1> QED  BY <1>1, <1>2

\* A well formed link may take the place of one that bears its name.
LEMMA Replaced ==
  ASSUME NEW ls \in [Indexes -> Link], KernelOK(ls), NEW i \in Indexes,
         NEW l \in Link, LinkOK(l),
         l.st = "here" => \A j \in Here(ls) : ls[j].name = l.name => j = i
  PROVE  /\ [ls EXCEPT ![i] = l] \in [Indexes -> Link]
         /\ KernelOK([ls EXCEPT ![i] = l])
<1> DEFINE new == [ls EXCEPT ![i] = l]
<1>1. new \in [Indexes -> Link]  OBVIOUS
<1>2. \A j \in Indexes : new[j] = IF j = i THEN l ELSE ls[j]  OBVIOUS
<1>3. \A j \in DOMAIN new : LinkOK(new[j])
  BY <1>1, <1>2 DEF KernelOK, LinkOK
<1>4. \A j, k \in Here(new) : new[j].name = new[k].name => j = k
  BY <1>1, <1>2 DEF KernelOK, Here
<1> HIDE DEF new
<1>5. KernelOK(new)  BY <1>3, <1>4 DEF KernelOK, LinkOK
<1> QED  BY <1>1, <1>5 DEF new

LEMMA RecordType ==
  ASSUME TypeOK, links' \in [Indexes -> Link], NEW actor, Record(actor)
  PROVE  hist' \in [Procs -> History]
<1> SUFFICES ASSUME NEW p \in Procs PROVE Recorded(p, actor) \in History
  BY DEF Record
<1>1. \A ls, n : ls \in [Indexes -> Link] => Bearers(ls, n) \subseteq Indexes
  BY DEF Bearers, Here
<1>2. hist[p] \in History  BY DEF TypeOK
<1>3. CASE p = actor /\ Idle(p)
  <2>1. Recorded(p, actor) = NewHistory(call'[p], links', nic'[p])  BY <1>3 DEF Recorded
  <2> DEFINE holds == GoalHolds(call'[p], links', nic'[p], Bearers(links', nic'[p]))
  <2>2. Bearers(links', nic'[p]) \subseteq Indexes  BY <1>1
  <2>3. holds \in BOOLEAN  BY DEF GoalHolds
  <2>4. Recorded(p, actor) = [quiet |-> TRUE, changes |-> 0, named |-> Bearers(links', nic'[p]),
                              first |-> holds, held |-> holds]
    BY <2>1 DEF NewHistory
  <2> HIDE DEF holds
  <2> QED  BY <2>2, <2>3, <2>4 DEF History
<1>4. CASE ~ (p = actor /\ Idle(p))
  <2> DEFINE named == IF Idle(p) THEN hist[p].named ELSE hist[p].named \cup Bearers(links', nic[p])
             moved == links' # links
  <2> DEFINE quiet == hist[p].quiet /\ (moved => p = actor)
             held == hist[p].held \/ (~ Idle(p) /\ GoalHolds(call[p], links', nic[p], named))
             changes == hist[p].changes + (IF moved /\ p = actor THEN 1 ELSE 0)
  <2>1. Recorded(p, actor) =
          [quiet |-> quiet, first |-> hist[p].first, held |-> held,
           named |-> named, changes |-> changes]
    BY <1>4 DEF Recorded
  <2>2. named \in SUBSET Indexes  BY <1>1, <1>2 DEF History
  <2>3. quiet \in BOOLEAN /\ held \in BOOLEAN  OBVIOUS
  <2>4. changes \in Nat /\ hist[p].first \in BOOLEAN  BY <1>2 DEF History
  <2> HIDE DEF named, moved, quiet, held, changes
  <2> QED  BY <2>1, <2>2, <2>3, <2>4 DEF History
<1> QED  BY <1>3, <1>4

\* A step of a caller that leaves its call well formed, and the configuration,
\* keeps every type.
LEMMA CallerStep ==
  ASSUME TypeOK, NEW p \in Procs, NEW c \in Call,
         call' = [call EXCEPT ![p] = c],
         c.stage = "idle" => c.idx = 0,
         c.late => c.stage = "verify",
         nic' \in [Procs -> Names \cup {""}],
         \A q \in Procs \ {p} : nic'[q] = nic[q],
         c.stage # "idle" => nic'[p] \in Names /\ InProgress(c),
         links' \in [Indexes -> Link], KernelOK(links'),
         out' \in [Procs -> Outcome],
         Record(p)
  PROVE  TypeOK'
<1>1. call' \in [Procs -> Call]  BY DEF TypeOK
<1>2. hist' \in [Procs -> History]  BY RecordType
<1>3. ASSUME NEW q \in Procs
      PROVE  /\ Idle(q)' => call'[q].idx = 0
             /\ call'[q].late => call'[q].stage = "verify"
             /\ ~ Idle(q)' => nic'[q] \in Names /\ InProgress(call'[q])
  <2>1. CASE q = p
    <3>1. call'[q] = c  BY <2>1 DEF TypeOK
    <3> QED  BY <3>1, <2>1 DEF Idle
  <2>2. CASE q # p
    <3>1. call'[q] = call[q] /\ nic'[q] = nic[q]  BY <2>2 DEF TypeOK
    <3> QED  BY <3>1, <2>2 DEF Idle, TypeOK
  <2> QED  BY <2>1, <2>2
<1> QED  BY <1>1, <1>2, <1>3 DEF TypeOK

\* The same of a step of a call in progress, which keeps its arguments.
LEMMA ProgressStep ==
  ASSUME TypeOK, NEW p \in Procs, ~ Idle(p),
         NEW stage \in Stages, NEW idx \in Indexes \cup {NotFound, 0}, NEW late \in BOOLEAN,
         call' = [call EXCEPT ![p] = [call[p] EXCEPT !.stage = stage, !.idx = idx, !.late = late]],
         stage = "idle" => idx = 0,
         late => stage = "verify",
         nic' = nic,
         links' \in [Indexes -> Link], KernelOK(links'),
         out' \in [Procs -> Outcome],
         Record(p)
  PROVE  TypeOK'
<1> DEFINE c == [call[p] EXCEPT !.stage = stage, !.idx = idx, !.late = late]
<1>1. call[p] \in Call  BY DEF TypeOK
<1>2. c \in Call  BY <1>1 DEF Call
<1>3. /\ c.op = call[p].op /\ c.addr = call[p].addr /\ c.mtu = call[p].mtu /\ c.fam = call[p].fam
      /\ c.stage = stage /\ c.idx = idx /\ c.late = late
  BY <1>1 DEF Call
<1>4. InProgress(c) /\ nic[p] \in Names  BY <1>3 DEF TypeOK, InProgress
<1>5. call' = [call EXCEPT ![p] = c]  OBVIOUS
<1>6. nic' \in [Procs -> Names \cup {""}]  BY DEF TypeOK
<1> HIDE DEF c
<1> QED  BY <1>2, <1>3, <1>4, <1>5, <1>6, CallerStep

\* Goto, and what ends a call, are such steps.
LEMMA GotoStep ==
  ASSUME TypeOK, NEW p \in Procs, ~ Idle(p), NEW stage \in Stages \ {"idle"},
         Goto(p, stage), call[p].late => stage = "verify",
         nic' = nic, links' \in [Indexes -> Link], KernelOK(links'), out' = out, Record(p)
  PROVE  TypeOK'
<1>1. call[p] \in Call /\ call \in [Procs -> Call]  BY DEF TypeOK
<1>2. call' = [call EXCEPT ![p] = [call[p] EXCEPT !.stage = stage, !.idx = 0, !.late = call[p].late]]
  BY <1>1 DEF Goto, Call
<1>3. call[p].late \in BOOLEAN  BY <1>1 DEF Call
<1>4. out' \in [Procs -> Outcome]  BY DEF TypeOK
<1> QED  BY <1>2, <1>3, <1>4, ProgressStep

LEMMA FinishStep ==
  ASSUME TypeOK, NEW p \in Procs, ~ Idle(p),
         NEW kind \in Kinds, NEW val \in Int, NEW addrs \in SUBSET IpAddr,
         Finish(p, kind, val, addrs),
         nic' = nic, links' \in [Indexes -> Link], KernelOK(links'), Record(p)
  PROVE  TypeOK'
<1>1. call[p] \in Call /\ call \in [Procs -> Call]  BY DEF TypeOK
<1>2. call' = [call EXCEPT ![p] = [call[p] EXCEPT !.stage = "idle", !.idx = 0, !.late = FALSE]]
  BY <1>1 DEF Finish, Call
<1>3. out' \in [Procs -> Outcome]  BY DEF Finish, TypeOK, Outcome
<1>4. "idle" \in Stages  BY DEF Stages
<1> QED  BY <1>2, <1>3, <1>4, ProgressStep

LEMMA ListedType ==
  ASSUME TypeOK, NEW idx, NEW fam PROVE ListedOf(idx, fam) \subseteq IpAddr
<1>1. \A r \in Raw, n \in Nat : FromString(r, n) \in IpAddr
  BY DEF FromString, IpAddr, ScopeOf
<1>2. CASE idx \in Here(links)
  <2>1. links[idx] \in Link  BY <1>2 DEF Here, TypeOK
  <2>2. \A e \in links[idx].addrs : e.raw \in Raw /\ e.plen \in Nat
    BY <2>1, RtnlAssumption DEF Link, Entries
  <2> QED  BY <1>1, <1>2, <2>2 DEF ListedOf
<1> QED  BY <1>2 DEF ListedOf

LEMMA IndexInt == \A i \in Indexes \cup {NotFound, 0} : i \in Int
<1>1. NotFound \in Int  BY DEF NotFound
<1>2. \A i \in Indexes : i \in Int  BY RtnlAssumption
<1> QED  BY <1>1, <1>2

LEMMA NoIndex == NotFound \notin Indexes /\ 0 \notin Indexes /\ NotFound # 0
<1>1. NotFound \notin Nat /\ NotFound # 0  BY DEF NotFound
<1> QED  BY <1>1, RtnlAssumption

\* What a transaction that fails makes of the call.
LEMMA FailureKinds ==
  /\ \A e \in Failures : e \in Int
  /\ \A e : Thrown(e) \in {"netex", "denied"}
<1>1. \A e \in Failures : e \in Int
  <2>1. EPERM \in Int /\ EACCES \in Int  BY DEF EPERM, EACCES
  <2>2. \A e \in Failures : e \in {0, EPERM, EACCES}  BY NetIfaceAssumption
  <2> QED  BY <2>1, <2>2
<1>2. \A e : Thrown(e) \in {"netex", "denied"}  BY DEF Thrown
<1> QED  BY <1>1, <1>2

LEMMA ActionTypes ==
  ASSUME TypeOK, NEW p \in Procs
  PROVE  /\ \A n \in Names : Open(p, n) => TypeOK'
         /\ \A c \in Calls : Begin(p, c) => TypeOK'
         /\ GetIndex(p) \/ Discard(p) \/ Check(p) \/ Verify(p) \/ Read(p) => TypeOK'
         /\ Expire(p) \/ Refused(p) => TypeOK'
<1> USE DEF Stages, Kinds
<1>1. /\ call[p] \in Call /\ call \in [Procs -> Call] /\ out \in [Procs -> Outcome]
      /\ links \in [Indexes -> Link] /\ KernelOK(links)
      /\ call[p].op \in Ops \cup {"open"} /\ call[p].idx \in Indexes \cup {NotFound, 0}
      /\ call[p].late \in BOOLEAN /\ (call[p].late => call[p].stage = "verify")
  BY DEF TypeOK, Call
<1>2. UNCHANGED links => links' \in [Indexes -> Link] /\ KernelOK(links')
  BY <1>1
<1>3. IndexOf(links, nic[p]) \in Indexes \cup {NotFound}
  BY <1>1 DEF IndexOf, Bearers, Here
<1>4. ASSUME NEW n \in Names, Open(p, n) PROVE TypeOK'
  <2> DEFINE c == [call[p] EXCEPT !.op = "open"]
  <2>1. c \in Call  BY <1>1 DEF Call
  <2>2. c.stage = "idle" /\ c.idx = call[p].idx /\ c.late = call[p].late
    BY <1>1, <1>4 DEF Call, Open, Idle
  <2>3. c.idx = 0 /\ ~ c.late  BY <1>1, <1>4, <2>2 DEF Open, Idle, TypeOK
  <2>4. call' = [call EXCEPT ![p] = c]  BY <1>1, <1>4 DEF Open
  <2>5. /\ nic' \in [Procs -> Names \cup {""}] /\ out' \in [Procs -> Outcome]
        /\ \A q \in Procs \ {p} : nic'[q] = nic[q]
    <3>1. \A kind \in Kinds, val \in Int : [kind |-> kind, val |-> val, addrs |-> {}] \in Outcome
      BY DEF Outcome
    <3>2. out' \in [Procs -> Outcome]  BY <1>1, <1>4, <3>1, FailureKinds DEF Open
    <3>3. nic \in [Procs -> Names \cup {""}]  BY DEF TypeOK
    <3>4. nic' = nic \/ nic' = [nic EXCEPT ![p] = n]  BY <1>4 DEF Open
    <3> QED  BY <3>2, <3>3, <3>4
  <2>6. links' \in [Indexes -> Link] /\ KernelOK(links') /\ Record(p)
    BY <1>2, <1>4 DEF Open
  <2> HIDE DEF c
  <2> QED  BY <2>1, <2>2, <2>3, <2>4, <2>5, <2>6, CallerStep
<1>5. ASSUME NEW c \in Calls, Begin(p, c) PROVE TypeOK'
  <2>1. c \in [op : Ops, addr : IpAddr, mtu : Mtus, fam : Families]  BY NetIfaceAssumption
  <2>2. PICK stage \in Stages : /\ call' = [call EXCEPT ![p] = Started(c, stage)]
                                /\ stage # "idle" => ~ BadPrefix(c)
    BY <1>5, <2>1 DEF Begin, FirstStage, Ops, ChangeOps, ReadOps
  <2>3. Started(c, stage) \in Call  BY <2>1 DEF Started, Call
  <2>4. stage # "idle" => InProgress(Started(c, stage))
    <3>1. c = [op |-> c.op, addr |-> c.addr, mtu |-> c.mtu, fam |-> c.fam]  BY <2>1
    <3>2. c.addr.prefix \in Int  BY <2>1 DEF IpAddr
    <3>3. stage # "idle" /\ c.op = "set_ip_address" => c.addr.prefix >= 0
      BY <2>2, <3>2 DEF BadPrefix
    <3> QED  BY <3>1, <3>3 DEF InProgress, Started
  <2>5. out' \in [Procs -> Outcome]  BY <1>1, <1>5 DEF Begin, Outcome
  <2>6. nic' = nic /\ nic[p] \in Names /\ nic \in [Procs -> Names \cup {""}]
    BY <1>5 DEF Begin, TypeOK
  <2>7. Started(c, stage).idx = 0 /\ ~ Started(c, stage).late /\ Started(c, stage).stage = stage
    BY DEF Started
  <2>8. links' \in [Indexes -> Link] /\ KernelOK(links') /\ Record(p)
    BY <1>2, <1>5 DEF Begin
  <2> QED  BY <2>2, <2>3, <2>4, <2>5, <2>6, <2>7, <2>8, CallerStep
<1>6. ASSUME GetIndex(p) PROVE TypeOK'
  <2>1. CASE Return(p, IndexOf(links, nic[p]))
    <3>1. IndexOf(links, nic[p]) \in Int
      BY <1>3, IndexInt
    <3> QED  BY <1>2, <1>6, <2>1, <3>1, FinishStep DEF GetIndex, Return
  <2>2. CASE call' = [call EXCEPT ![p].idx = IndexOf(links, nic[p])] /\ UNCHANGED out
    <3> DEFINE i == IndexOf(links, nic[p])
    <3> HIDE DEF i
    <3> HIDE DEF Stages
    <3>1. call' = [call EXCEPT ![p] = [call[p] EXCEPT !.stage = call[p].stage, !.idx = i,
                                                      !.late = call[p].late]]
      BY <1>1, <2>2 DEF Call, i
    <3>2. call[p].stage \in Stages  BY <1>1 DEF Call
    <3>3. ~ Idle(p) /\ call[p].stage # "idle" /\ Record(p) /\ UNCHANGED <<links, nic>>
      BY <1>6 DEF GetIndex, Idle
    <3>4. i \in Indexes \cup {NotFound, 0}  BY <1>3 DEF i
    <3>5. out' \in [Procs -> Outcome]  BY <1>1, <2>2
    <3>6. links' \in [Indexes -> Link] /\ KernelOK(links') /\ nic' = nic  BY <1>2, <3>3
    <3>7. call[p].late \in BOOLEAN /\ (call[p].late => call[p].stage = "verify")  BY <1>1
    <3> QED  BY <3>1, <3>2, <3>3, <3>4, <3>5, <3>6, <3>7, ProgressStep
  <2> QED  BY <1>6, <2>1, <2>2 DEF GetIndex
<1>7. ASSUME Discard(p) PROVE TypeOK'
  BY <1>1, <1>2, <1>7, GotoStep DEF Discard, Idle
<1>8. ASSUME Check(p) PROVE TypeOK'
  <2>1. ~ Idle(p) /\ ~ call[p].late /\ Record(p) /\ UNCHANGED <<links, nic>>
    BY <1>1, <1>8 DEF Check, Idle
  <2>2. CASE Return(p, 0)  BY <1>2, <2>1, <2>2, FinishStep DEF Return
  <2>3. CASE Goto(p, "act") /\ UNCHANGED out  BY <1>2, <2>1, <2>3, GotoStep
  <2> QED  BY <1>8, <2>2, <2>3 DEF Check
<1>9. ASSUME Verify(p) PROVE TypeOK'
  <2>1. ~ Idle(p) /\ Record(p) /\ UNCHANGED <<links, nic>>
    BY <1>9 DEF Verify, Idle
  <2>2. CASE Return(p, 0)  BY <1>2, <2>1, <2>2, FinishStep DEF Return
  <2>3. CASE Finish(p, "timeout", 0, {})  BY <1>2, <2>1, <2>3, FinishStep
  <2>4. CASE Goto(p, RetryFrom) /\ UNCHANGED out
    BY <1>2, <2>1, <2>4, GotoStep DEF RetryFrom
  <2> QED  BY <1>9, <2>2, <2>3, <2>4 DEF Verify
<1>10. ASSUME Read(p) PROVE TypeOK'
  <2>1. ~ Idle(p) /\ Record(p) /\ UNCHANGED <<links, nic>>
    BY <1>10 DEF Read, Idle
  <2>2. ASSUME NEW m \in MtuRead(call[p].idx), Return(p, m) PROVE TypeOK'
    <3>1. m \in Mtus  BY <1>1, <2>2 DEF MtuRead, Here, Link
    <3>2. m \in Int  BY <3>1, RtnlAssumption
    <3> QED  BY <1>2, <2>1, <2>2, <3>2, FinishStep DEF Return
  <2>3. CASE Return(p, MacRead(call[p].idx))
    <3>1. MacRead(call[p].idx) \in Int
      BY <1>1, IndexInt DEF MacRead, Here
    <3> QED  BY <1>2, <2>1, <2>3, <3>1, FinishStep DEF Return
  <2>4. CASE Finish(p, "ok", 0, ListedOf(call[p].idx, call[p].fam))
    <3>1. ListedOf(call[p].idx, call[p].fam) \in SUBSET IpAddr  BY ListedType
    <3> HIDE DEF Finish
    <3> QED  BY <1>2, <2>1, <2>4, <3>1, FinishStep
  <2> QED  BY <1>10, <2>2, <2>3, <2>4 DEF Read
<1>11. ASSUME Expire(p) PROVE TypeOK'
  <2>1. call' = [call EXCEPT ![p] = [call[p] EXCEPT !.stage = call[p].stage, !.idx = call[p].idx,
                                                    !.late = TRUE]]
    BY <1>1, <1>11 DEF Call, Expire
  <2>2. /\ ~ Idle(p) /\ call[p].stage = "verify" /\ call[p].stage # "idle"
        /\ Record(p) /\ UNCHANGED <<links, nic, out>>
    BY <1>11 DEF Expire, Idle
  <2>3. out' \in [Procs -> Outcome] /\ call[p].stage \in Stages  BY <1>1, <2>2
  <2> QED  BY <1>1, <1>2, <2>1, <2>2, <2>3, ProgressStep
<1>12. ASSUME Refused(p) PROVE TypeOK'
  <2>1. PICK e \in Failures : Finish(p, Thrown(e), e, {})  BY <1>12 DEF Refused, Throw
  <2>2. ~ Idle(p) /\ Record(p) /\ UNCHANGED <<links, nic>>  BY <1>12 DEF Refused
  <2>3. e \in Int /\ Thrown(e) \in Kinds  BY FailureKinds
  <2> QED  BY <1>2, <2>1, <2>2, <2>3, FinishStep
<1> QED  BY <1>4, <1>5, <1>6, <1>7, <1>8, <1>9, <1>10, <1>11, <1>12

\* The actions that change a link.
LEMMA ChangeTypes ==
  ASSUME TypeOK, NEW p \in Procs, Act(p) \/ AnswerLost(p), call[p].op \in ChangeOps
  PROVE  TypeOK'
<1>1. /\ call[p] \in Call /\ call \in [Procs -> Call] /\ links \in [Indexes -> Link]
      /\ KernelOK(links) /\ InProgress(call[p]) /\ ~ Idle(p) /\ call[p].idx # 0
      /\ call[p].stage = "act" /\ ~ call[p].late
  BY DEF TypeOK, Act, AnswerLost, Idle
<1>2. ASSUME NEW a \in Answers(call[p]), a.errno = 0,
             links' = [links EXCEPT ![call[p].idx] = a.link]
      PROVE  links' \in [Indexes -> Link] /\ KernelOK(links')
  <2>1. /\ call[p].idx \in Here(links) /\ a.link \in Link /\ LinkOK(a.link)
        /\ a.link.name = links[call[p].idx].name
    BY <1>1, <1>2, AnswersFit
  <2>2. call[p].idx \in Indexes  BY <1>1, <2>1 DEF Here
  <2>3. \A j \in Here(links) : links[j].name = a.link.name => j = call[p].idx
    BY <1>1, <2>1 DEF KernelOK
  <2> QED  BY <1>1, <1>2, <2>1, <2>2, <2>3, Replaced
<1>3. \A a \in Answers(call[p]) : a.errno \in Int  BY <1>1, AnswersFit
<1>4. UNCHANGED links => links' \in [Indexes -> Link] /\ KernelOK(links')  BY <1>1
<1>5. CASE Act(p)
  <2>1. nic' = nic /\ Record(p)  BY <1>5 DEF Act
  <2>2. PICK a \in Answers(call[p]) :
          \/ /\ a.errno = 0
             /\ links' = [links EXCEPT ![call[p].idx] = a.link]
             /\ Goto(p, "verify")
             /\ UNCHANGED out
          \/ /\ a.errno # 0
             /\ Throw(p, a.errno)
             /\ UNCHANGED links
    BY <1>5 DEF Act
  <2>3. CASE a.errno = 0
    <3>1. links' \in [Indexes -> Link] /\ KernelOK(links')  BY <1>2, <2>2, <2>3
    <3>2. "verify" \in Stages \ {"idle"}  BY DEF Stages
    <3> QED  BY <1>1, <2>1, <2>2, <2>3, <3>1, <3>2, GotoStep
  <2>4. CASE a.errno # 0
    <3>1. links' \in [Indexes -> Link] /\ KernelOK(links')  BY <1>4, <2>2, <2>4
    <3>2. PICK kind \in Kinds : Finish(p, kind, a.errno, {})
      BY <2>2, <2>4 DEF Throw, Thrown, Kinds
    <3>3. {} \in SUBSET IpAddr /\ a.errno \in Int  BY <1>3
    <3> QED  BY <1>1, <2>1, <3>1, <3>2, <3>3, FinishStep
  <2> QED  BY <2>3, <2>4
<1>6. CASE AnswerLost(p)
  <2>1. nic' = nic /\ Record(p)  BY <1>6 DEF AnswerLost
  <2>2. links' \in [Indexes -> Link] /\ KernelOK(links')  BY <1>2, <1>6 DEF AnswerLost
  <2>3. PICK kind \in Kinds : Finish(p, kind, 0, {})
    BY <1>6 DEF AnswerLost, Throw, Thrown, EACCES, Kinds
  <2>4. {} \in SUBSET IpAddr /\ 0 \in Int  OBVIOUS
  <2> QED  BY <1>1, <2>1, <2>2, <2>3, <2>4, FinishStep
<1> QED  BY <1>5, <1>6

\* What others do leaves the configuration well formed, and calls alone.
LEMMA OthersKeep ==
  ASSUME TypeOK, NEW i \in Indexes, Others(i)
  PROVE  /\ links' \in [Indexes -> Link] /\ KernelOK(links')
         /\ UNCHANGED <<nic, call, out>> /\ Record("others")
<1>1. links \in [Indexes -> Link] /\ KernelOK(links) /\ links[i] \in Link /\ LinkOK(links[i])
  BY DEF TypeOK, KernelOK, LinkOK
<1>2. ASSUME NEW l, SetOthers(i, l), l \in Link, LinkOK(l),
             l.st = "here" => l.name \notin NamesInUse \/ (i \in Here(links) /\ l.name = links[i].name)
      PROVE  links' \in [Indexes -> Link] /\ KernelOK(links')
  <2>1. l.st = "here" => \A j \in Here(links) : links[j].name = l.name => j = i
    BY <1>1, <1>2 DEF NamesInUse, KernelOK
  <2>2. links' = [links EXCEPT ![i] = l]  BY <1>2 DEF SetOthers
  <2> QED  BY <1>1, <1>2, <2>1, <2>2, Replaced
<1>3. CASE OthersChangeAddr(i)
  <2>1. i \in Here(links) /\ links[i].st = "here"  BY <1>1, <1>3 DEF OthersChangeAddr, Here
  <2>0. PICK e \in Entries :
          \E a \in NewAddr(links[i], e) \cup DelAddr(links[i], e) :
            a.errno = 0 /\ SetOthers(i, a.link)
    BY <1>3 DEF OthersChangeAddr
  <2>2. PICK a \in NewAddr(links[i], e) \cup DelAddr(links[i], e) :
          a.errno = 0 /\ SetOthers(i, a.link)
    BY <2>0
  <2>3. e \in [raw : Raw, plen : Nat]  BY RtnlAssumption DEF Entries
  <2>4. a.link \in Link /\ LinkOK(a.link) /\ a.link.name = links[i].name
    <3>1. CASE a \in NewAddr(links[i], e)  BY <1>1, <2>1, <2>3, <3>1, NewAddrAnswers
    <3>2. CASE a \in DelAddr(links[i], e)  BY <1>1, <2>1, <3>2, DelAddrAnswers
    <3> QED  BY <2>2, <3>1, <3>2
  <2> QED  BY <1>2, <2>1, <2>2, <2>4 DEF SetOthers
<1>4. CASE OthersSetLink(i)
  <2>1. i \in Here(links) /\ links[i].st = "here"  BY <1>1, <1>4 DEF OthersSetLink, Here
  <2>2. PICK m \in Mtus, flags \in {{}, {"up"}} :
          \E a \in SetLink(links[i], m, flags, {"up"}) : a.errno = 0 /\ SetOthers(i, a.link)
    BY <1>4 DEF OthersSetLink
  <2>3. PICK a \in SetLink(links[i], m, flags, {"up"}) : SetOthers(i, a.link)  BY <2>2
  <2>4. a.link \in Link /\ LinkOK(a.link) /\ a.link.name = links[i].name
    BY <1>1, <2>1, SetLinkAnswers
  <2> QED  BY <1>2, <2>1, <2>3, <2>4 DEF SetOthers
<1>5. CASE OthersCreate(i)
  <2> DEFINE l == [links[i] EXCEPT !.st = "here"]
  <2>1. /\ l \in Link /\ l.st = "here" /\ l.name = links[i].name
        /\ l.addrs = links[i].addrs /\ l.v6 = links[i].v6
    BY <1>1 DEF Link
  <2>2. LinkOK(l)  BY <1>1, <2>1 DEF LinkOK, AddrsOfFamily
  <2>3. SetOthers(i, l) /\ links[i].name \notin NamesInUse  BY <1>5 DEF OthersCreate
  <2> HIDE DEF l
  <2> QED  BY <1>2, <2>1, <2>2, <2>3 DEF SetOthers
<1>6. CASE OthersRemove(i)
  <2> DEFINE l == [links[i] EXCEPT !.st = "gone", !.addrs = {}]
  <2>1. l \in Link /\ l.st = "gone" /\ l.addrs = {}  BY <1>1 DEF Link
  <2>2. LinkOK(l)  BY <2>1 DEF LinkOK, AddrsOfFamily
  <2>3. SetOthers(i, l)  BY <1>6 DEF OthersRemove
  <2> HIDE DEF l
  <2> QED  BY <1>2, <2>1, <2>2, <2>3 DEF SetOthers
<1>7. CASE OthersRename(i)
  <2>1. PICK n \in Names \ NamesInUse : SetOthers(i, [links[i] EXCEPT !.name = n])
    BY <1>7 DEF OthersRename
  <2> DEFINE l == [links[i] EXCEPT !.name = n]
  <2>2. /\ l \in Link /\ l.name = n /\ l.st = links[i].st
        /\ l.addrs = links[i].addrs /\ l.v6 = links[i].v6
    BY <1>1 DEF Link
  <2>3. LinkOK(l)  BY <1>1, <2>2 DEF LinkOK, AddrsOfFamily
  <2>4. SetOthers(i, l)  BY <2>1
  <2> HIDE DEF l
  <2> QED  BY <1>2, <2>1, <2>2, <2>3, <2>4 DEF SetOthers
<1> QED  BY <1>3, <1>4, <1>5, <1>6, <1>7 DEF Others
-----------------------------------------------------------------------------
(* What is recorded of a call *)

\* Inductive, for one caller.
CallOK(p) ==
  /\ Idle(p) /\ out[p].kind = "ok" /\ call[p].op \in ChangeOps => hist[p].held
  /\ Idle(p) =>
       /\ hist[p].changes <= 1
       /\ NamesConflict(out[p]) => hist[p].changes = 0
       /\ out[p].kind = "timeout" /\ call[p].op # "set_mtu" => hist[p].changes = 1
       /\ call[p].op \notin ChangeOps => hist[p].changes = 0 /\ out[p].kind # "timeout"
  /\ /\ Idle(p) /\ out[p].kind = "ok"
     /\ call[p].op \in {"get_mac_address", "get_index"}
     => out[p].val \in hist[p].named \cup {0, NotFound}
  /\ ~ Idle(p) => InCall(p)

LEMMA InductiveByCaller == Inductive <=> TypeOK /\ \A p \in Procs : CallOK(p)
BY DEF Inductive, CallOK, OkMeansAchieved, OutcomeAccounts, ReadsNamedLink

LEMMA RecordedOf ==
  ASSUME TypeOK, NEW p \in Procs, NEW actor, Record(actor)
  PROVE  /\ ~ Idle(p) =>
              /\ hist'[p].named = hist[p].named \cup Bearers(links', nic[p])
              /\ hist'[p].changes = hist[p].changes + (IF links' # links /\ p = actor THEN 1 ELSE 0)
              /\ hist'[p].held <=> hist[p].held \/ GoalHolds(call[p], links', nic[p], hist'[p].named)
         /\ Idle(p) /\ p # actor =>
              /\ hist'[p].named = hist[p].named
              /\ hist'[p].changes = hist[p].changes
              /\ hist'[p].held <=> hist[p].held
         /\ Idle(p) /\ p = actor => hist'[p] = NewHistory(call'[p], links', nic'[p])
<1>1. hist'[p] = Recorded(p, actor)  BY DEF Record
<1>2. hist[p] \in History /\ hist[p].changes \in Nat  BY DEF TypeOK, History
<1> DEFINE named == IF Idle(p) THEN hist[p].named ELSE hist[p].named \cup Bearers(links', nic[p])
           moved == links' # links
           quiet == hist[p].quiet /\ (moved => p = actor)
           holds == ~ Idle(p) /\ GoalHolds(call[p], links', nic[p], named)
           held == hist[p].held \/ holds
           changes == hist[p].changes + (IF moved /\ p = actor THEN 1 ELSE 0)
<1>3. ASSUME ~ (p = actor /\ Idle(p))
      PROVE  /\ hist'[p].named = named
             /\ hist'[p].changes = changes
             /\ hist'[p].held <=> hist[p].held \/ holds
  <2>1. Recorded(p, actor) =
          [quiet |-> quiet, first |-> hist[p].first, held |-> held,
           named |-> named, changes |-> changes]
    BY <1>3 DEF Recorded
  <2> HIDE DEF named, moved, quiet, held, changes, holds
  <2>2. hist'[p].named = named /\ hist'[p].changes = changes /\ hist'[p].held = held
    BY <1>1, <2>1
  <2>3. hist'[p].held <=> hist[p].held \/ holds  BY <2>2, Zenon DEF held
  <2> QED  BY <2>2, <2>3
<1>4. CASE ~ Idle(p)
  <2>1. named = hist[p].named \cup Bearers(links', nic[p])  BY <1>4
  <2> HIDE DEF named
  <2> QED  BY <1>3, <1>4, <2>1
<1>6. CASE Idle(p) /\ p # actor
  <2>1. ~ holds /\ named = hist[p].named /\ changes = hist[p].changes
    BY <1>2, <1>6
  <2> HIDE DEF named, changes, holds
  <2> QED  BY <1>3, <1>6, <2>1
<1>5. CASE Idle(p) /\ p = actor
  BY <1>1, <1>5 DEF Recorded
<1> QED  BY <1>4, <1>5, <1>6

\* Goals depend on what is asked only.
LEMMA GoalArguments ==
  ASSUME NEW c, NEW d, c.op = d.op, c.addr = d.addr, c.mtu = d.mtu, NEW ls, NEW n, NEW named
  PROVE  GoalHolds(c, ls, n, named) <=> GoalHolds(d, ls, n, named)
BY DEF GoalHolds, Goal

\* A step of another leaves what is known of a call true.
LEMMA Bystander ==
  ASSUME TypeOK, NEW p \in Procs, CallOK(p), NEW actor, p # actor, Record(actor),
         call'[p] = call[p], nic'[p] = nic[p], out'[p] = out[p]
  PROVE  CallOK(p)'
<1>1. Idle(p)' <=> Idle(p)  BY DEF Idle
<1>2. CASE Idle(p)
  <2>1. /\ hist'[p].named = hist[p].named /\ hist'[p].changes = hist[p].changes
        /\ hist'[p].held <=> hist[p].held
    BY <1>2, RecordedOf
  <2> QED  BY <1>1, <1>2, <2>1 DEF CallOK
<1>3. CASE ~ Idle(p)
  <2>1. /\ hist'[p].named = hist[p].named \cup Bearers(links', nic[p])
        /\ hist'[p].changes = hist[p].changes + 0
        /\ hist'[p].held <=> hist[p].held \/ GoalHolds(call[p], links', nic[p], hist'[p].named)
    BY <1>3, RecordedOf
  <2>2. hist[p].changes \in Nat  BY DEF TypeOK, History
  <2>3. hist'[p].changes = hist[p].changes  BY <2>1, <2>2
  <2>4. InCall(p)  BY <1>3 DEF CallOK
  <2>5. ChangesOnce(p)'  BY <2>3, <2>4 DEF InCall, ChangesOnce
  <2>6. NamesRecorded(p)'  BY <2>1, <2>4 DEF InCall, NamesRecorded
  <2>7. GoalRecorded(p)'  BY <2>1, <2>4 DEF InCall, GoalRecorded
  <2>8. InCall(p)'  BY <2>4, <2>5, <2>6, <2>7 DEF InCall
  <2> QED  BY <1>1, <1>3, <2>8 DEF CallOK
<1> QED  BY <1>2, <1>3

\* A step of a call that goes on.
LEMMA Proceeding ==
  ASSUME TypeOK, NEW p \in Procs, ~ Idle(p), InCall(p), Record(p), nic' = nic,
         call'[p].op = call[p].op, call'[p].addr = call[p].addr, call'[p].mtu = call[p].mtu,
         call'[p].stage # "idle",
         call'[p].stage \in StagesOf(call[p].op),
         call'[p].idx \in Indexes => call'[p].idx \in hist'[p].named,
         call[p].op = "del_ip_address" /\ call'[p].idx = NotFound => hist'[p].held,
         call[p].op = "set_mtu" /\ call'[p].stage = "verify" => hist'[p].held,
         ChangesOnce(p)'
  PROVE  CallOK(p)'
<1>1. /\ hist'[p].named = hist[p].named \cup Bearers(links', nic[p])
      /\ hist'[p].held <=> hist[p].held \/ GoalHolds(call[p], links', nic[p], hist'[p].named)
  BY RecordedOf
<1>2. NamesRecorded(p)'  BY <1>1 DEF NamesRecorded
<1>3. GoalHolds(call'[p], links', nic'[p], hist'[p].named) => hist'[p].held
  BY <1>1, GoalArguments
<1>4. GoalRecorded(p)'  BY <1>3 DEF GoalRecorded
<1>5. InCall(p)'  BY <1>2, <1>4 DEF InCall
<1> QED  BY <1>5 DEF CallOK, Idle

\* A step that ends a call.
LEMMA Finishing ==
  ASSUME TypeOK, NEW p \in Procs, ~ Idle(p), NEW kind, NEW val, NEW addrs,
         Finish(p, kind, val, addrs),
         kind = "ok" /\ call[p].op \in ChangeOps => hist'[p].held,
         hist'[p].changes <= 1,
         kind \in {"netex", "denied"} /\ val \notin Failures => hist'[p].changes = 0,
         kind = "timeout" /\ call[p].op # "set_mtu" => hist'[p].changes = 1,
         call[p].op \notin ChangeOps => hist'[p].changes = 0 /\ kind # "timeout",
         kind = "ok" /\ call[p].op \in {"get_mac_address", "get_index"} =>
           val \in hist'[p].named \cup {0, NotFound}
  PROVE  CallOK(p)'
<1>1. call[p] \in Call /\ call \in [Procs -> Call] /\ out \in [Procs -> Outcome]  BY DEF TypeOK
<1>2. call'[p].op = call[p].op /\ call'[p].stage = "idle"  BY <1>1 DEF Finish, Call
<1>3. out'[p] = [kind |-> kind, val |-> val, addrs |-> addrs]  BY <1>1 DEF Finish
<1>4. out'[p].kind = kind /\ out'[p].val = val  BY <1>3
<1> QED  BY <1>2, <1>4 DEF CallOK, Idle, NamesConflict
-----------------------------------------------------------------------------
(* What the tests of the methods see *)

\* An address that is listed is one of the link, with its prefix length.
LEMMA ListedIsThere ==
  ASSUME TypeOK, NEW idx, NEW a \in IpAddr, a.prefix >= 0
  PROVE  a \in Listed(idx) <=> idx \in Here(links) /\ Asked(a) \in links[idx].addrs
<1>1. CASE idx \notin Here(links)
  BY <1>1 DEF Listed, ListedOf
<1>2. CASE idx \in Here(links)
  <2>1. links[idx] \in Link  BY <1>2 DEF Here, TypeOK
  <2>2. \A e \in links[idx].addrs : e \in [raw : Raw, plen : Nat]
    BY <2>1, RtnlAssumption DEF Link, Entries
  <2>3. \A e \in links[idx].addrs : Selects(All, e.raw)
    BY DEF Selects, Has, All
  <2>4. Listed(idx) = {FromString(e.raw, e.plen) : e \in links[idx].addrs}
    BY <1>2, <2>3 DEF Listed, ListedOf
  <2>5. ASSUME NEW e \in links[idx].addrs
        PROVE  a = FromString(e.raw, e.plen) <=> Asked(a) = e
    <3>1. FromString(e.raw, e.plen) = [raw |-> e.raw, prefix |-> e.plen, scope |-> ScopeOf(e.raw)]
      BY <2>2 DEF FromString
    <3>2. e = [raw |-> e.raw, plen |-> e.plen]  BY <2>2
    <3>3. /\ a = [raw |-> a.raw, prefix |-> a.prefix, scope |-> a.scope]
          /\ a.scope = ScopeOf(a.raw)
      BY DEF IpAddr
    <3>4. CASE a.raw = e.raw /\ a.prefix = e.plen
      BY <3>1, <3>2, <3>3, <3>4 DEF Asked
    <3>5. CASE a.raw # e.raw \/ a.prefix # e.plen
      BY <3>1, <3>2, <3>5 DEF Asked
    <3> QED  BY <3>4, <3>5
  <2> QED  BY <1>2, <2>4, <2>5
<1> QED  BY <1>1, <1>2

\* Without prefix lengths, addresses are equal if the bare ones are.
LEMMA WithoutPrefixTells ==
  \A a, b : WithoutPrefix(a) = WithoutPrefix(b) <=> a.raw = b.raw
<1>1. \A a : WithoutPrefix(a).raw = a.raw  BY DEF WithoutPrefix, FromString
<1>2. ASSUME NEW a, NEW b, a.raw = b.raw PROVE WithoutPrefix(a) = WithoutPrefix(b)
  BY <1>2 DEF WithoutPrefix
<1> QED  BY <1>1, <1>2

\* An address that is not listed under any prefix length is not there.
LEMMA UnlistedIsAbsent ==
  ASSUME TypeOK, NEW idx \in Indexes, NEW a,
         \A x \in Listed(idx) : WithoutPrefix(x) # WithoutPrefix(a)
  PROVE  \A e \in links[idx].addrs : e.raw # a.raw
<1>1. CASE idx \notin Here(links)
  BY <1>1 DEF TypeOK, KernelOK, Here
<1>2. ASSUME idx \in Here(links), NEW e \in links[idx].addrs PROVE e.raw # a.raw
  <2>1. FromString(e.raw, e.plen) \in Listed(idx)
    BY <1>2 DEF Listed, ListedOf, Selects, Has, All
  <2>2. FromString(e.raw, e.plen).raw = e.raw  BY DEF FromString
  <2> QED  BY <2>1, <2>2, WithoutPrefixTells
<1> QED  BY <1>1, <1>2

LEMMA SetTest ==
  ASSUME TypeOK, NEW c \in Call, InProgress(c), c.op = "set_ip_address",
         AlreadySet(c.addr, Listed(c.idx))
  PROVE  c.idx \in Indexes /\ Goal(c, links[c.idx])
<1>1. c.addr \in IpAddr /\ c.addr.prefix >= 0  BY DEF Call, InProgress
<1>2. c.idx \in Here(links) /\ Asked(c.addr) \in links[c.idx].addrs
  BY <1>1, ListedIsThere DEF AlreadySet
<1> QED  BY <1>2 DEF Goal, Here, TypeOK

\* Either test of a deletion: the early return's, and WaitFor's.
LEMMA DelTest ==
  ASSUME TypeOK, NEW c \in Call, c.op = "del_ip_address", c.idx \in Indexes,
         \/ AlreadyDeleted(c.addr, Listed(c.idx))
         \/ WithoutPrefix(c.addr) \notin {WithoutPrefix(x) : x \in Listed(c.idx)}
  PROVE  Goal(c, links[c.idx])
<1>1. c.addr \in IpAddr /\ c.addr.raw \in Raw  BY DEF Call, IpAddr
<1>2. links[c.idx] \in Link  BY DEF TypeOK
<1>3. CASE \A x \in Listed(c.idx) : WithoutPrefix(x) # WithoutPrefix(c.addr)
  <2>1. \A e \in links[c.idx].addrs : e.raw # c.addr.raw  BY <1>3, UnlistedIsAbsent
  <2>2. Asked(c.addr).raw = c.addr.raw  BY DEF Asked
  <2>3. Asked(c.addr) \notin links[c.idx].addrs  BY <2>1, <2>2
  <2> QED  BY <1>1, <2>1, <2>3 DEF Goal, IsV4, IsV6
<1>4. CASE ~ IsV4(c.addr) /\ c.addr \notin Listed(c.idx)
  <2>1. Asked(c.addr) \notin links[c.idx].addrs
    <3>1. CASE c.idx \notin Here(links)  BY <3>1 DEF TypeOK, KernelOK, Here
    <3>2. CASE c.addr.prefix >= 0 /\ c.idx \in Here(links)
      BY <1>1, <1>4, <3>2, ListedIsThere
    <3>3. CASE ~ (c.addr.prefix >= 0)
      <4>1. \A e \in links[c.idx].addrs : e.plen \in Nat
        BY <1>2, RtnlAssumption DEF Link, Entries
      <4> QED  BY <3>3, <4>1 DEF Asked
    <3> QED  BY <3>1, <3>2, <3>3
  <2> QED  BY <1>1, <1>4, <2>1 DEF Goal, IsV4, IsV6
<1> QED  BY <1>3, <1>4 DEF AlreadyDeleted

\* What is true of the goal on the link a call has looked up is recorded.
LEMMA GoalIsHeld ==
  ASSUME TypeOK, NEW p \in Procs, ~ Idle(p), InCall(p), Record(p),
         call[p].idx \in Indexes, Goal(call[p], links'[call[p].idx])
  PROVE  hist'[p].held
<1>1. call[p].idx \in hist'[p].named  BY RecordedOf DEF InCall, NamesRecorded
<1>2. GoalHolds(call[p], links', nic[p], hist'[p].named)  BY <1>1 DEF GoalHolds
<1> QED  BY <1>2, RecordedOf

LEMMA HeldIsKept ==
  ASSUME TypeOK, NEW p \in Procs, ~ Idle(p), Record(p), hist[p].held
  PROVE  hist'[p].held
BY RecordedOf
-----------------------------------------------------------------------------
(* Every action keeps what is known of the caller's own call *)

LEMMA OpenKeeps ==
  ASSUME TypeOK, NEW p \in Procs, NEW n \in Names, Open(p, n)
  PROVE  CallOK(p)'
<1>1. call[p] \in Call /\ call \in [Procs -> Call] /\ out \in [Procs -> Outcome]  BY DEF TypeOK
<1>2. call'[p].op = "open" /\ call'[p].stage = "idle"  BY <1>1 DEF Open, Idle, Call
<1>3. out'[p].kind \in {"ok", "netex", "denied"}  BY <1>1 DEF Open, Thrown
<1>4. hist'[p].changes = 0
  <2>1. hist'[p] = NewHistory(call'[p], links', nic'[p])  BY RecordedOf DEF Open
  <2> QED  BY <2>1 DEF NewHistory
<1> QED  BY <1>2, <1>3, <1>4 DEF CallOK, Idle, ChangeOps

LEMMA BeginKeeps ==
  ASSUME TypeOK, NEW p \in Procs, NEW c \in Calls, Begin(p, c)
  PROVE  CallOK(p)'
<1>1. call \in [Procs -> Call] /\ out \in [Procs -> Outcome] /\ c.op \in Ops
  BY NetIfaceAssumption DEF TypeOK
<1>2. hist'[p] = NewHistory(call'[p], links', nic'[p])  BY RecordedOf DEF Begin
<1>3. /\ hist'[p].changes = 0 /\ hist'[p].named = Bearers(links', nic'[p])
      /\ GoalHolds(call'[p], links', nic'[p], hist'[p].named) => hist'[p].held
  BY <1>2 DEF NewHistory
<1>4. CASE ~ BadPrefix(c) /\ call' = [call EXCEPT ![p] = Started(c, FirstStage(c.op))]
  <2>1. /\ call'[p].op = c.op /\ call'[p].stage = FirstStage(c.op) /\ call'[p].idx = 0
    BY <1>1, <1>4 DEF Started
  <2>2. FirstStage(c.op) \in StagesOf(c.op) /\ FirstStage(c.op) \notin {"verify", "idle"}
    BY <1>1 DEF FirstStage, StagesOf, Ops, ChangeOps, ReadOps
  <2>3. 0 \notin Indexes /\ 0 # NotFound  BY NoIndex
  <2>4. ChangesOnce(p)'  BY <1>3, <2>1, <2>2 DEF ChangesOnce
  <2>5. NamesRecorded(p)'  BY <1>3, <2>1, <2>3 DEF NamesRecorded
  <2>6. GoalRecorded(p)'  BY <1>3, <2>1, <2>2, <2>3 DEF GoalRecorded
  <2>7. InCall(p)'  BY <2>1, <2>2, <2>4, <2>5, <2>6 DEF InCall
  <2> QED  BY <2>1, <2>2, <2>7 DEF CallOK, Idle
<1>5. CASE BadPrefix(c) /\ call' = [call EXCEPT ![p] = Started(c, "idle")]
           /\ out' = [out EXCEPT ![p] = [kind |-> "netex", val |-> 0, addrs |-> {}]]
  <2>1. call'[p].stage = "idle" /\ out'[p].kind = "netex"
    BY <1>1, <1>5 DEF Started
  <2> QED  BY <1>3, <2>1 DEF CallOK, Idle
<1> QED  BY <1>4, <1>5 DEF Begin

\* What the other steps of a call have to go by.
LEMMA CallInCourse ==
  ASSUME TypeOK, NEW p \in Procs, CallOK(p), ~ Idle(p), Record(p)
  PROVE  /\ InCall(p) /\ InProgress(call[p])
         /\ call[p] \in Call /\ call \in [Procs -> Call]
         /\ call[p].stage \in StagesOf(call[p].op)
         /\ hist[p].changes \in Nat
         /\ hist'[p].named = hist[p].named \cup Bearers(links', nic[p])
         /\ hist'[p].changes = hist[p].changes + (IF links' # links THEN 1 ELSE 0)
         /\ links' = links => hist'[p].changes = hist[p].changes
         /\ hist[p].held => hist'[p].held
<1>1. /\ call[p] \in Call /\ call \in [Procs -> Call] /\ InProgress(call[p])
      /\ hist[p] \in History
  BY DEF TypeOK
<1>2. InCall(p) /\ call[p].stage \in StagesOf(call[p].op)  BY DEF CallOK, InCall
<1>3. hist[p].changes \in Nat  BY <1>1 DEF History
<1>4. /\ hist'[p].named = hist[p].named \cup Bearers(links', nic[p])
      /\ hist'[p].changes = hist[p].changes + (IF links' # links THEN 1 ELSE 0)
      /\ hist[p].held => hist'[p].held
  BY RecordedOf
<1>5. links' = links => hist'[p].changes = hist[p].changes  BY <1>3, <1>4
<1> QED  BY <1>1, <1>2, <1>3, <1>4, <1>5

LEMMA GetIndexKeeps ==
  ASSUME TypeOK, NEW p \in Procs, CallOK(p), GetIndex(p)
  PROVE  CallOK(p)'
<1> DEFINE i == IndexOf(links, nic[p])
<1>1. ~ Idle(p) /\ Record(p) /\ links' = links /\ nic' = nic  BY DEF GetIndex
<1>2. /\ InCall(p) /\ call[p] \in Call /\ call \in [Procs -> Call]
      /\ call[p].stage \in StagesOf(call[p].op)
      /\ hist'[p].changes = hist[p].changes
      /\ hist'[p].named = hist[p].named \cup Bearers(links', nic[p])
      /\ hist[p].held => hist'[p].held
  BY <1>1, CallInCourse
<1>3. i \in Bearers(links', nic[p]) \/ (i = NotFound /\ Bearers(links', nic[p]) = {})
  BY <1>1 DEF IndexOf
<1> HIDE DEF i
<1>4. CASE call[p].stage = "index" /\ Return(p, i)
  <2>1. call[p].op = "get_index"
    BY <1>2, <1>4 DEF StagesOf, ReadOps
  <2>2. hist'[p].changes = 0  BY <1>2, <1>4 DEF InCall, ChangesOnce
  <2>3. i \in hist'[p].named \cup {0, NotFound}  BY <1>2, <1>3
  <2>4. call[p].op \notin ChangeOps  BY <2>1 DEF ChangeOps
  <2> QED  BY <1>1, <1>4, <2>2, <2>3, <2>4, Finishing DEF Return
<1>5. CASE call[p].stage # "index" /\ call' = [call EXCEPT ![p].idx = i]
  <2>1. /\ call'[p].op = call[p].op /\ call'[p].addr = call[p].addr /\ call'[p].mtu = call[p].mtu
        /\ call'[p].stage = call[p].stage /\ call'[p].idx = i
    BY <1>2, <1>5 DEF Call
  <2>2. i \in Indexes => i \in hist'[p].named
    BY <1>2, <1>3, NoIndex
  <2>3. call[p].op = "del_ip_address" /\ i = NotFound => hist'[p].held
    <3>1. NotFound \notin Bearers(links', nic[p])
      BY <1>1, NoIndex DEF Bearers, Here, TypeOK
    <3>2. call[p].op = "del_ip_address" /\ i = NotFound =>
            GoalHolds(call[p], links', nic[p], hist'[p].named)
      BY <1>3, <3>1 DEF GoalHolds
    <3> QED  BY <1>1, <3>2, RecordedOf
  <2>4. call[p].op = "set_mtu" /\ call[p].stage = "verify" => hist'[p].held
    BY <1>2 DEF InCall, GoalRecorded
  <2>5. ChangesOnce(p)'  BY <1>2, <2>1 DEF InCall, ChangesOnce
  <2>6. call[p].stage # "idle"  BY <1>1 DEF Idle
  <2> QED  BY <1>1, <1>2, <2>1, <2>2, <2>3, <2>4, <2>5, <2>6, Proceeding
<1> QED  BY <1>4, <1>5 DEF GetIndex, i

\* Goto loses the index, so that there is nothing to know of it.
LEMMA GotoKeeps ==
  ASSUME TypeOK, NEW p \in Procs, CallOK(p), ~ Idle(p), Record(p), nic' = nic,
         NEW stage \in StagesOf(call[p].op), stage # "idle", Goto(p, stage),
         hist'[p].changes <= 1,
         stage # "verify" => hist'[p].changes = 0,
         stage = "verify" /\ call[p].op # "set_mtu" => hist'[p].changes = 1,
         call[p].op = "set_mtu" /\ stage = "verify" => hist'[p].held
  PROVE  CallOK(p)'
<1>1. InCall(p) /\ call[p] \in Call /\ call \in [Procs -> Call]  BY CallInCourse
<1>2. /\ call'[p].op = call[p].op /\ call'[p].addr = call[p].addr /\ call'[p].mtu = call[p].mtu
      /\ call'[p].stage = stage /\ call'[p].idx = 0
  BY <1>1 DEF Goto, Call
<1>3. 0 \notin Indexes /\ 0 # NotFound  BY NoIndex
<1>4. ChangesOnce(p)'  BY <1>2 DEF ChangesOnce
<1> QED  BY <1>1, <1>2, <1>3, <1>4, Proceeding

LEMMA CheckKeeps ==
  ASSUME TypeOK, NEW p \in Procs, CallOK(p), Discard(p) \/ Check(p)
  PROVE  CallOK(p)'
<1>1. ~ Idle(p) /\ Record(p) /\ links' = links /\ nic' = nic /\ call[p].idx # 0
  BY DEF Discard, Check, Idle
<1>2. /\ InCall(p) /\ call[p] \in Call /\ call[p].stage \in StagesOf(call[p].op)
      /\ hist'[p].changes = hist[p].changes /\ InProgress(call[p])
      /\ hist[p].held => hist'[p].held
  BY <1>1, CallInCourse
<1>3. call[p].stage \in {"discard", "check"}  BY DEF Discard, Check
<1>4. hist'[p].changes = 0  BY <1>2, <1>3 DEF InCall, ChangesOnce
<1>5. call[p].op \in {"set_ip_address", "del_ip_address"}
  BY <1>2, <1>3 DEF StagesOf, ReadOps
<1>6. CASE Discard(p)
  <2>1. "check" \in StagesOf(call[p].op)  BY <1>5 DEF StagesOf, ReadOps
  <2> QED  BY <1>1, <1>4, <1>6, <2>1, GotoKeeps DEF Discard
<1>7. CASE Goto(p, "act")
  <2>1. "act" \in StagesOf(call[p].op)  BY <1>5 DEF StagesOf, ReadOps
  <2> QED  BY <1>1, <1>4, <1>5, <1>7, <2>1, GotoKeeps
<1>8. CASE NothingToDo(call[p]) /\ Return(p, 0)
  <2>1. ASSUME call[p].op = "set_ip_address" PROVE hist'[p].held
    <3>1. AlreadySet(call[p].addr, Listed(call[p].idx))
      BY <1>8, <2>1 DEF NothingToDo
    <3>2. call[p].idx \in Indexes /\ Goal(call[p], links[call[p].idx])
      BY <1>2, <2>1, <3>1, SetTest
    <3> QED  BY <1>1, <1>2, <3>2, GoalIsHeld
  <2>2. ASSUME call[p].op = "del_ip_address", call[p].idx \in Indexes PROVE hist'[p].held
    <3>1. AlreadyDeleted(call[p].addr, Listed(call[p].idx))
      BY <1>8, <2>2 DEF NothingToDo
    <3>2. Goal(call[p], links[call[p].idx])
      BY <1>2, <2>2, <3>1, DelTest
    <3> QED  BY <1>1, <1>2, <2>2, <3>2, GoalIsHeld
  <2>3. ASSUME call[p].op = "del_ip_address", call[p].idx = NotFound PROVE hist'[p].held
    BY <1>2, <2>3 DEF InCall, GoalRecorded
  <2>4. call[p].idx \in Indexes \cup {NotFound}  BY <1>1, <1>2 DEF Call
  <2>5. hist'[p].held  BY <1>5, <2>1, <2>2, <2>3, <2>4
  <2>6. call[p].op \in ChangeOps /\ call[p].op \notin {"get_mac_address", "get_index"}
    BY <1>5 DEF ChangeOps
  <2> QED  BY <1>1, <1>4, <1>8, <2>5, <2>6, Finishing DEF Return
<1> QED  BY <1>6, <1>7, <1>8 DEF Check

\* A call that has come to change something.
LEMMA ToAct ==
  ASSUME TypeOK, NEW p \in Procs, CallOK(p), call[p].stage = "act", Record(p)
  PROVE  /\ call[p].op \in ChangeOps /\ "verify" \in StagesOf(call[p].op)
         /\ ~ Idle(p) /\ hist[p].changes = 0 /\ InCall(p) /\ InProgress(call[p])
<1>1. ~ Idle(p)  BY DEF Idle
<1>2. InCall(p) /\ call[p].stage \in StagesOf(call[p].op) /\ InProgress(call[p])
  BY <1>1, CallInCourse
<1>3. call[p].op \in ChangeOps /\ "verify" \in StagesOf(call[p].op)
  BY <1>2 DEF StagesOf, ChangeOps, ReadOps
<1>4. hist[p].changes = 0  BY <1>2 DEF InCall, ChangesOnce
<1> QED  BY <1>1, <1>2, <1>3, <1>4

LEMMA ActKeeps ==
  ASSUME TypeOK, NEW p \in Procs, CallOK(p), Act(p)
  PROVE  CallOK(p)'
<1>1. Record(p) /\ nic' = nic /\ call[p].stage = "act" /\ call[p].idx # 0  BY DEF Act
<1>2. /\ call[p].op \in ChangeOps /\ "verify" \in StagesOf(call[p].op)
      /\ ~ Idle(p) /\ hist[p].changes = 0 /\ InCall(p) /\ InProgress(call[p])
  BY <1>1, ToAct
<1>3. /\ call[p] \in Call /\ links \in [Indexes -> Link] /\ KernelOK(links)
  BY DEF TypeOK
<1>4. /\ hist'[p].changes = (IF links' # links THEN 1 ELSE 0)
  BY <1>1, <1>2, CallInCourse
<1>5. PICK a \in Answers(call[p]) :
        \/ /\ a.errno = 0
           /\ links' = [links EXCEPT ![call[p].idx] = a.link]
           /\ Goto(p, "verify")
        \/ /\ a.errno # 0
           /\ Throw(p, a.errno)
           /\ UNCHANGED links
  BY DEF Act
<1>6. /\ a.errno \in Int /\ a.errno # EPERM
      /\ a.errno = 0 =>
           /\ call[p].idx \in Here(links)
           /\ call[p].op # "set_mtu" => a.link # links[call[p].idx]
           /\ call[p].op = "set_mtu" => a.link.mtu = call[p].mtu
  BY <1>1, <1>2, <1>3, AnswersFit
<1>7. CASE a.errno = 0
  <2>1. call[p].idx \in Indexes  BY <1>3, <1>6, <1>7 DEF Here
  <2>2. links'[call[p].idx] = a.link  BY <1>3, <1>5, <1>7, <2>1
  <2>3. call[p].op # "set_mtu" => hist'[p].changes = 1
    BY <1>4, <1>6, <1>7, <2>2
  <2>4. call[p].op = "set_mtu" => hist'[p].held
    <3>1. call[p].op = "set_mtu" => Goal(call[p], links'[call[p].idx])
      BY <1>6, <1>7, <2>2 DEF Goal
    <3> QED  BY <1>1, <1>2, <2>1, <3>1, GoalIsHeld
  <2>5. hist'[p].changes <= 1  BY <1>4
  <2>6. Goto(p, "verify")  BY <1>5, <1>7
  <2> QED  BY <1>1, <1>2, <2>3, <2>4, <2>5, <2>6, GotoKeeps
<1>8. CASE a.errno # 0
  <2>1. hist'[p].changes = 0  BY <1>4, <1>5, <1>8
  <2>2. PICK kind \in {"denied", "netex"} : Finish(p, kind, a.errno, {})
    BY <1>5, <1>8 DEF Throw, Thrown
  <2> QED  BY <1>2, <2>1, <2>2, Finishing
<1> QED  BY <1>7, <1>8

LEMMA VerifyKeeps ==
  ASSUME TypeOK, NEW p \in Procs, CallOK(p), Verify(p)
  PROVE  CallOK(p)'
<1>1. /\ ~ Idle(p) /\ Record(p) /\ links' = links /\ nic' = nic
      /\ call[p].idx # 0 /\ call[p].stage = "verify"
  BY DEF Verify, Idle
<1>2. /\ InCall(p) /\ call[p] \in Call /\ call[p].stage \in StagesOf(call[p].op)
      /\ hist'[p].changes = hist[p].changes /\ InProgress(call[p])
      /\ hist[p].held => hist'[p].held
  BY <1>1, CallInCourse
<1>3. call[p].op \in ChangeOps /\ call[p].op \notin {"get_mac_address", "get_index"}
  BY <1>1, <1>2 DEF StagesOf, ReadOps, ChangeOps
<1>4. /\ hist'[p].changes <= 1
      /\ call[p].op # "set_mtu" => hist'[p].changes = 1
  BY <1>1, <1>2 DEF InCall, ChangesOnce
<1>5. call[p].op = "set_mtu" => hist'[p].held
  BY <1>1, <1>2 DEF InCall, GoalRecorded
<1>6. PICK satisfied \in Verdicts(call[p]) :
        \/ satisfied /\ Return(p, 0)
        \/ Finish(p, "timeout", 0, {})
        \/ Goto(p, RetryFrom)
  BY DEF Verify
<1>7. CASE satisfied /\ Return(p, 0)
  <2>1. ASSUME call[p].op = "set_ip_address" PROVE hist'[p].held
    <3>1. AlreadySet(call[p].addr, Listed(call[p].idx))
      BY <1>6, <1>7, <2>1 DEF Verdicts
    <3>2. call[p].idx \in Indexes /\ Goal(call[p], links[call[p].idx])
      BY <1>2, <2>1, <3>1, SetTest
    <3> QED  BY <1>1, <1>2, <3>2, GoalIsHeld
  <2>2. ASSUME call[p].op = "del_ip_address", call[p].idx \in Indexes PROVE hist'[p].held
    <3>1. WithoutPrefix(call[p].addr) \notin {WithoutPrefix(x) : x \in Listed(call[p].idx)}
      BY <1>6, <1>7, <2>2 DEF Verdicts
    <3>2. Goal(call[p], links[call[p].idx])
      BY <1>2, <2>2, <3>1, DelTest
    <3> QED  BY <1>1, <1>2, <2>2, <3>2, GoalIsHeld
  <2>3. ASSUME call[p].op = "del_ip_address", call[p].idx = NotFound PROVE hist'[p].held
    BY <1>2, <2>3 DEF InCall, GoalRecorded
  <2>4. call[p].idx \in Indexes \cup {NotFound}  BY <1>1, <1>2 DEF Call
  <2>5. hist'[p].held  BY <1>3, <1>5, <2>1, <2>2, <2>3, <2>4 DEF ChangeOps
  <2> QED  BY <1>1, <1>3, <1>4, <1>7, <2>5, Finishing DEF Return
<1>8. CASE Finish(p, "timeout", 0, {})
  BY <1>1, <1>3, <1>4, <1>8, Finishing
<1>9. CASE Goto(p, RetryFrom)
  BY <1>1, <1>2, <1>4, <1>5, <1>9, GotoKeeps DEF RetryFrom
<1> QED  BY <1>6, <1>7, <1>8, <1>9

LEMMA ReadKeeps ==
  ASSUME TypeOK, NEW p \in Procs, CallOK(p), Read(p)
  PROVE  CallOK(p)'
<1>1. /\ ~ Idle(p) /\ Record(p) /\ links' = links /\ nic' = nic
      /\ call[p].idx # 0 /\ call[p].stage = "read"
  BY DEF Read, Idle
<1>2. /\ InCall(p) /\ call[p] \in Call /\ call[p].stage \in StagesOf(call[p].op)
      /\ hist'[p].changes = hist[p].changes
      /\ hist'[p].named = hist[p].named \cup Bearers(links', nic[p])
  BY <1>1, CallInCourse
<1>3. call[p].op \notin ChangeOps /\ call[p].op # "get_index"
  BY <1>1, <1>2 DEF StagesOf, ReadOps, ChangeOps
<1>4. hist'[p].changes = 0  BY <1>1, <1>2 DEF InCall, ChangesOnce
<1>5. ASSUME NEW val, NEW addrs, Finish(p, "ok", val, addrs),
             call[p].op = "get_mac_address" => val \in hist'[p].named \cup {0, NotFound}
      PROVE  CallOK(p)'
  BY <1>1, <1>3, <1>4, <1>5, Finishing
<1>6. CASE call[p].op = "get_mac_address" /\ Return(p, MacRead(call[p].idx))
  <2>1. MacRead(call[p].idx) \in hist'[p].named \cup {0, NotFound}
    BY <1>2 DEF MacRead, Here, InCall, NamesRecorded, TypeOK
  <2> QED  BY <1>5, <1>6, <2>1 DEF Return
<1>7. CASE call[p].op # "get_mac_address"
  BY <1>5, <1>7 DEF Read, Return
<1> QED  BY <1>6, <1>7 DEF Read

LEMMA ExpireKeeps ==
  ASSUME TypeOK, NEW p \in Procs, CallOK(p), Expire(p)
  PROVE  CallOK(p)'
<1>1. /\ ~ Idle(p) /\ Record(p) /\ links' = links /\ nic' = nic
      /\ call[p].stage = "verify" /\ call' = [call EXCEPT ![p].late = TRUE]
  BY DEF Expire, Idle
<1>2. /\ InCall(p) /\ call[p] \in Call /\ call \in [Procs -> Call]
      /\ call[p].stage \in StagesOf(call[p].op)
      /\ hist'[p].changes = hist[p].changes
      /\ hist'[p].named = hist[p].named \cup Bearers(links', nic[p])
      /\ hist[p].held => hist'[p].held
  BY <1>1, CallInCourse
<1>3. /\ call'[p].op = call[p].op /\ call'[p].addr = call[p].addr /\ call'[p].mtu = call[p].mtu
      /\ call'[p].stage = call[p].stage /\ call'[p].idx = call[p].idx
  BY <1>1, <1>2 DEF Call
<1>4. ChangesOnce(p)'  BY <1>2, <1>3 DEF InCall, ChangesOnce
<1>5. call[p].idx \in Indexes => call[p].idx \in hist'[p].named
  BY <1>2 DEF InCall, NamesRecorded
<1>6. /\ call[p].op = "del_ip_address" /\ call[p].idx = NotFound => hist'[p].held
      /\ call[p].op = "set_mtu" => hist'[p].held
  BY <1>1, <1>2 DEF InCall, GoalRecorded
<1> QED  BY <1>1, <1>2, <1>3, <1>4, <1>5, <1>6, Proceeding

LEMMA FailureKeeps ==
  ASSUME TypeOK, NEW p \in Procs, CallOK(p), Refused(p) \/ AnswerLost(p)
  PROVE  CallOK(p)'
<1>1. ~ Idle(p) /\ Record(p)  BY DEF Refused, AnswerLost, Idle
<1>2. /\ InCall(p) /\ call[p].stage \in StagesOf(call[p].op)
      /\ hist'[p].changes = hist[p].changes + (IF links' # links THEN 1 ELSE 0)
      /\ links' = links => hist'[p].changes = hist[p].changes
  BY <1>1, CallInCourse
<1>3. CASE Refused(p)
  <2>1. PICK e \in Failures : Finish(p, Thrown(e), e, {})  BY <1>3 DEF Refused, Throw
  <2>2. hist'[p].changes <= 1  BY <1>2, <1>3 DEF Refused, InCall, ChangesOnce
  <2>3. call[p].op \notin ChangeOps => hist'[p].changes = 0
    <3>1. call[p].op \notin ChangeOps => call[p].stage # "verify"
      BY <1>2 DEF StagesOf, ChangeOps, ReadOps
    <3> QED  BY <1>2, <1>3, <3>1 DEF Refused, InCall, ChangesOnce
  <2> QED  BY <1>1, <2>1, <2>2, <2>3, FailureKinds, Finishing
<1>4. CASE AnswerLost(p)
  <2>1. Finish(p, "netex", 0, {}) /\ 0 \in Failures
    BY <1>4 DEF AnswerLost, Throw, Thrown, EACCES
  <2>2. call[p].op \in ChangeOps /\ hist[p].changes = 0
    BY <1>1, <1>4, ToAct DEF AnswerLost
  <2>3. hist'[p].changes <= 1  BY <1>2, <2>2
  <2> QED  BY <1>1, <2>1, <2>2, <2>3, Finishing
<1> QED  BY <1>3, <1>4
-----------------------------------------------------------------------------
(* The theorems *)

\* What a caller starts with.
LEMMA FreshCall ==
  ASSUME links \in [Indexes -> Link]
  PROVE  /\ NoCall \in Call
         /\ NoCall.stage = "idle" /\ NoCall.op = "open" /\ NoCall.idx = 0 /\ ~ NoCall.late
         /\ [kind |-> "none", val |-> 0, addrs |-> {}] \in Outcome
         /\ \A n : /\ NewHistory(NoCall, links, n) \in History
                  /\ NewHistory(NoCall, links, n).changes = 0
<1>1. NoCall \in Call
  <2>1. (CHOOSE r \in Raw : TRUE) \in Raw /\ (CHOOSE m \in Mtus : TRUE) \in Mtus
    BY NetIfaceAssumption
  <2>2. FromBoost(CHOOSE r \in Raw : TRUE) \in IpAddr
    BY <2>1 DEF FromBoost, IpAddr
  <2>3. All \in Families  BY DEF Families
  <2> QED  BY <2>1, <2>2, <2>3 DEF NoCall, Call, Stages
<1>2. NoCall.stage = "idle" /\ NoCall.op = "open" /\ NoCall.idx = 0 /\ ~ NoCall.late
  BY DEF NoCall
<1>3. [kind |-> "none", val |-> 0, addrs |-> {}] \in Outcome  BY DEF Outcome, Kinds
<1>4. \A n : NewHistory(NoCall, links, n) \in History /\ NewHistory(NoCall, links, n).changes = 0
  <2> SUFFICES ASSUME NEW n
               PROVE  /\ NewHistory(NoCall, links, n) \in History
                      /\ NewHistory(NoCall, links, n).changes = 0
    OBVIOUS
  <2> DEFINE holds == GoalHolds(NoCall, links, n, Bearers(links, n))
  <2>1. holds \in BOOLEAN  BY DEF GoalHolds
  <2>2. Bearers(links, n) \in SUBSET Indexes  BY DEF Bearers, Here
  <2>3. NewHistory(NoCall, links, n) =
          [quiet |-> TRUE, changes |-> 0, named |-> Bearers(links, n),
           first |-> holds, held |-> holds]
    BY DEF NewHistory
  <2> HIDE DEF holds
  <2> QED  BY <2>1, <2>2, <2>3 DEF History
<1> QED  BY <1>1, <1>2, <1>3, <1>4

LEMMA InitInductive == Init => Inductive
<1> SUFFICES ASSUME Init PROVE Inductive
  OBVIOUS
<1>1. links \in [Indexes -> Link] /\ KernelOK(links)  BY NetIfaceAssumption DEF Init
<1>2. NoCall \in Call  BY <1>1, FreshCall
<1>3. ASSUME NEW p \in Procs
      PROVE  /\ call[p] = NoCall /\ hist[p] = NewHistory(NoCall, links, "")
             /\ out[p] = [kind |-> "none", val |-> 0, addrs |-> {}]
  BY DEF Init
<1>4. NoCall.stage = "idle" /\ NoCall.op = "open" /\ NoCall.idx = 0 /\ ~ NoCall.late
  BY <1>1, FreshCall
<1>5. \A n : NewHistory(NoCall, links, n) \in History /\ NewHistory(NoCall, links, n).changes = 0
  BY <1>1, FreshCall
<1>6. [kind |-> "none", val |-> 0, addrs |-> {}] \in Outcome  BY <1>1, FreshCall
<1>7. TypeOK
  <2>1. nic \in [Procs -> Names \cup {""}]  BY DEF Init
  <2>2. call \in [Procs -> Call]  BY <1>2 DEF Init
  <2>3. out \in [Procs -> Outcome]  BY <1>6 DEF Init
  <2>4. hist \in [Procs -> History]  BY <1>5 DEF Init
  <2> QED  BY <1>1, <1>3, <1>4, <2>1, <2>2, <2>3, <2>4 DEF TypeOK, Idle
<1>8. ASSUME NEW p \in Procs PROVE CallOK(p)
  <2>1. hist[p].changes = 0  BY <1>3, <1>5
  <2>2. Idle(p) /\ out[p].kind = "none" /\ call[p].op = "open"
    <3>1. call[p] = NoCall  BY <1>3
    <3>2. out[p] = [kind |-> "none", val |-> 0, addrs |-> {}]  BY <1>3
    <3> QED  BY <1>4, <3>1, <3>2 DEF Idle
  <2> QED  BY <2>1, <2>2 DEF CallOK
<1> QED  BY <1>7, <1>8, InductiveByCaller

\* A step of p leaves the calls of others alone.
LEMMA StepIsOwn ==
  ASSUME TypeOK, NEW p \in Procs, Step(p)
  PROVE  /\ Record(p)
         /\ \A q \in Procs \ {p} : call'[q] = call[q] /\ nic'[q] = nic[q] /\ out'[q] = out[q]
<1> USE DEF TypeOK
<1>1. ASSUME NEW n \in Names, Open(p, n)
      PROVE  /\ Record(p)
             /\ \A q \in Procs \ {p} : call'[q] = call[q] /\ nic'[q] = nic[q] /\ out'[q] = out[q]
  BY <1>1 DEF Open
<1>2. ASSUME NEW c \in Calls, Begin(p, c)
      PROVE  /\ Record(p)
             /\ \A q \in Procs \ {p} : call'[q] = call[q] /\ nic'[q] = nic[q] /\ out'[q] = out[q]
  BY <1>2 DEF Begin
<1>3. CASE GetIndex(p) \/ Discard(p) \/ Check(p)
  BY <1>3 DEF GetIndex, Discard, Check, Goto, Return, Finish
<1>4. CASE Act(p) \/ AnswerLost(p)
  BY <1>4 DEF Act, AnswerLost, Goto, Throw, Finish
<1>5. CASE Verify(p) \/ Read(p)
  BY <1>5 DEF Verify, Read, Goto, Return, Finish
<1>6. CASE Expire(p) \/ Refused(p)
  BY <1>6 DEF Expire, Refused, Throw, Finish
<1> QED  BY <1>1, <1>2, <1>3, <1>4, <1>5, <1>6 DEF Step, Proceed

LEMMA StepInductive ==
  ASSUME Inductive, [Next]_vars
  PROVE  Inductive'
<1>1. TypeOK /\ \A p \in Procs : CallOK(p)  BY InductiveByCaller
<1>2. ASSUME NEW p \in Procs, Step(p) PROVE TypeOK' /\ \A q \in Procs : CallOK(q)'
  <2>1. /\ Record(p)
        /\ \A q \in Procs \ {p} : call'[q] = call[q] /\ nic'[q] = nic[q] /\ out'[q] = out[q]
    BY <1>1, <1>2, StepIsOwn
  <2>2. TypeOK'
    <3>1. Act(p) \/ AnswerLost(p) => call[p].op \in ChangeOps
      BY <1>1, <2>1, ToAct DEF Act, AnswerLost
    <3> QED  BY <1>1, <1>2, <3>1, ActionTypes, ChangeTypes DEF Step, Proceed
  <2>3. CallOK(p)'
    BY <1>1, <1>2, OpenKeeps, BeginKeeps, GetIndexKeeps, CheckKeeps, ActKeeps, VerifyKeeps,
       ReadKeeps, ExpireKeeps, FailureKeeps DEF Step, Proceed
  <2>4. ASSUME NEW q \in Procs \ {p} PROVE CallOK(q)'
    BY <1>1, <2>1, Bystander
  <2> QED  BY <2>2, <2>3, <2>4
<1>3. ASSUME NEW i \in Indexes, Others(i) PROVE TypeOK' /\ \A q \in Procs : CallOK(q)'
  <2>1. /\ links' \in [Indexes -> Link] /\ KernelOK(links')
        /\ UNCHANGED <<nic, call, out>> /\ Record("others")
    BY <1>1, <1>3, OthersKeep
  <2>2. hist' \in [Procs -> History]  BY <1>1, <2>1, RecordType
  <2>3. TypeOK'  BY <1>1, <2>1, <2>2 DEF TypeOK, Idle
  <2>4. ASSUME NEW q \in Procs PROVE CallOK(q)'
    <3>1. q # "others"  BY NetIfaceAssumption
    <3> QED  BY <1>1, <2>1, <3>1, Bystander
  <2> QED  BY <2>3, <2>4
<1>4. CASE UNCHANGED vars
  BY <1>1, <1>4, InductiveByCaller
  DEF vars, Inductive, TypeOK, OkMeansAchieved, OutcomeAccounts, ReadsNamedLink, Idle,
      InCall, ChangesOnce, NamesRecorded, GoalRecorded
<1>5. CASE Next
  <2>1. TypeOK' /\ \A q \in Procs : CallOK(q)'  BY <1>2, <1>3, <1>5 DEF Next
  <2> QED  BY <2>1 DEF Inductive, CallOK, OkMeansAchieved, OutcomeAccounts, ReadsNamedLink
<1> QED  BY <1>4, <1>5

\* What is known of every call, at any of its stages, stays true.
THEOREM InductiveHolds == Spec => []Inductive
BY InitInductive, StepInductive, PTL DEF Spec

\* Every variable keeps its type, and no request is built from an address
\* without a prefix length.
THEOREM TypeCorrect == Spec => []TypeOK
<1>1. Inductive => TypeOK  BY DEF Inductive
<1> QED  BY <1>1, InductiveHolds, PTL

\* set_ip_address, del_ip_address and set_mtu never return normally without
\* what they promise having been the case, whoever interferes.
THEOREM Achieved == Spec => []OkMeansAchieved
<1>1. Inductive => OkMeansAchieved  BY DEF Inductive
<1> QED  BY <1>1, InductiveHolds, PTL

\* What a caller learns bounds what its call has done to the kernel.
THEOREM Accounted == Spec => []OutcomeAccounts
<1>1. Inductive => OutcomeAccounts  BY DEF Inductive
<1> QED  BY <1>1, InductiveHolds, PTL

\* get_index and get_mac_address never answer with a link that has not borne
\* the name since the call began.
THEOREM NamedLinkRead == Spec => []ReadsNamedLink
<1>1. Inductive => ReadsNamedLink  BY DEF Inductive
<1> QED  BY <1>1, InductiveHolds, PTL
-----------------------------------------------------------------------------
(* What a call may change *)

LEMMA AnswersTouch ==
  ASSUME links \in [Indexes -> Link], KernelOK(links),
         NEW c \in Call, InProgress(c), c.op \in ChangeOps \ {"set_mtu"}, c.idx # 0,
         NEW a \in Answers(c), a.errno = 0
  PROVE  \E e \in Entries : Differ(links[c.idx].addrs, a.link.addrs) = {e} /\ e.raw = c.addr.raw
<1>1. c.idx \in Here(links) /\ a.link \in Link /\ a.link # links[c.idx]
  BY AnswersFit
<1>2. links[c.idx] \in Link  BY <1>1 DEF Here
<1>3. PICK l \in Link : l = links[c.idx]  BY <1>2
<1> DEFINE e == Entry(c.addr)
<1>4. e.raw = c.addr.raw  BY DEF Entry
<1> HIDE DEF e
<1>5. CASE c.op = "set_ip_address"
  <2>1. a \in NewAddr(l, e)  BY <1>1, <1>3, <1>5 DEF Answers, e
  <2>2. a.link = [l EXCEPT !.addrs = @ \cup {e}]
    BY <2>1, <1>1, <1>3 DEF NewAddr, Answer
  <2>3. a.link.addrs = l.addrs \cup {e}  BY <2>2 DEF Link
  <2>4. e \notin l.addrs
    <3>1. CASE e \in l.addrs
      <4>1. l.addrs \cup {e} = l.addrs  BY <3>1
      <4>2. a.link = l  BY <2>2, <4>1 DEF Link
      <4> QED  BY <1>1, <1>3, <4>2
    <3> QED  BY <3>1
  <2>5. e \in Entries  BY <1>1, <2>3 DEF Link
  <2>6. Differ(l.addrs, a.link.addrs) = {e}  BY <2>3, <2>4 DEF Differ
  <2> QED  BY <1>3, <1>4, <2>5, <2>6
<1>6. CASE c.op = "del_ip_address"
  <2>1. a \in DelAddr(l, e)  BY <1>1, <1>3, <1>6 DEF Answers, e
  <2>2. PICK d \in l.addrs : d.raw = e.raw /\ a.link = [l EXCEPT !.addrs = @ \ {d}]
    <3> DEFINE matches == {d \in l.addrs : d.raw = e.raw /\ (d.raw \in V6 => d = e)}
    <3>1. matches # {}  BY <2>1 DEF DelAddr, Answer, EADDRNOTAVAIL
    <3>2. PICK d \in matches : a = [errno |-> 0, link |-> [l EXCEPT !.addrs = @ \ {d}]]
      BY <2>1, <3>1 DEF DelAddr, Answer
    <3>3. d \in l.addrs /\ d.raw = e.raw  OBVIOUS
    <3>4. a.link = [l EXCEPT !.addrs = @ \ {d}]  BY <3>2
    <3> QED  BY <3>3, <3>4
  <2>3. a.link.addrs = l.addrs \ {d}  BY <2>2 DEF Link
  <2>4. d \in Entries  BY <2>2 DEF Link
  <2>5. Differ(l.addrs, a.link.addrs) = {d}  BY <2>2, <2>3 DEF Differ
  <2> QED  BY <1>3, <1>4, <2>2, <2>4, <2>5
<1> QED  BY <1>5, <1>6 DEF ChangeOps

\* Only a call's request changes a link in the call's name.
LEMMA ChangedByRequest ==
  ASSUME TypeOK, NEW p \in Procs, Step(p), links' # links
  PROVE  /\ Act(p) \/ AnswerLost(p)
         /\ \E a \in Answers(call[p]) :
              a.errno = 0 /\ links' = [links EXCEPT ![call[p].idx] = a.link]
<1>1. Act(p) \/ AnswerLost(p)
  BY DEF Step, Proceed, Open, Begin, GetIndex, Discard, Check, Verify, Read, Expire, Refused
<1> QED  BY <1>1 DEF Act, AnswerLost

\* Only a caller's own step counts as a change by the call.
LEMMA CountedByOwnStep ==
  ASSUME TypeOK, NEW p \in Procs, NEW actor, Record(actor), hist'[p].changes > hist[p].changes
  PROVE  p = actor /\ ~ Idle(p) /\ links' # links
<1>1. hist[p].changes \in Nat  BY DEF TypeOK, History
<1>2. CASE Idle(p) /\ p # actor
  BY <1>1, <1>2, RecordedOf
<1>3. CASE Idle(p) /\ p = actor
  <2>1. hist'[p] = NewHistory(call'[p], links', nic'[p])  BY <1>3, RecordedOf
  <2>2. hist'[p].changes = 0  BY <2>1 DEF NewHistory
  <2> QED  BY <1>1, <2>2
<1>4. CASE ~ Idle(p) /\ ~ (p = actor /\ links' # links)
  <2>1. hist'[p].changes = hist[p].changes + 0  BY <1>4, RecordedOf
  <2> QED  BY <1>1, <2>1
<1> QED  BY <1>2, <1>3, <1>4

\* A call changes only a link that has borne the interface's name since the
\* call began, and of its addresses only the one it is about.
THEOREM NamedLinkChanged == Spec => ChangesNamedLink
<1> DEFINE A(p, i) ==
      hist'[p].changes > hist[p].changes /\ links'[i] # links[i] =>
        /\ i \in hist[p].named
        /\ call[p].op # "set_mtu" =>
             \E e \in Entries : /\ Differ(links[i].addrs, links'[i].addrs) = {e}
                                /\ e.raw = call[p].addr.raw
<1>1. Inductive /\ [Next]_vars => [\A p \in Procs, i \in Indexes : A(p, i)]_vars
  <2> SUFFICES ASSUME Inductive, Next, NEW p \in Procs, NEW i \in Indexes,
                      hist'[p].changes > hist[p].changes, links'[i] # links[i]
               PROVE  /\ i \in hist[p].named
                      /\ call[p].op # "set_mtu" =>
                           \E e \in Entries : /\ Differ(links[i].addrs, links'[i].addrs) = {e}
                                              /\ e.raw = call[p].addr.raw
    OBVIOUS
  <2>1. TypeOK /\ CallOK(p)  BY InductiveByCaller
  <2>2. Step(p) /\ Record(p) /\ ~ Idle(p)
    <3>1. ASSUME NEW q \in Procs, Step(q) PROVE q = p /\ Record(p) /\ ~ Idle(p)
      <4>1. Record(q)  BY <2>1, <3>1, StepIsOwn
      <4> QED  BY <2>1, <4>1, CountedByOwnStep
    <3>2. ASSUME NEW j \in Indexes, Others(j) PROVE FALSE
      <4>1. Record("others")  BY <2>1, <3>2, OthersKeep
      <4>2. p # "others"  BY NetIfaceAssumption
      <4> QED  BY <2>1, <4>1, <4>2, CountedByOwnStep
    <3> QED  BY <3>1, <3>2 DEF Next
  <2>3. Act(p) \/ AnswerLost(p)  BY <2>1, <2>2, ChangedByRequest
  <2>4. PICK a \in Answers(call[p]) :
          a.errno = 0 /\ links' = [links EXCEPT ![call[p].idx] = a.link]
    BY <2>1, <2>2, ChangedByRequest
  <2>5. call[p].stage = "act" /\ call[p].idx # 0  BY <2>3 DEF Act, AnswerLost
  <2>6. call[p].op \in ChangeOps /\ InCall(p) /\ InProgress(call[p])
    BY <2>1, <2>2, <2>5, ToAct
  <2>7. links \in [Indexes -> Link] /\ KernelOK(links) /\ call[p] \in Call
    BY <2>1 DEF TypeOK
  <2>8. i = call[p].idx  BY <2>4, <2>7
  <2>9. links'[i] = a.link  BY <2>4, <2>7, <2>8
  <2>10. i \in hist[p].named  BY <2>6, <2>8 DEF InCall, NamesRecorded
  <2>11. call[p].op # "set_mtu" =>
           \E e \in Entries : /\ Differ(links[i].addrs, links'[i].addrs) = {e}
                              /\ e.raw = call[p].addr.raw
    BY <2>4, <2>5, <2>6, <2>7, <2>8, <2>9, AnswersTouch
  <2> QED  BY <2>10, <2>11
<1>2. Spec => [][\A p \in Procs, i \in Indexes : A(p, i)]_vars
  BY <1>1, InductiveHolds, PTL DEF Spec
<1> QED  BY <1>2 DEF ChangesNamedLink
-----------------------------------------------------------------------------
(* The refinement of IfaceApi *)

\* held never goes back during a call, and does not change as long as the
\* links do not: what is true of the goal is recorded already.
LEMMA HeldMoves ==
  ASSUME TypeOK, TypeOK', NEW p \in Procs, CallOK(p), NEW actor, Record(actor),
         ~ (p = actor /\ Idle(p))
  PROVE  /\ hist[p].held \in BOOLEAN /\ hist'[p].held \in BOOLEAN
         /\ hist[p].held => hist'[p].held
         /\ links' = links => hist'[p].held = hist[p].held
<1>1. hist[p].held \in BOOLEAN /\ hist'[p].held \in BOOLEAN  BY DEF TypeOK, History
<1>2. CASE Idle(p)
  BY <1>1, <1>2, RecordedOf
<1>3. CASE ~ Idle(p)
  <2>1. /\ hist'[p].named = hist[p].named \cup Bearers(links', nic[p])
        /\ hist'[p].held <=> hist[p].held \/ GoalHolds(call[p], links', nic[p], hist'[p].named)
    BY <1>3, RecordedOf
  <2>2. ASSUME links' = links PROVE hist'[p].held = hist[p].held
    <3>1. InCall(p)  BY <1>3 DEF CallOK
    <3>2. hist'[p].named = hist[p].named  BY <2>1, <2>2, <3>1 DEF InCall, NamesRecorded
    <3>3. GoalHolds(call[p], links', nic[p], hist'[p].named) => hist[p].held
      BY <2>2, <3>1, <3>2 DEF InCall, GoalRecorded
    <3> QED  BY <1>1, <2>1, <3>3
  <2> QED  BY <1>1, <2>1, <2>2
<1> QED  BY <1>2, <1>3

\* The answers of IfaceApi are what an idle caller has got.
LEMMA PhaseAnswers ==
  ASSUME TypeOK, NEW p \in Procs, CallOK(p), Idle(p), out[p].kind # "none"
  PROVE  /\ Phase(p) \in Api!Answers
         /\ Phase(p) = "achieved" => hist[p].held
         /\ Phase(p) \in {"refused", "answered"} => hist[p].changes = 0
<1>1. out[p].kind \in Kinds  BY DEF TypeOK, Outcome
<1>2. CASE out[p].kind = "ok" /\ call[p].op \in ChangeOps
  <2>1. Phase(p) = "achieved"  BY <1>2 DEF Phase, NamesConflict
  <2> QED  BY <1>2, <2>1 DEF CallOK, Api!Answers
<1>3. CASE out[p].kind = "ok" /\ call[p].op \notin ChangeOps
  <2>1. Phase(p) = "answered"  BY <1>3 DEF Phase, NamesConflict
  <2> QED  BY <1>3, <2>1 DEF CallOK, Api!Answers
<1>4. CASE NamesConflict(out[p])
  <2>1. Phase(p) = "refused"  BY <1>4 DEF Phase, NamesConflict
  <2> QED  BY <1>4, <2>1 DEF CallOK, Api!Answers
<1>5. CASE out[p].kind \in {"netex", "denied", "timeout"} /\ ~ NamesConflict(out[p])
  <2>1. Phase(p) = "failed"  BY <1>5 DEF Phase
  <2> QED  BY <2>1 DEF Api!Answers
<1> QED  BY <1>1, <1>2, <1>3, <1>4, <1>5 DEF Kinds

\* What a step of a caller gives it.
LEMMA StepAnswers ==
  ASSUME TypeOK, NEW p \in Procs, Step(p)
  PROVE  /\ Idle(p)' => out'[p].kind # "none"
         /\ ~ Idle(p)' => Phase(p)' = "busy"
         /\ Idle(p) => links' = links
<1>1. call \in [Procs -> Call] /\ out \in [Procs -> Outcome] /\ call[p] \in Call  BY DEF TypeOK
<1>2. ASSUME NEW n \in Names, Open(p, n) PROVE out'[p].kind # "none" /\ links' = links
  <2>1. links' = links  BY <1>2 DEF Open
  <2>2. \A kind, val : [kind |-> kind, val |-> val, addrs |-> {}].kind = kind  OBVIOUS
  <2>3. PICK kind \in {"ok", "netex", "denied"}, val \in {0} \cup Failures :
          out' = [out EXCEPT ![p] = [kind |-> kind, val |-> val, addrs |-> {}]]
    BY <1>2, FailureKinds DEF Open
  <2>4. out'[p].kind = kind  BY <1>1, <2>2, <2>3
  <2> QED  BY <2>1, <2>4
<1>3. ASSUME NEW c \in Calls, Begin(p, c) PROVE (Idle(p)' => out'[p].kind # "none") /\ links' = links
  <2>1. CASE call' = [call EXCEPT ![p] = Started(c, FirstStage(c.op))]
    <3>1. call'[p].stage = FirstStage(c.op)  BY <1>1, <2>1 DEF Started
    <3>2. FirstStage(c.op) # "idle"
      BY NetIfaceAssumption DEF FirstStage, Ops, ChangeOps, ReadOps
    <3> QED  BY <1>3, <3>1, <3>2 DEF Idle, Begin
  <2>2. CASE out' = [out EXCEPT ![p] = [kind |-> "netex", val |-> 0, addrs |-> {}]]
    BY <1>1, <1>3, <2>2 DEF Begin
  <2> QED  BY <1>3, <2>1, <2>2 DEF Begin
<1>4. ASSUME NEW kind \in Kinds \ {"none"}, NEW val, NEW addrs, Finish(p, kind, val, addrs)
      PROVE  out'[p].kind # "none"
  <2>1. out'[p] = [kind |-> kind, val |-> val, addrs |-> addrs]  BY <1>1, <1>4 DEF Finish
  <2> QED  BY <2>1
<1>5. ASSUME NEW stage \in {"check", "act", "verify"}, Goto(p, stage) PROVE ~ Idle(p)'
  BY <1>1, <1>5 DEF Goto, Idle, Call
<1> USE DEF Kinds
<1>6. CASE GetIndex(p)
  <2>1. ~ Idle(p)  BY <1>6 DEF GetIndex
  <2>2. Idle(p)' => out'[p].kind # "none"
    <3>1. CASE call' = [call EXCEPT ![p].idx = IndexOf(links, nic[p])]
      BY <1>1, <2>1, <3>1 DEF Idle, Call
    <3> QED  BY <1>4, <1>6, <3>1 DEF GetIndex, Return
  <2> QED  BY <2>1, <2>2 DEF Phase, NamesConflict
<1>7. CASE Discard(p) \/ Check(p)
  <2>1. ~ Idle(p)  BY <1>7 DEF Discard, Check, Idle
  <2>2. Idle(p)' => out'[p].kind # "none"
    BY <1>4, <1>5, <1>7 DEF Discard, Check, Return
  <2> QED  BY <2>1, <2>2 DEF Phase
<1>8. CASE Act(p) \/ AnswerLost(p)
  <2>1. ~ Idle(p)  BY <1>8 DEF Act, AnswerLost, Idle
  <2>2. ASSUME NEW errno, Throw(p, errno) PROVE out'[p].kind # "none"
    BY <1>4, <2>2 DEF Throw, Thrown
  <2>3. Idle(p)' => out'[p].kind # "none"
    BY <1>5, <1>8, <2>2 DEF Act, AnswerLost
  <2> QED  BY <2>1, <2>3 DEF Phase
<1>9. CASE Verify(p)
  <2>1. ~ Idle(p)  BY <1>9 DEF Verify, Idle
  <2>2. Idle(p)' => out'[p].kind # "none"
    BY <1>4, <1>5, <1>9 DEF Verify, Return, RetryFrom
  <2> QED  BY <2>1, <2>2 DEF Phase
<1>10. CASE Read(p)
  <2>1. ~ Idle(p)  BY <1>10 DEF Read, Idle
  <2>2. out'[p].kind # "none"  BY <1>4, <1>10 DEF Read, Return
  <2> QED  BY <2>1, <2>2 DEF Phase
<1>11. CASE Expire(p)
  <2>1. ~ Idle(p) /\ ~ Idle(p)'  BY <1>1, <1>11 DEF Expire, Idle, Call
  <2> QED  BY <2>1 DEF Phase
<1>12. CASE Refused(p)
  <2>1. ~ Idle(p) /\ out'[p].kind # "none"  BY <1>4, <1>12 DEF Refused, Throw, Thrown
  <2> QED  BY <2>1 DEF Phase
<1>13. ~ Idle(p)' => Phase(p)' = "busy"  BY DEF Phase
<1> QED
  BY <1>2, <1>3, <1>6, <1>7, <1>8, <1>9, <1>10, <1>11, <1>12, <1>13 DEF Step, Proceed

LEMMA InitRefines == Init => Api!Init
<1> SUFFICES ASSUME Init PROVE Api!Init
  OBVIOUS
<1>1. TypeOK  BY InitInductive, InductiveByCaller
<1>2. ASSUME NEW p \in Procs
      PROVE  Phase(p) = "idle" /\ hist[p].held \in BOOLEAN /\ hist[p].changes = 0
  <2>1. call[p] = NoCall /\ out[p] = [kind |-> "none", val |-> 0, addrs |-> {}]
    BY <1>2 DEF Init
  <2>2. Idle(p)  BY <2>1 DEF NoCall, Idle
  <2>3. out[p].kind = "none"  BY <2>1
  <2>4. ~ NamesConflict(out[p])  BY <2>3 DEF NamesConflict
  <2>5. Phase(p) = "idle"  BY <2>2, <2>3, <2>4 DEF Phase
  <2>6. hist[p].held \in BOOLEAN  BY <1>1 DEF TypeOK, History
  <2>7. hist[p] = NewHistory(NoCall, links, "")  BY DEF Init
  <2>8. \A n : NewHistory(NoCall, links, n).changes = 0  BY DEF NewHistory
  <2> QED  BY <2>5, <2>6, <2>7, <2>8
<1> QED  BY <1>2 DEF Api!Init

\* Every step of the methods, or of others, is one of IfaceApi, or none.
LEMMA StepRefines ==
  ASSUME Inductive, Inductive', [Next]_vars
  PROVE  [Api!Next]_(Api!vars)
<1> DEFINE phase == [q \in Procs |-> Phase(q)]
           met == [q \in Procs |-> hist[q].held]
           spent == [q \in Procs |-> hist[q].changes]
<1>1. TypeOK /\ TypeOK' /\ \A q \in Procs : CallOK(q)
  BY InductiveByCaller DEF Inductive
<1>2. \A q \in Procs : CallOK(q)'
  BY DEF Inductive, CallOK, OkMeansAchieved, OutcomeAccounts, ReadsNamedLink
<1>3. ASSUME NEW p \in Procs, Step(p) PROVE [Api!Next]_(Api!vars)
  <2>1. /\ Record(p)
        /\ \A q \in Procs \ {p} : call'[q] = call[q] /\ nic'[q] = nic[q] /\ out'[q] = out[q]
    BY <1>1, <1>3, StepIsOwn
  <2>2. /\ Idle(p)' => out'[p].kind # "none"
        /\ ~ Idle(p)' => Phase(p)' = "busy"
        /\ Idle(p) => links' = links
    BY <1>1, <1>3, StepAnswers
  <2>3. /\ ~ Idle(p)' => Phase(p)' = "busy"
        /\ Idle(p)' => /\ Phase(p)' \in Api!Answers
                       /\ Phase(p)' = "achieved" => hist'[p].held
                       /\ Phase(p)' \in {"refused", "answered"} => hist'[p].changes = 0
    <3>1. ASSUME Idle(p)'
          PROVE  /\ Phase(p)' \in Api!Answers
                 /\ Phase(p)' = "achieved" => hist'[p].held
                 /\ Phase(p)' \in {"refused", "answered"} => hist'[p].changes = 0
      <4>1. out'[p].kind \in Kinds  BY <1>1 DEF TypeOK, Outcome
      <4>2. CallOK(p)'  BY <1>2
      <4>3. CASE out'[p].kind = "ok" /\ call'[p].op \in ChangeOps
        BY <3>1, <4>2, <4>3 DEF Phase, CallOK, Api!Answers
      <4>4. CASE out'[p].kind = "ok" /\ call'[p].op \notin ChangeOps
        BY <3>1, <4>2, <4>4 DEF Phase, CallOK, Api!Answers
      <4>5. CASE NamesConflict(out[p])'
        <5>1. Phase(p)' = "refused"  BY <3>1, <4>5 DEF Phase, NamesConflict
        <5> QED  BY <3>1, <4>2, <4>5, <5>1 DEF CallOK, Api!Answers
      <4>6. CASE out'[p].kind \in {"netex", "denied", "timeout"} /\ ~ NamesConflict(out[p])'
        <5>1. Phase(p)' = "failed"  BY <3>1, <4>6 DEF Phase
        <5> QED  BY <5>1 DEF Api!Answers
      <4> QED  BY <2>2, <3>1, <4>1, <4>3, <4>4, <4>5, <4>6 DEF Kinds
    <3> QED  BY <2>2, <3>1
  <2>0. PICK answer : answer = Phase(p)'  OBVIOUS
  <2>4. \A q \in Procs \ {p} : Phase(q)' = Phase(q)  BY <2>1 DEF Phase, Idle
  <2>5. \A q \in Procs \ {p} : hist'[q].changes = hist[q].changes
    <3>1. ASSUME NEW q \in Procs \ {p} PROVE hist'[q].changes = hist[q].changes
      <4>1. hist[q].changes \in Nat  BY <1>1 DEF TypeOK, History
      <4>2. CASE Idle(q)  BY <1>1, <2>1, <4>2, RecordedOf
      <4>3. CASE ~ Idle(q)
        <5>1. hist'[q].changes = hist[q].changes + 0  BY <1>1, <2>1, <4>3, RecordedOf
        <5> QED  BY <4>1, <5>1
      <4> QED  BY <4>2, <4>3
    <3> QED  BY <3>1
  <2>6. \A q \in Procs : ~ (q = p /\ Idle(q)) =>
          /\ hist'[q].held \in BOOLEAN
          /\ hist[q].held => hist'[q].held
          /\ links' = links => hist'[q].held = hist[q].held
    BY <1>1, <2>1, HeldMoves
  <2>7. CASE Idle(p)
    <3>1. links' = links  BY <2>2, <2>7
    <3>2. hist'[p].changes = 0
      <4>1. hist'[p] = NewHistory(call'[p], links', nic'[p])  BY <1>1, <2>1, <2>7, RecordedOf
      <4> QED  BY <4>1 DEF NewHistory
    <3>3. Phase(p) # "busy"  BY <2>7 DEF Phase
    <3>4. hist'[p].held \in BOOLEAN  BY <1>1 DEF TypeOK, History
    <3>5. phase' = [phase EXCEPT ![p] = answer]  BY <2>0, <2>4
    <3>6. met' = [met EXCEPT ![p] = hist'[p].held]  BY <2>6, <3>1
    <3>7. spent' = [spent EXCEPT ![p] = 0]  BY <2>5, <3>2
    <3>8. answer \in Api!Answers \cup {"busy"}  BY <2>0, <2>3
    <3>9. Api!True(p, answer)
      BY <2>0, <2>3, <3>2 DEF Api!True, Api!Answers
    <3>10. Api!Ask(p)
      BY <3>1, <3>3, <3>4, <3>5, <3>6, <3>7, <3>8, <3>9 DEF Api!Ask
    <3> QED  BY <3>10 DEF Api!Next
  <2>8. CASE ~ Idle(p) /\ links' = links
    <3>1. hist'[p].changes = hist[p].changes
      BY <1>1, <2>1, <2>8, CallInCourse
    <3>2. met' = met  BY <2>6, <2>8
    <3>3. spent' = spent  BY <2>5, <3>1
    <3>4. Phase(p) = "busy"  BY <2>8 DEF Phase
    <3>5. phase' = [phase EXCEPT ![p] = answer]  BY <2>0, <2>4
    <3>6. CASE Idle(p)'
      <4>1. Api!True(p, answer)  BY <2>0, <2>3, <3>6 DEF Api!True
      <4>2. Api!Answer(p)
        BY <2>0, <2>3, <2>8, <3>2, <3>3, <3>4, <3>5, <3>6, <4>1 DEF Api!Answer
      <4> QED  BY <4>2 DEF Api!Next
    <3>7. CASE ~ Idle(p)'
      <4>1. phase' = phase  BY <2>0, <2>3, <3>4, <3>5, <3>7
      <4> QED  BY <2>8, <3>2, <3>3, <4>1 DEF Api!vars
    <3> QED  BY <3>6, <3>7
  <2>9. CASE ~ Idle(p) /\ links' # links
    <3>1. Act(p) \/ AnswerLost(p)  BY <1>1, <1>3, <2>9, ChangedByRequest
    <3>2. hist[p].changes = 0
      BY <1>1, <2>1, <3>1, ToAct DEF Act, AnswerLost
    <3>3. hist'[p].changes = 1
      <4>1. hist'[p].changes = 0 + 1  BY <1>1, <2>1, <2>9, <3>2, CallInCourse
      <4> QED  BY <4>1
    <3>4. Phase(p) = "busy"  BY <2>9 DEF Phase
    <3>5. Phase(p)' \in {"busy", "failed"}
      <4>1. CASE Act(p)
        <5>1. PICK a \in Answers(call[p]) : Goto(p, "verify")  BY <2>9, <4>1 DEF Act
        <5>2. call \in [Procs -> Call] /\ call[p] \in Call  BY <1>1 DEF TypeOK
        <5>3. ~ Idle(p)'  BY <5>1, <5>2 DEF Goto, Idle, Call
        <5> QED  BY <2>3, <5>3
      <4>2. CASE AnswerLost(p)
        <5>1. call \in [Procs -> Call] /\ call[p] \in Call /\ out \in [Procs -> Outcome]
          BY <1>1 DEF TypeOK
        <5>2. Finish(p, "netex", 0, {}) /\ 0 \in Failures
          BY <4>2 DEF AnswerLost, Throw, Thrown, EACCES
        <5>3. Idle(p)' /\ out'[p].kind = "netex" /\ out'[p].val = 0
          BY <5>1, <5>2 DEF Finish, Idle, Call
        <5> QED  BY <5>2, <5>3 DEF Phase, NamesConflict
      <4> QED  BY <3>1, <4>1, <4>2
    <3>6. phase' = phase \/ phase' = [phase EXCEPT ![p] = "failed"]  BY <2>4, <3>4, <3>5
    <3>7. spent' = [spent EXCEPT ![p] = 1]  BY <2>5, <3>3
    <3>8. met' \in [Procs -> BOOLEAN] /\ \A q \in Procs : met[q] => met'[q]
      BY <2>6, <2>9
    <3>9. Api!Change(p)
      BY <2>9, <3>2, <3>4, <3>6, <3>7, <3>8 DEF Api!Change, Api!Kept
    <3> QED  BY <3>9 DEF Api!Next
  <2> QED  BY <2>7, <2>8, <2>9
<1>4. ASSUME NEW i \in Indexes, Others(i) PROVE [Api!Next]_(Api!vars)
  <2>1. UNCHANGED <<nic, call, out>> /\ Record("others")  BY <1>1, <1>4, OthersKeep
  <2>2. \A q \in Procs : q # "others"  BY NetIfaceAssumption
  <2>3. phase' = phase  BY <2>1 DEF Phase, Idle
  <2>4. ASSUME NEW q \in Procs PROVE hist'[q].changes = hist[q].changes
    <3>1. hist[q].changes \in Nat  BY <1>1 DEF TypeOK, History
    <3>2. CASE Idle(q)  BY <1>1, <2>1, <2>2, <3>2, RecordedOf
    <3>3. CASE ~ Idle(q)
      <4>1. hist'[q].changes = hist[q].changes + 0  BY <1>1, <2>1, <2>2, <3>3, RecordedOf
      <4> QED  BY <3>1, <4>1
    <3> QED  BY <3>2, <3>3
  <2>5. spent' = spent  BY <2>4
  <2>6. \A q \in Procs :
          /\ hist'[q].held \in BOOLEAN
          /\ hist[q].held => hist'[q].held
          /\ links' = links => hist'[q].held = hist[q].held
    BY <1>1, <2>1, <2>2, HeldMoves
  <2>7. CASE links' = links
    <3>1. met' = met  BY <2>6, <2>7
    <3> QED  BY <2>3, <2>5, <2>7, <3>1 DEF Api!vars
  <2>8. CASE links' # links
    <3>1. met' \in [Procs -> BOOLEAN] /\ \A q \in Procs : met[q] => met'[q]
      BY <2>6
    <3>2. Api!Others  BY <2>3, <2>5, <2>8, <3>1 DEF Api!Others, Api!Kept
    <3> QED  BY <3>2 DEF Api!Next
  <2> QED  BY <2>7, <2>8
<1>5. CASE UNCHANGED vars
  BY <1>5 DEF vars, Api!vars, Phase, Idle
<1> QED  BY <1>3, <1>4, <1>5 DEF Next

\* Every behaviour of the methods is one of IfaceApi.
THEOREM Refines == Spec => IsApi
<1>1. Spec => Api!Init /\ [][Api!Next]_(Api!vars)
  BY InitRefines, StepRefines, InductiveHolds, PTL DEF Spec
<1> QED  BY <1>1 DEF IsApi, Api!Spec
-----------------------------------------------------------------------------
(* What a program prints of an interface's addresses *)

\* An address that was listed has the prefix length and the scope it is shown with.
Shown == \A p \in Procs : \A a \in out[p].addrs : a \in IpAddr /\ a.prefix >= 0

LEMMA ListedShown ==
  ASSUME TypeOK, NEW idx, NEW fam, NEW a \in ListedOf(idx, fam)
  PROVE  a \in IpAddr /\ a.prefix >= 0
<1>1. idx \in Here(links)  BY DEF ListedOf
<1>2. links[idx] \in Link  BY <1>1 DEF TypeOK, Here
<1>3. PICK e \in links[idx].addrs : a = FromString(e.raw, e.plen)  BY <1>1 DEF ListedOf
<1>4. e.plen \in Nat  BY <1>2, RtnlAssumption DEF Link, Entries
<1>5. a.prefix >= 0  BY <1>3, <1>4 DEF FromString
<1> QED  BY <1>5, ListedType

LEMMA ShownStep ==
  ASSUME TypeOK, Shown, [Next]_vars
  PROVE  Shown'
<1>1. ASSUME NEW p \in Procs, Step(p) PROVE Shown'
  <2>1. \A q \in Procs \ {p} : out'[q] = out[q]  BY <1>1, StepIsOwn
  <2>2. out \in [Procs -> Outcome]  BY DEF TypeOK
  <2>3. \/ out' = out
        \/ \E idx, fam : out'[p].addrs \in {{}, ListedOf(idx, fam)}
    <3>1. ASSUME NEW n \in Names, Open(p, n) PROVE out'[p].addrs = {}
      <4>1. \A kind, val : [kind |-> kind, val |-> val, addrs |-> {}].addrs = {}  OBVIOUS
      <4>2. PICK kind, val : out' = [out EXCEPT ![p] = [kind |-> kind, val |-> val, addrs |-> {}]]
        BY <3>1 DEF Open
      <4> QED  BY <2>2, <4>1, <4>2
    <3>2. ASSUME NEW c \in Calls, Begin(p, c) PROVE out' = out \/ out'[p].addrs = {}
      BY <2>2, <3>2 DEF Begin
    <3>3. CASE GetIndex(p) \/ Discard(p) \/ Check(p)
      BY <2>2, <3>3 DEF GetIndex, Discard, Check, Return, Finish
    <3>4. CASE Act(p) \/ AnswerLost(p)
      BY <2>2, <3>4 DEF Act, AnswerLost, Throw, Finish
    <3>5. CASE Verify(p) \/ Expire(p) \/ Refused(p)
      BY <2>2, <3>5 DEF Verify, Expire, Refused, Return, Throw, Finish
    <3>6. CASE Read(p)
      BY <2>2, <3>6 DEF Read, Return, Finish
    <3> QED  BY <1>1, <3>1, <3>2, <3>3, <3>4, <3>5, <3>6 DEF Step, Proceed
  <2>4. \A a \in out'[p].addrs : a \in IpAddr /\ a.prefix >= 0
    BY <2>3, ListedShown DEF Shown
  <2> QED  BY <2>1, <2>4 DEF Shown
<1>2. ASSUME NEW i \in Indexes, Others(i) PROVE Shown'
  BY <1>2, OthersKeep DEF Shown
<1>3. CASE UNCHANGED vars
  BY <1>3 DEF Shown, vars
<1> QED  BY <1>1, <1>2, <1>3 DEF Next

LEMMA TextOfShown ==
  ASSUME NEW a \in IpAddr, NEW b \in IpAddr, a.prefix >= 0, b.prefix >= 0, Text(a) = Text(b)
  PROVE  a = b \/ (IsV4(a) /\ {a.prefix, b.prefix} = {0, 32})
<1>1. a.prefix \in Int /\ b.prefix \in Int  BY DEF IpAddr
<1>2. /\ a.raw = b.raw
      /\ (IF a.prefix > 0 /\ ~ Implied(a) THEN a.prefix ELSE -1)
           = (IF b.prefix > 0 /\ ~ Implied(b) THEN b.prefix ELSE -1)
  BY DEF Text
<1>3. CASE a.prefix = b.prefix
  <2>1. a.scope = b.scope  BY <1>2, <1>3 DEF IpAddr
  <2> QED  BY <1>2, <1>3, <2>1 DEF IpAddr
<1>4. CASE a.prefix # b.prefix
  <2>1. (a.prefix = 0 \/ Implied(a)) /\ (b.prefix = 0 \/ Implied(b))
    BY <1>1, <1>2, <1>4
  <2>2. IsV4(a) <=> IsV4(b)  BY <1>2 DEF IsV4
  <2> QED  BY <1>4, <2>1, <2>2 DEF Implied
<1> QED  BY <1>3, <1>4

\* Two addresses of an interface are printed alike only if they are one, or an
\* IPv4 address with the prefix lengths 0 and 32.
THEOREM AddressesToldApart == Spec => []TextTellsApart
<1>1. Init => Shown
  <2>1. ASSUME Init, NEW p \in Procs PROVE out[p] = [kind |-> "none", val |-> 0, addrs |-> {}]
    BY <2>1 DEF Init
  <2> QED  BY <2>1 DEF Shown
<1>2. TypeOK /\ Shown /\ [Next]_vars => Shown'  BY ShownStep
<1>3. Shown => TextTellsApart
  BY TextOfShown DEF Shown, TextTellsApart
<1> QED  BY <1>1, <1>2, <1>3, TypeCorrect, PTL DEF Spec
=============================================================================
