------------------------- MODULE NetIfaceQuietProofs -------------------------
(***************************************************************************)
(* The proof of NetIface's UndisturbedCallsAreRight, for any links and     *)
(* calls.  While nobody disturbs it a call knows its link, what it has     *)
(* found out of its goal stays true, and so does what it has changed.      *)
(***************************************************************************)
EXTENDS NetIfaceProofs

USE DEF Raw

Link0(p) == IndexOf(links, nic[p])
GoalNow(p) == GoalHolds(call[p], links, nic[p], Bearers(links, nic[p]))
AddrOps == {"set_ip_address", "del_ip_address"}

\* What a call that has changed its link relies on when it verifies the change.
InPlace(c, link) ==
  /\ c.op = "set_mtu" => link.mtu = c.mtu
  /\ c.op = "set_ip_address" => Entry(c.addr) \in link.addrs
  /\ c.op = "del_ip_address" /\ IsV6(c.addr) => \A e \in link.addrs : e.raw # c.addr.raw

Undisturbed(p) ==
  /\ call[p].idx # 0 => call[p].idx = Link0(p)
  /\ call[p].stage # "verify" => (hist[p].first <=> GoalNow(p))
  /\ call[p].stage = "act" /\ call[p].op \in AddrOps => ~ GoalNow(p)
  /\ call[p].stage = "verify" =>
       /\ Bearers(links, nic[p]) # {} /\ InPlace(call[p], links[Link0(p)])
       /\ call[p].op \in AddrOps => ~ hist[p].first

QuietOK(p) ==
  hist[p].quiet =>
    /\ Idle(p) =>
         /\ Right(call[p], links, Link0(p), out[p])
         /\ hist[p].first /\ call[p].op \in AddrOps => hist[p].changes = 0
    /\ ~ Idle(p) => Undisturbed(p)

-----------------------------------------------------------------------------
(* Links and their names *)

LEMMA OneBearer ==
  ASSUME NEW ls \in [Indexes -> Link], KernelOK(ls), NEW n
  PROVE  /\ Bearers(ls, n) = {} => IndexOf(ls, n) = NotFound
         /\ Bearers(ls, n) # {} =>
              /\ Bearers(ls, n) = {IndexOf(ls, n)}
              /\ IndexOf(ls, n) \in Here(ls) /\ IndexOf(ls, n) \in Indexes
              /\ IndexOf(ls, n) # NotFound
<1>1. \A i, j \in Bearers(ls, n) : i = j  BY DEF Bearers, KernelOK
<1>2. Bearers(ls, n) # {} => IndexOf(ls, n) \in Bearers(ls, n)  BY DEF IndexOf
<1>3. Bearers(ls, n) # {} => IndexOf(ls, n) \in Here(ls) /\ IndexOf(ls, n) \in Indexes
  BY <1>2 DEF Bearers, Here
<1>4. Bearers(ls, n) # {} => Bearers(ls, n) = {IndexOf(ls, n)}  BY <1>1, <1>2
<1>5. Bearers(ls, n) = {} => IndexOf(ls, n) = NotFound  BY DEF IndexOf
<1> QED  BY <1>3, <1>4, <1>5, NoIndex

\* A link that keeps its name and its place is found as before.
LEMMA SameBearers ==
  ASSUME NEW ls \in [Indexes -> Link], NEW i \in Here(ls), NEW l \in Link,
         l.st = "here", l.name = ls[i].name, NEW n
  PROVE  /\ Bearers([ls EXCEPT ![i] = l], n) = Bearers(ls, n)
         /\ IndexOf([ls EXCEPT ![i] = l], n) = IndexOf(ls, n)
<1>1. i \in Indexes /\ ls[i].st = "here"  BY DEF Here
<1> DEFINE new == [ls EXCEPT ![i] = l]
<1>2. Bearers(new, n) = Bearers(ls, n)  BY <1>1 DEF Bearers, Here
<1> HIDE DEF new
<1>3. IndexOf(new, n) = IndexOf(ls, n)  BY <1>2 DEF IndexOf
<1> QED  BY <1>2, <1>3 DEF new

LEMMA GoalOfLink ==
  ASSUME NEW ls \in [Indexes -> Link], KernelOK(ls), NEW n, NEW c, Bearers(ls, n) # {}
  PROVE  GoalHolds(c, ls, n, Bearers(ls, n)) <=> Goal(c, ls[IndexOf(ls, n)])
BY OneBearer DEF GoalHolds

LEMMA SameGoal ==
  ASSUME NEW c, NEW d, c.op = d.op, c.addr = d.addr, c.mtu = d.mtu, NEW l
  PROVE  Goal(c, l) <=> Goal(d, l)
BY DEF Goal

\* A call that goes on to its request has something to do.
LEMMA SomethingToDo ==
  ASSUME TypeOK, NEW c \in Call, InProgress(c), c.op \in AddrOps, NEW n,
         c.idx = IndexOf(links, n), ~ NothingToDo(c)
  PROVE  ~ GoalHolds(c, links, n, Bearers(links, n))
<1>1. links \in [Indexes -> Link] /\ KernelOK(links) /\ c.addr \in IpAddr  BY DEF TypeOK, Call
<1>2. CASE c.op = "set_ip_address"
  <2>1. ~ (c.idx \in Here(links) /\ Asked(c.addr) \in links[c.idx].addrs)
    BY <1>1, <1>2, ListedIsThere DEF InProgress, NothingToDo, AlreadySet
  <2>2. CASE Bearers(links, n) = {}
    BY <1>2, <2>2 DEF GoalHolds
  <2>3. CASE Bearers(links, n) # {}
    <3>1. ~ Goal(c, links[c.idx])  BY <1>1, <1>2, <2>1, <2>3, OneBearer DEF Goal
    <3> QED  BY <1>1, <2>3, <3>1, GoalOfLink
  <2> QED  BY <2>2, <2>3
<1>3. CASE c.op = "del_ip_address"
  <2>1. ~ AlreadyDeleted(c.addr, Listed(c.idx))  BY <1>3 DEF NothingToDo
  <2>2. Listed(c.idx) # {}  BY <2>1 DEF AlreadyDeleted
  <2>3. c.idx \in Here(links)  BY <2>2 DEF Listed, ListedOf
  <2>4. Bearers(links, n) # {} /\ c.idx \in Indexes
    <3>1. c.idx \in Indexes  BY <1>1, <2>3 DEF Here
    <3> QED  BY <1>1, <3>1, OneBearer, NoIndex
  <2>5. links[c.idx] \in Link  BY <1>1, <2>4
  <2>6. \A e \in links[c.idx].addrs : e \in [raw : Raw, plen : Nat]
    BY <2>5, RtnlAssumption DEF Link, Entries
  <2>7. ~ Goal(c, links[c.idx])
    <3>1. CASE IsV4(c.addr)
      <4>1. PICK x \in Listed(c.idx) : WithoutPrefix(x) = WithoutPrefix(c.addr)
        BY <2>1, <3>1 DEF AlreadyDeleted
      <4>2. PICK e \in links[c.idx].addrs : x = FromString(e.raw, e.plen)
        BY <2>3 DEF Listed, ListedOf
      <4>3. e.raw = c.addr.raw  BY <4>1, <4>2, WithoutPrefixTells DEF FromString
      <4> QED  BY <1>3, <3>1, <4>3, IpAddressAssumption DEF Goal, IsV4, IsV6
    <3>2. CASE ~ IsV4(c.addr)
      <4>1. c.addr \in Listed(c.idx)  BY <2>1, <3>2 DEF AlreadyDeleted
      <4>2. PICK e \in links[c.idx].addrs : c.addr = FromString(e.raw, e.plen)
        BY <2>3, <4>1 DEF Listed, ListedOf
      <4>3. c.addr.prefix >= 0  BY <2>6, <4>2 DEF FromString
      <4>4. Asked(c.addr) \in links[c.idx].addrs  BY <1>1, <4>1, <4>3, ListedIsThere
      <4>5. IsV6(c.addr)  BY <1>1, <3>2 DEF IsV4, IsV6, IpAddr
      <4> QED  BY <1>3, <3>2, <4>4, <4>5 DEF Goal
    <3> QED  BY <3>1, <3>2
  <2> QED  BY <1>1, <2>4, <2>7, GoalOfLink
<1> QED  BY <1>2, <1>3 DEF AddrOps
-----------------------------------------------------------------------------
(* Steps and what they leave as it is *)

LEMMA QuietRecorded ==
  ASSUME TypeOK, NEW p \in Procs, NEW actor, Record(actor), ~ (p = actor /\ Idle(p))
  PROVE  /\ hist'[p].quiet => hist[p].quiet /\ (links' # links => p = actor)
         /\ hist'[p].first <=> hist[p].first
         /\ links' = links \/ p # actor => hist'[p].changes = hist[p].changes
<1> DEFINE named == IF Idle(p) THEN hist[p].named ELSE hist[p].named \cup Bearers(links', nic[p])
           moved == links' # links
           quiet == hist[p].quiet /\ (moved => p = actor)
           held == hist[p].held \/ (~ Idle(p) /\ GoalHolds(call[p], links', nic[p], named))
           changes == hist[p].changes + (IF moved /\ p = actor THEN 1 ELSE 0)
<1>1. hist'[p] =
        [quiet |-> quiet, first |-> hist[p].first, held |-> held,
         named |-> named, changes |-> changes]
  BY DEF Record, Recorded
<1>2. hist[p].changes \in Nat  BY DEF TypeOK, History
<1>3. links' = links \/ p # actor => changes = hist[p].changes  BY <1>2
<1> HIDE DEF named, moved, quiet, held, changes
<1>4. hist'[p].quiet = quiet /\ hist'[p].first = hist[p].first /\ hist'[p].changes = changes
  BY <1>1
<1>5. hist'[p].quiet => hist[p].quiet /\ (links' # links => p = actor)
  BY <1>4, Zenon DEF quiet, moved
<1> QED  BY <1>3, <1>4, <1>5

LEMMA RightArguments ==
  ASSUME NEW c, NEW d, c.op = d.op, c.addr = d.addr, c.mtu = d.mtu, c.fam = d.fam,
         NEW ls, NEW i, NEW o
  PROVE  Right(c, ls, i, o) <=> Right(d, ls, i, o)
BY SameGoal DEF Right, RightValue, RightError, RightTimeout, BadPrefix

LEMMA QuietBystander ==
  ASSUME TypeOK, NEW p \in Procs, QuietOK(p), NEW actor, p # actor, Record(actor),
         call'[p] = call[p], nic'[p] = nic[p], out'[p] = out[p]
  PROVE  QuietOK(p)'
<1> SUFFICES ASSUME hist'[p].quiet PROVE QuietOK(p)'
  BY DEF QuietOK
<1>1. /\ hist[p].quiet /\ links' = links
      /\ hist'[p].first <=> hist[p].first
      /\ hist'[p].changes = hist[p].changes
  BY QuietRecorded
<1>2. CASE Idle(p)
  <2>1. /\ Right(call[p], links, Link0(p), out[p])
        /\ hist[p].first /\ call[p].op \in AddrOps => hist[p].changes = 0
    BY <1>1, <1>2 DEF QuietOK
  <2> QED  BY <1>1, <1>2, <2>1 DEF QuietOK, Idle, Link0
<1>3. CASE ~ Idle(p)
  <2>1. Undisturbed(p)  BY <1>1, <1>3 DEF QuietOK
  <2>2. Undisturbed(p)'  BY <1>1, <2>1 DEF Undisturbed, GoalNow, Link0
  <2> QED  BY <1>3, <2>2 DEF QuietOK, Idle
<1> QED  BY <1>2, <1>3

LEMMA QuietProceeding ==
  ASSUME TypeOK, NEW p \in Procs, ~ Idle(p), QuietOK(p), Record(p), nic' = nic, links' = links,
         call'[p].op = call[p].op, call'[p].addr = call[p].addr, call'[p].mtu = call[p].mtu,
         call'[p].stage # "idle",
         call'[p].stage = "verify" <=> call[p].stage = "verify",
         call'[p].idx # 0 => call'[p].idx = Link0(p) \/ call'[p].idx = call[p].idx,
         hist[p].quiet /\ call'[p].stage = "act" /\ call[p].op \in AddrOps =>
           ~ GoalNow(p)
  PROVE  QuietOK(p)'
<1> SUFFICES ASSUME hist'[p].quiet PROVE QuietOK(p)'
  BY DEF QuietOK
<1>1. hist[p].quiet /\ (hist'[p].first <=> hist[p].first)  BY QuietRecorded
<1>2. Undisturbed(p)  BY <1>1 DEF QuietOK
<1>3. GoalNow(p)' <=> GoalNow(p)  BY GoalArguments DEF GoalNow
<1>4. \A l : InPlace(call[p], l) <=> InPlace(call'[p], l)  BY DEF InPlace
<1>5. Link0(p)' = Link0(p)  BY DEF Link0
<1>6. Undisturbed(p)'  BY <1>1, <1>2, <1>3, <1>4, <1>5 DEF Undisturbed
<1> QED  BY <1>6 DEF QuietOK, Idle

LEMMA QuietFinishing ==
  ASSUME TypeOK, NEW p \in Procs, ~ Idle(p), Record(p), nic' = nic, links' = links,
         NEW kind, NEW val, NEW addrs, Finish(p, kind, val, addrs),
         hist[p].quiet =>
           /\ Right(call[p], links, Link0(p), [kind |-> kind, val |-> val, addrs |-> addrs])
           /\ hist[p].first /\ call[p].op \in AddrOps => hist[p].changes = 0
  PROVE  QuietOK(p)'
<1> SUFFICES ASSUME hist'[p].quiet PROVE QuietOK(p)'
  BY DEF QuietOK
<1>1. /\ hist[p].quiet /\ (hist'[p].first <=> hist[p].first)
      /\ hist'[p].changes = hist[p].changes
  BY QuietRecorded
<1>2. call \in [Procs -> Call] /\ call[p] \in Call /\ out \in [Procs -> Outcome]  BY DEF TypeOK
<1>3. /\ call'[p].op = call[p].op /\ call'[p].addr = call[p].addr
      /\ call'[p].mtu = call[p].mtu /\ call'[p].fam = call[p].fam /\ call'[p].stage = "idle"
  BY <1>2 DEF Finish, Call
<1>4. out'[p] = [kind |-> kind, val |-> val, addrs |-> addrs]  BY <1>2 DEF Finish
<1>5. Right(call'[p], links, Link0(p), out'[p])  BY <1>1, <1>3, <1>4, RightArguments
<1>6. Link0(p)' = Link0(p)  BY DEF Link0
<1> QED  BY <1>1, <1>3, <1>5, <1>6 DEF QuietOK, Idle
-----------------------------------------------------------------------------
(* The actions *)

LEMMA QuietOpen ==
  ASSUME TypeOK, NEW p \in Procs, NEW n \in Names, Open(p, n)
  PROVE  QuietOK(p)'
<1>1. call[p] \in Call /\ call \in [Procs -> Call] /\ out \in [Procs -> Outcome]  BY DEF TypeOK
<1>2. call'[p].op = "open" /\ call'[p].stage = "idle"  BY <1>1 DEF Open, Idle, Call
<1>3. /\ out'[p].kind \in {"ok", "netex", "denied"}
      /\ out'[p].kind = "denied" => out'[p].val \in Failures
  BY <1>1 DEF Open, Thrown
<1>4. Right(call'[p], links', Link0(p)', out'[p])
  BY <1>2, <1>3 DEF Right, RightValue, RightError
<1> QED  BY <1>2, <1>4 DEF QuietOK, Idle, AddrOps

LEMMA QuietBegin ==
  ASSUME TypeOK, NEW p \in Procs, NEW c \in Calls, Begin(p, c)
  PROVE  QuietOK(p)'
<1>1. call \in [Procs -> Call] /\ out \in [Procs -> Outcome] /\ c.op \in Ops
  BY NetIfaceAssumption DEF TypeOK
<1>2. hist'[p] = NewHistory(call'[p], links', nic'[p])  BY RecordedOf DEF Begin
<1>3. /\ hist'[p].changes = 0
      /\ hist'[p].first <=> GoalHolds(call'[p], links', nic'[p], Bearers(links', nic'[p]))
  BY <1>2 DEF NewHistory
<1>4. CASE call' = [call EXCEPT ![p] = Started(c, FirstStage(c.op))]
  <2>1. call'[p].op = c.op /\ call'[p].stage = FirstStage(c.op) /\ call'[p].idx = 0
    BY <1>1, <1>4 DEF Started
  <2>2. FirstStage(c.op) \notin {"verify", "idle"}
    BY <1>1 DEF FirstStage, Ops, ChangeOps, ReadOps
  <2>3. c.op \in AddrOps => FirstStage(c.op) # "act"
    BY DEF FirstStage, AddrOps
  <2>4. Undisturbed(p)'  BY <1>3, <2>1, <2>2, <2>3 DEF Undisturbed, GoalNow
  <2> QED  BY <2>1, <2>2, <2>4 DEF QuietOK, Idle
<1>5. CASE BadPrefix(c) /\ call' = [call EXCEPT ![p] = Started(c, "idle")]
           /\ out' = [out EXCEPT ![p] = [kind |-> "netex", val |-> 0, addrs |-> {}]]
  <2>1. /\ call'[p].stage = "idle" /\ call'[p].op = c.op /\ call'[p].addr = c.addr
        /\ out'[p].kind = "netex"
    BY <1>1, <1>5 DEF Started
  <2>2. Right(call'[p], links', Link0(p)', out'[p])
    BY <1>5, <2>1 DEF Right, RightError, BadPrefix
  <2> QED  BY <1>3, <2>1, <2>2 DEF QuietOK, Idle
<1> QED  BY <1>4, <1>5 DEF Begin

LEMMA QuietGetIndex ==
  ASSUME TypeOK, NEW p \in Procs, CallOK(p), QuietOK(p), GetIndex(p)
  PROVE  QuietOK(p)'
<1>1. ~ Idle(p) /\ Record(p) /\ links' = links /\ nic' = nic  BY DEF GetIndex
<1>2. call[p] \in Call /\ call \in [Procs -> Call] /\ call[p].stage \in StagesOf(call[p].op)
  BY <1>1, CallInCourse
<1>3. CASE call[p].stage = "index" /\ Return(p, Link0(p))
  <2>1. call[p].op = "get_index"  BY <1>2, <1>3 DEF StagesOf, ReadOps
  <2>2. Right(call[p], links, Link0(p), [kind |-> "ok", val |-> Link0(p), addrs |-> {}])
    BY <2>1 DEF Right, RightValue
  <2> QED  BY <1>1, <1>3, <2>1, <2>2, QuietFinishing DEF Return, AddrOps
<1>4. CASE call' = [call EXCEPT ![p].idx = Link0(p)]
  <2>1. /\ call'[p].op = call[p].op /\ call'[p].addr = call[p].addr /\ call'[p].mtu = call[p].mtu
        /\ call'[p].stage = call[p].stage /\ call'[p].idx = Link0(p)
    BY <1>2, <1>4 DEF Call
  <2>2. hist[p].quiet /\ call'[p].stage = "act" /\ call[p].op \in AddrOps =>
          ~ GoalNow(p)
    BY <1>1, <2>1 DEF QuietOK, Undisturbed
  <2>3. call'[p].stage # "idle"  BY <1>1, <2>1 DEF Idle
  <2> QED  BY <1>1, <2>1, <2>2, <2>3, QuietProceeding
<1> QED  BY <1>3, <1>4 DEF GetIndex, Link0

LEMMA QuietExpire ==
  ASSUME TypeOK, NEW p \in Procs, QuietOK(p), Expire(p)
  PROVE  QuietOK(p)'
<1>1. /\ ~ Idle(p) /\ Record(p) /\ links' = links /\ nic' = nic
      /\ call[p].stage = "verify" /\ call' = [call EXCEPT ![p].late = TRUE]
  BY DEF Expire, Idle
<1>2. call[p] \in Call /\ call \in [Procs -> Call]  BY DEF TypeOK
<1>3. /\ call'[p].op = call[p].op /\ call'[p].addr = call[p].addr /\ call'[p].mtu = call[p].mtu
      /\ call'[p].stage = call[p].stage /\ call'[p].idx = call[p].idx
  BY <1>1, <1>2 DEF Call
<1> QED  BY <1>1, <1>3, QuietProceeding

\* What a call in its course relies on, if nobody has disturbed it.
LEMMA QuietUnderway ==
  ASSUME TypeOK, NEW p \in Procs, QuietOK(p), ~ Idle(p), hist[p].quiet,
         call[p].idx # 0
  PROVE  /\ Undisturbed(p) /\ call[p].idx = Link0(p)
         /\ call[p].idx \in Indexes \cup {NotFound}
         /\ links \in [Indexes -> Link] /\ KernelOK(links) /\ call[p] \in Call
<1>1. Undisturbed(p)  BY DEF QuietOK
<1> QED  BY <1>1 DEF Undisturbed, TypeOK, Call

LEMMA QuietCheck ==
  ASSUME TypeOK, NEW p \in Procs, CallOK(p), QuietOK(p), Discard(p) \/ Check(p)
  PROVE  QuietOK(p)'
<1>1. ~ Idle(p) /\ Record(p) /\ links' = links /\ nic' = nic /\ call[p].idx # 0
  BY DEF Discard, Check, Idle
<1>2. /\ call[p] \in Call /\ call \in [Procs -> Call] /\ InCall(p) /\ InProgress(call[p])
      /\ call[p].stage \in StagesOf(call[p].op)
  BY <1>1, CallInCourse
<1>3. call[p].stage \in {"discard", "check"}  BY DEF Discard, Check
<1>4. call[p].op \in AddrOps  BY <1>2, <1>3 DEF StagesOf, ReadOps, AddrOps
<1>5. hist[p].changes = 0  BY <1>2, <1>3 DEF InCall, ChangesOnce
<1>6. ASSUME NEW stage \in {"check", "act"}, Goto(p, stage)
      PROVE  /\ call'[p].op = call[p].op /\ call'[p].addr = call[p].addr
             /\ call'[p].mtu = call[p].mtu /\ call'[p].stage = stage /\ call'[p].idx = 0
  BY <1>2, <1>6 DEF Goto, Call
<1>7. CASE Discard(p)
  <2>1. Goto(p, "check")  BY <1>7 DEF Discard
  <2> QED  BY <1>1, <1>3, <1>6, <2>1, QuietProceeding
<1>8. CASE Goto(p, "act") /\ ~ NothingToDo(call[p])
  <2>1. ASSUME hist[p].quiet PROVE ~ GoalNow(p)
    <3>1. call[p].idx = IndexOf(links, nic[p])  BY <1>1, <2>1, QuietUnderway DEF Link0
    <3> QED  BY <1>2, <1>4, <1>8, <3>1, SomethingToDo DEF GoalNow
  <2> QED  BY <1>1, <1>3, <1>6, <1>8, <2>1, QuietProceeding
<1>9. CASE NothingToDo(call[p]) /\ Return(p, 0)
  <2>1. ASSUME hist[p].quiet
        PROVE  Right(call[p], links, Link0(p), [kind |-> "ok", val |-> 0, addrs |-> {}])
    <3>1. call[p].idx = Link0(p) /\ call[p].idx \in Indexes \cup {NotFound}
      BY <1>1, <2>1, QuietUnderway
    <3>2. ASSUME call[p].op = "set_ip_address"
          PROVE  Link0(p) # NotFound /\ Goal(call[p], links[Link0(p)])
      <4>1. AlreadySet(call[p].addr, Listed(call[p].idx))  BY <1>9, <3>2 DEF NothingToDo
      <4> QED  BY <1>2, <3>1, <3>2, <4>1, SetTest, NoIndex
    <3>3. ASSUME call[p].op = "del_ip_address", Link0(p) # NotFound
          PROVE  Goal(call[p], links[Link0(p)])
      <4>1. AlreadyDeleted(call[p].addr, Listed(call[p].idx))  BY <1>9, <3>3 DEF NothingToDo
      <4> QED  BY <1>2, <3>1, <3>3, <4>1, DelTest
    <3> QED  BY <1>4, <3>2, <3>3 DEF Right, RightValue, AddrOps
  <2> QED  BY <1>1, <1>5, <1>9, <2>1, QuietFinishing DEF Return
<1> QED  BY <1>7, <1>8, <1>9 DEF Check

\* The kernel refuses a request of an undisturbed call for the documented
\* reasons only.
LEMMA RightRefusal ==
  ASSUME links \in [Indexes -> Link], KernelOK(links), NEW c \in Call, InProgress(c),
         c.op \in ChangeOps, NEW n, c.idx = IndexOf(links, n),
         c.op \in AddrOps => ~ GoalHolds(c, links, n, Bearers(links, n)),
         NEW a \in Answers(c), a.errno # 0
  PROVE  IF a.errno = EACCES THEN IsV6(c.addr) /\ ~ links[c.idx].v6
                             ELSE RightError(c, links, c.idx, a.errno)
<1> USE DEF Answer, EACCES
<1>1. CASE c.idx \notin Here(links)
  <2>1. a.errno = ENODEV  BY <1>1 DEF Answers
  <2>2. Bearers(links, n) = {} /\ c.idx = NotFound  BY <1>1, OneBearer
  <2>3. c.op # "del_ip_address"  BY <2>2 DEF GoalHolds, AddrOps
  <2> QED  BY <2>1, <2>2, <2>3 DEF RightError, ENODEV
<1>2. CASE c.idx \in Here(links)
  <2>0. c.idx \in Indexes /\ links[c.idx] \in Link  BY <1>2 DEF Here
  <2>1. PICK l \in Link : l = links[c.idx]  BY <2>0
  <2>2. Bearers(links, n) # {}
    BY <2>0, OneBearer, NoIndex
  <2>3. c.op \in AddrOps => ~ Goal(c, l)  BY <2>1, <2>2, GoalOfLink
  <2>4. c.addr \in IpAddr /\ c.addr.raw \in Raw /\ c.addr.prefix \in Int
    BY DEF Call, IpAddr
  <2>5. /\ Entry(c.addr) = [raw |-> c.addr.raw, plen |-> c.addr.prefix % 256]
        /\ Asked(c.addr) = [raw |-> c.addr.raw, plen |-> c.addr.prefix]
    BY DEF Entry, Asked
  <2>6. \A e \in l.addrs : e = [raw |-> e.raw, plen |-> e.plen] /\ e.plen \in Nat /\ e.plen <= 128
    <3>1. \A e \in l.addrs : e \in [raw : Raw, plen : Nat] /\ e.plen <= MaxPrefix(e.raw)
      BY RtnlAssumption DEF Link, Entries
    <3> QED  BY <3>1, MaxPrefixType
  <2>7. CASE c.op = "set_mtu"
    <3>1. a \in SetLink(l, c.mtu, MtuFlags, MtuChange)  BY <1>2, <2>1, <2>7 DEF Answers
    <3>2. a.errno = EINVAL /\ c.mtu > MtuLimit  BY <3>1 DEF SetLink
    <3> QED  BY <2>7, <3>2 DEF RightError, EINVAL
  <2>8. CASE c.op = "set_ip_address"
    <3> DEFINE e == Entry(c.addr)
    <3>1. a \in NewAddr(l, e)  BY <1>2, <2>1, <2>8 DEF Answers
    <3>2. Asked(c.addr) \notin l.addrs  BY <2>3, <2>8 DEF Goal, AddrOps
    <3>3. e.raw = c.addr.raw /\ e.plen = c.addr.prefix % 256 /\ c.addr.prefix >= 0
      BY <2>5, <2>8 DEF InProgress
    <3>4. c.addr.prefix % 256 <= c.addr.prefix
          /\ (c.addr.prefix % 256 # c.addr.prefix => c.addr.prefix > 255)
      BY <2>4, <3>3
    <3> HIDE DEF e
    <3>5. CASE e.plen > MaxPrefix(e.raw)
      <4>1. a.errno = EINVAL  BY <3>1, <3>5 DEF NewAddr
      <4>2. c.addr.prefix > MaxPrefix(c.addr.raw)
        BY <2>4, <3>3, <3>4, <3>5, MaxPrefixType
      <4> QED  BY <2>8, <4>1, <4>2 DEF RightError, EINVAL
    <3>6. CASE ~ (e.plen > MaxPrefix(e.raw)) /\ e.raw \in V6 /\ ~ l.v6
      <4>1. a.errno = EACCES  BY <3>1, <3>6 DEF NewAddr
      <4> QED  BY <2>1, <3>3, <3>6, <4>1 DEF IsV6
    <3>7. CASE ~ (e.plen > MaxPrefix(e.raw)) /\ ~ (e.raw \in V6 /\ ~ l.v6)
      <4>1. PICK d \in l.addrs : d.raw = e.raw /\ (d.raw \in V4 => d = e)
        BY <3>1, <3>7 DEF NewAddr
      <4>2. a.errno = EEXIST  BY <3>1, <3>7, <4>1 DEF NewAddr
      <4>3. d.plen # c.addr.prefix
        <5>1. d.raw = c.addr.raw /\ d = [raw |-> d.raw, plen |-> d.plen]  BY <2>6, <3>3, <4>1
        <5> QED  BY <2>5, <3>2, <5>1
      <4>4. IsV6(c.addr) \/ c.addr.prefix > 255
        BY <2>4, <3>3, <3>4, <4>1, <4>3 DEF IsV6
      <4>5. d.raw = c.addr.raw  BY <3>3, <4>1
      <4> QED  BY <2>1, <2>8, <4>2, <4>3, <4>4, <4>5 DEF RightError, EEXIST
    <3> QED  BY <3>5, <3>6, <3>7
  <2>9. CASE c.op = "del_ip_address"
    <3> DEFINE e == Entry(c.addr)
               matches == {d \in l.addrs : d.raw = e.raw /\ (d.raw \in V6 => d = e)}
    <3>1. a \in DelAddr(l, e)  BY <1>2, <2>1, <2>9 DEF Answers
    <3>2. matches = {}  BY <3>1 DEF DelAddr
    <3>3. FALSE
      <4>1. CASE IsV4(c.addr)
        <5>1. PICK d \in l.addrs : d.raw = c.addr.raw
          BY <2>3, <2>9, <4>1, IpAddressAssumption DEF Goal, AddrOps, IsV4, IsV6
        <5>2. d \in matches  BY <2>5, <4>1, <5>1, IpAddressAssumption DEF IsV4
        <5> QED  BY <3>2, <5>2
      <4>2. CASE ~ IsV4(c.addr)
        <5>1. IsV6(c.addr)  BY <2>4, <4>2 DEF IsV4, IsV6
        <5>2. Asked(c.addr) \in l.addrs
          BY <2>3, <2>9, <4>2, <5>1 DEF Goal, AddrOps
        <5>3. c.addr.prefix \in Nat /\ c.addr.prefix <= 128
          <6>1. Asked(c.addr).plen = c.addr.prefix  BY <2>5
          <6> QED  BY <2>6, <5>2, <6>1
        <5>4. c.addr.prefix % 256 = c.addr.prefix  BY <5>3
        <5>5. Asked(c.addr) = e  BY <2>5, <5>4
        <5>6. Asked(c.addr) \in matches  BY <5>2, <5>5
        <5> QED  BY <3>2, <5>6
      <4> QED  BY <4>1, <4>2
    <3> QED  BY <3>3
  <2> QED  BY <2>7, <2>8, <2>9 DEF ChangeOps
<1> QED  BY <1>1, <1>2

\* What a request leaves behind when it is executed.
LEMMA RightChange ==
  ASSUME links \in [Indexes -> Link], KernelOK(links), NEW c \in Call, InProgress(c),
         c.op \in ChangeOps, c.idx # 0, NEW a \in Answers(c), a.errno = 0
  PROVE  InPlace(c, a.link)
<1>1. /\ c.idx \in Here(links)
      /\ c.op = "set_mtu" => a.link.mtu = c.mtu
      /\ c.op = "set_ip_address" => Entry(c.addr) \in a.link.addrs
  BY AnswersFit
<1>2. ASSUME c.op = "del_ip_address", IsV6(c.addr)
      PROVE  \A d \in a.link.addrs : d.raw # c.addr.raw
  <2>0. c.idx \in Indexes /\ links[c.idx] \in Link  BY <1>1 DEF Here
  <2>1. PICK l \in Link : l = links[c.idx]  BY <2>0
  <2> DEFINE e == Entry(c.addr)
             matches == {d \in l.addrs : d.raw = e.raw /\ (d.raw \in V6 => d = e)}
  <2>2. e.raw = c.addr.raw /\ e.raw \in V6  BY <1>2 DEF Entry, IsV6
  <2>3. a \in DelAddr(l, e)  BY <1>1, <1>2, <2>1 DEF Answers
  <2> HIDE DEF e
  <2>4. matches # {}  BY <2>3 DEF DelAddr, Answer, EADDRNOTAVAIL
  <2>5. PICK d \in matches : a = [errno |-> 0, link |-> [l EXCEPT !.addrs = @ \ {d}]]
    BY <2>3, <2>4 DEF DelAddr, Answer
  <2>6. d \in l.addrs /\ d.raw = e.raw  OBVIOUS
  <2>7. a.link = [l EXCEPT !.addrs = @ \ {d}]  BY <2>5
  <2>8. a.link.addrs = l.addrs \ {d}  BY <2>7 DEF Link
  <2>9. \A f \in l.addrs : f.raw = e.raw => f = d
    BY <2>0, <2>1, <2>2, <2>6 DEF KernelOK
  <2> QED  BY <2>2, <2>8, <2>9
<1> QED  BY <1>1, <1>2 DEF InPlace

LEMMA QuietAct ==
  ASSUME TypeOK, NEW p \in Procs, CallOK(p), QuietOK(p), Act(p)
  PROVE  QuietOK(p)'
<1>1. Record(p) /\ nic' = nic /\ call[p].stage = "act" /\ call[p].idx # 0  BY DEF Act
<1>2. /\ call[p].op \in ChangeOps /\ ~ Idle(p) /\ hist[p].changes = 0
      /\ InCall(p) /\ InProgress(call[p])
  BY <1>1, ToAct
<1>3. /\ call[p] \in Call /\ call \in [Procs -> Call]
      /\ links \in [Indexes -> Link] /\ KernelOK(links)
  BY DEF TypeOK
<1>4. PICK a \in Answers(call[p]) :
        \/ /\ a.errno = 0
           /\ links' = [links EXCEPT ![call[p].idx] = a.link]
           /\ Goto(p, "verify")
        \/ /\ a.errno # 0
           /\ Throw(p, a.errno)
           /\ UNCHANGED links
  BY DEF Act
<1>5. ASSUME hist[p].quiet
      PROVE  /\ call[p].idx = Link0(p)
             /\ call[p].op \in AddrOps => ~ GoalNow(p) /\ ~ hist[p].first
  <2>1. Undisturbed(p) /\ call[p].idx = Link0(p)  BY <1>1, <1>2, <1>5, QuietUnderway
  <2> QED  BY <1>1, <2>1 DEF Undisturbed
<1>6. CASE a.errno = 0
  <2> SUFFICES ASSUME hist'[p].quiet PROVE QuietOK(p)'
    BY DEF QuietOK
  <2>1. hist[p].quiet /\ (hist'[p].first <=> hist[p].first)  BY <1>1, <1>2, QuietRecorded
  <2> DEFINE i == call[p].idx
  <2>2. i = IndexOf(links, nic[p]) /\ (call[p].op \in AddrOps => ~ hist[p].first)
    BY <1>5, <2>1 DEF Link0
  <2>3. /\ i \in Here(links) /\ a.link \in Link
        /\ a.link.st = "here" /\ a.link.name = links[i].name
    BY <1>1, <1>2, <1>3, <1>6, AnswersFit
  <2>4. i \in Indexes  BY <1>3, <2>3 DEF Here
  <2>5. links' = [links EXCEPT ![i] = a.link] /\ Goto(p, "verify")  BY <1>4, <1>6
  <2>6. InPlace(call[p], a.link)  BY <1>1, <1>2, <1>3, <1>6, RightChange
  <2> HIDE DEF i
  <2>7. Bearers(links', nic'[p]) # {} /\ Link0(p)' = i
    <3>1. /\ Bearers(links', nic[p]) = Bearers(links, nic[p])
          /\ IndexOf(links', nic[p]) = IndexOf(links, nic[p])
      BY <1>3, <2>3, <2>5, SameBearers
    <3>2. Bearers(links, nic[p]) # {}
      BY <1>3, <2>2, <2>4, OneBearer, NoIndex
    <3> QED  BY <1>1, <2>2, <3>1, <3>2 DEF Link0
  <2>8. links'[i] = a.link  BY <1>3, <2>4, <2>5
  <2>9. /\ call'[p].op = call[p].op /\ call'[p].addr = call[p].addr /\ call'[p].mtu = call[p].mtu
        /\ call'[p].stage = "verify" /\ call'[p].idx = 0
    BY <1>3, <2>5 DEF Goto, Call
  <2>10. InPlace(call'[p], links'[i])  BY <2>6, <2>8, <2>9 DEF InPlace
  <2>11. Undisturbed(p)'  BY <2>1, <2>2, <2>7, <2>9, <2>10 DEF Undisturbed
  <2> QED  BY <2>9, <2>11 DEF QuietOK, Idle
<1>7. CASE a.errno # 0
  <2> DEFINE kind == IF a.errno = EACCES THEN "denied" ELSE "netex"
  <2>1. Finish(p, kind, a.errno, {}) /\ links' = links  BY <1>4, <1>7 DEF Throw, Thrown
  <2>2. ASSUME hist[p].quiet
        PROVE  Right(call[p], links, Link0(p), [kind |-> kind, val |-> a.errno, addrs |-> {}])
    <3>1. call[p].idx = Link0(p)  BY <1>5, <2>2
    <3>2. call[p].op \in AddrOps => ~ GoalHolds(call[p], links, nic[p], Bearers(links, nic[p]))
      BY <1>5, <2>2 DEF GoalNow
    <3>3. IF a.errno = EACCES THEN IsV6(call[p].addr) /\ ~ links[call[p].idx].v6
                              ELSE RightError(call[p], links, call[p].idx, a.errno)
      BY <1>2, <1>3, <1>7, <3>1, <3>2, RightRefusal DEF Link0
    <3> QED  BY <3>1, <3>3 DEF Right
  <2> HIDE DEF kind
  <2> QED  BY <1>1, <1>2, <2>1, <2>2, QuietFinishing
<1> QED  BY <1>6, <1>7

\* What WaitFor sees of an undisturbed change that it does not find.
LEMMA QuietUnseen ==
  ASSUME TypeOK, NEW c \in Call, InProgress(c), c.op \in ChangeOps,
         c.idx \in Here(links), InPlace(c, links[c.idx]), FALSE \in Verdicts(c)
  PROVE  RightTimeout(c, links, c.idx)
<1>1. c.idx \in Indexes /\ links[c.idx] \in Link  BY DEF TypeOK, Here
<1>2. c.addr \in IpAddr /\ c.addr.prefix \in Int /\ c.addr.raw \in Raw  BY DEF Call, IpAddr
<1>3. CASE c.op = "set_mtu"
  BY <1>3 DEF Verdicts, MtuRead, InPlace
<1>4. CASE c.op = "set_ip_address"
  <2>1. ~ AlreadySet(c.addr, Listed(c.idx))  BY <1>4 DEF Verdicts
  <2>2. c.addr.prefix >= 0  BY <1>4 DEF InProgress
  <2>3. Asked(c.addr) \notin links[c.idx].addrs
    BY <1>2, <2>1, <2>2, ListedIsThere DEF AlreadySet
  <2>4. Entry(c.addr) \in links[c.idx].addrs  BY <1>4 DEF InPlace
  <2>5. c.addr.prefix % 256 # c.addr.prefix  BY <2>3, <2>4 DEF Asked, Entry
  <2>6. c.addr.prefix > 255  BY <1>2, <2>2, <2>5
  <2>7. Entry(c.addr).raw = c.addr.raw  BY DEF Entry
  <2> QED  BY <1>4, <2>4, <2>6, <2>7 DEF RightTimeout
<1>5. CASE c.op = "del_ip_address"
  <2>1. WithoutPrefix(c.addr) \in {WithoutPrefix(x) : x \in Listed(c.idx)}
    BY <1>5 DEF Verdicts
  <2>2. PICK x \in Listed(c.idx) : WithoutPrefix(x) = WithoutPrefix(c.addr)  BY <2>1
  <2>3. PICK e \in links[c.idx].addrs : x = FromString(e.raw, e.plen)
    BY <2>2 DEF Listed, ListedOf
  <2>4. e.raw = c.addr.raw  BY <2>2, <2>3, WithoutPrefixTells DEF FromString
  <2>5. ~ IsV6(c.addr)  BY <1>5, <2>4 DEF InPlace
  <2> QED  BY <1>2, <1>5, <2>4, <2>5 DEF RightTimeout, IsV4, IsV6
<1> QED  BY <1>3, <1>4, <1>5 DEF ChangeOps

LEMMA QuietVerify ==
  ASSUME TypeOK, NEW p \in Procs, CallOK(p), QuietOK(p), Verify(p)
  PROVE  QuietOK(p)'
<1>1. /\ ~ Idle(p) /\ Record(p) /\ links' = links /\ nic' = nic
      /\ call[p].idx # 0 /\ call[p].stage = "verify"
  BY DEF Verify, Idle
<1>2. /\ call[p] \in Call /\ call \in [Procs -> Call] /\ InProgress(call[p])
      /\ call[p].stage \in StagesOf(call[p].op)
  BY <1>1, CallInCourse
<1>3. call[p].op \in ChangeOps  BY <1>1, <1>2 DEF StagesOf, ReadOps, ChangeOps
<1>4. ASSUME hist[p].quiet
      PROVE  /\ call[p].idx = Link0(p) /\ call[p].idx \in Here(links)
             /\ call[p].idx \in Indexes /\ call[p].idx # NotFound
             /\ InPlace(call[p], links[call[p].idx])
             /\ call[p].op \in AddrOps => ~ hist[p].first
  <2>1. /\ Undisturbed(p) /\ call[p].idx = Link0(p)
        /\ links \in [Indexes -> Link] /\ KernelOK(links)
    BY <1>1, <1>4, QuietUnderway
  <2>2. Bearers(links, nic[p]) # {}  BY <1>1, <2>1 DEF Undisturbed
  <2> QED  BY <1>1, <2>1, <2>2, OneBearer DEF Undisturbed, Link0
<1>5. PICK satisfied \in Verdicts(call[p]) :
        \/ satisfied /\ Return(p, 0)
        \/ ~ satisfied /\ Finish(p, "timeout", 0, {})
        \/ Goto(p, RetryFrom)
  BY DEF Verify
<1>6. satisfied \in BOOLEAN
  <2>1. CASE call[p].op = "set_mtu"
    <3>1. satisfied \in {m = call[p].mtu : m \in MtuRead(call[p].idx)}  BY <1>5, <2>1 DEF Verdicts
    <3>2. PICK m \in MtuRead(call[p].idx) : satisfied = (m = call[p].mtu)  BY <3>1
    <3> QED  BY <3>2, Zenon
  <2>2. CASE call[p].op = "set_ip_address"
    <3>1. Verdicts(call[p]) \subseteq BOOLEAN  BY <2>2 DEF Verdicts, AlreadySet
    <3> QED  BY <1>5, <3>1
  <2>3. CASE call[p].op = "del_ip_address"
    <3>1. satisfied = (WithoutPrefix(call[p].addr) \notin
                         {WithoutPrefix(x) : x \in Listed(call[p].idx)})
      BY <1>5, <2>3 DEF Verdicts
    <3> QED  BY <3>1, Zenon
  <2> QED  BY <1>3, <2>1, <2>2, <2>3 DEF ChangeOps
<1>7. CASE satisfied /\ Return(p, 0)
  <2>1. ASSUME hist[p].quiet
        PROVE  Right(call[p], links, Link0(p), [kind |-> "ok", val |-> 0, addrs |-> {}])
    <3>1. /\ call[p].idx = Link0(p) /\ call[p].idx \in Indexes /\ call[p].idx # NotFound
          /\ InPlace(call[p], links[call[p].idx])
      BY <1>4, <2>1
    <3>2. ASSUME call[p].op = "set_mtu" PROVE Goal(call[p], links[call[p].idx])
      BY <3>1, <3>2 DEF InPlace, Goal
    <3>3. ASSUME call[p].op = "set_ip_address" PROVE Goal(call[p], links[call[p].idx])
      <4>1. AlreadySet(call[p].addr, Listed(call[p].idx))
        BY <1>5, <1>7, <3>3 DEF Verdicts
      <4> QED  BY <1>2, <3>3, <4>1, SetTest
    <3>4. ASSUME call[p].op = "del_ip_address" PROVE Goal(call[p], links[call[p].idx])
      <4>1. WithoutPrefix(call[p].addr) \notin {WithoutPrefix(x) : x \in Listed(call[p].idx)}
        BY <1>5, <1>7, <3>4 DEF Verdicts
      <4> QED  BY <1>2, <3>1, <3>4, <4>1, DelTest
    <3> QED  BY <1>3, <3>1, <3>2, <3>3, <3>4 DEF Right, RightValue, ChangeOps
  <2>2. hist[p].quiet /\ call[p].op \in AddrOps => ~ hist[p].first  BY <1>4
  <2> QED  BY <1>1, <1>7, <2>1, <2>2, QuietFinishing DEF Return
<1>8. CASE ~ satisfied /\ Finish(p, "timeout", 0, {})
  <2>1. ASSUME hist[p].quiet
        PROVE  Right(call[p], links, Link0(p), [kind |-> "timeout", val |-> 0, addrs |-> {}])
    <3>1. /\ call[p].idx = Link0(p) /\ call[p].idx \in Here(links)
          /\ InPlace(call[p], links[call[p].idx])
      BY <1>4, <2>1
    <3>2. satisfied = FALSE  BY <1>6, <1>8
    <3>3. FALSE \in Verdicts(call[p])  BY <1>5, <3>2
    <3>4. RightTimeout(call[p], links, call[p].idx)
      BY <1>2, <1>3, <3>1, <3>3, QuietUnseen
    <3> QED  BY <3>1, <3>4 DEF Right
  <2>2. hist[p].quiet /\ call[p].op \in AddrOps => ~ hist[p].first  BY <1>4
  <2> QED  BY <1>1, <1>8, <2>1, <2>2, QuietFinishing
<1>9. CASE Goto(p, RetryFrom)
  <2>1. /\ call'[p].op = call[p].op /\ call'[p].addr = call[p].addr /\ call'[p].mtu = call[p].mtu
        /\ call'[p].stage = "verify" /\ call'[p].idx = 0
    BY <1>2, <1>9 DEF Goto, RetryFrom, Call
  <2> QED  BY <1>1, <2>1, QuietProceeding
<1> QED  BY <1>5, <1>7, <1>8, <1>9

\* The entries that a dump of an interface shows are those of the families asked
\* for.
LEMMA ListedEntries ==
  ASSUME TypeOK, NEW i \in Here(links), NEW fam \in Families
  PROVE  {Entry(a) : a \in ListedOf(i, fam)} =
           UNION {AddrsOfFamily(links[i], IF f = "v4" THEN V4 ELSE V6) : f \in fam}
<1>1. links[i] \in Link  BY DEF TypeOK, Here
<1>2. PICK l \in Link : l = links[i]  BY <1>1
<1>3. ASSUME NEW e \in l.addrs
      PROVE  /\ Entry(FromString(e.raw, e.plen)) = e
             /\ e.raw \in V4 \/ e.raw \in V6
             /\ ~ (e.raw \in V4 /\ e.raw \in V6)
  <2>1. e \in [raw : Raw, plen : Nat] /\ e.plen <= MaxPrefix(e.raw)
    BY RtnlAssumption DEF Link, Entries
  <2>2. e.plen \in Nat /\ e.plen <= 128  BY <2>1, MaxPrefixType
  <2>3. FromString(e.raw, e.plen).raw = e.raw /\ FromString(e.raw, e.plen).prefix = e.plen
    BY <2>2 DEF FromString
  <2>4. e.plen % 256 = e.plen  BY <2>2
  <2>5. e = [raw |-> e.raw, plen |-> e.plen]  BY <2>1
  <2>6. Entry(FromString(e.raw, e.plen)) = e  BY <2>3, <2>4, <2>5 DEF Entry
  <2> QED  BY <2>1, <2>6, IpAddressAssumption
<1> DEFINE shown == {e \in l.addrs : Selects(fam, e.raw)}
           asked == UNION {AddrsOfFamily(l, IF f = "v4" THEN V4 ELSE V6) : f \in fam}
<1>4. ListedOf(i, fam) = {FromString(e.raw, e.plen) : e \in shown}
  BY <1>2 DEF ListedOf
<1>5. {Entry(a) : a \in ListedOf(i, fam)} = shown
  BY <1>3, <1>4
<1>6. fam \in {{"v4"}, {"v6"}, {"v4", "v6"}}  BY DEF Families, All
<1>7. ASSUME NEW e \in l.addrs PROVE Selects(fam, e.raw) <=> e \in asked
  <2>1. /\ Has(fam, "v4") <=> "v4" \in fam
        /\ Has(fam, "v6") <=> "v6" \in fam
    BY DEF Has
  <2>2. e \in asked <=> \E f \in fam : e.raw \in (IF f = "v4" THEN V4 ELSE V6)
    BY DEF AddrsOfFamily
  <2>3. CASE e.raw \in V4
    <3>1. e \in asked <=> "v4" \in fam  BY <1>3, <1>6, <2>2, <2>3
    <3> QED  BY <2>1, <2>3, <3>1 DEF Selects
  <2>4. CASE e.raw \notin V4
    <3>1. e \in asked <=> "v6" \in fam  BY <1>3, <1>6, <2>2, <2>4
    <3> QED  BY <2>1, <2>4, <3>1 DEF Selects
  <2> QED  BY <2>3, <2>4
<1>8. asked \subseteq l.addrs  BY DEF AddrsOfFamily
<1>9. shown = asked  BY <1>7, <1>8
<1> QED  BY <1>2, <1>5, <1>9

LEMMA QuietRead ==
  ASSUME TypeOK, NEW p \in Procs, CallOK(p), QuietOK(p), Read(p)
  PROVE  QuietOK(p)'
<1>1. /\ ~ Idle(p) /\ Record(p) /\ links' = links /\ nic' = nic
      /\ call[p].idx # 0 /\ call[p].stage = "read"
  BY DEF Read, Idle
<1>2. call[p] \in Call /\ call[p].stage \in StagesOf(call[p].op)  BY <1>1, CallInCourse
<1>3. call[p].op \notin AddrOps  BY <1>1, <1>2 DEF StagesOf, ReadOps, AddrOps
<1>4. ASSUME hist[p].quiet
      PROVE  /\ call[p].idx = Link0(p)
             /\ Link0(p) # NotFound => Link0(p) \in Here(links)
             /\ Link0(p) = NotFound => Link0(p) \notin Here(links)
  <2>1. /\ call[p].idx = Link0(p) /\ links \in [Indexes -> Link] /\ KernelOK(links)
    BY <1>1, <1>4, QuietUnderway
  <2> QED  BY <2>1, OneBearer, NoIndex DEF Link0, Here
<1>5. ASSUME NEW m \in MtuRead(call[p].idx), call[p].op = "get_mtu", Return(p, m)
      PROVE  QuietOK(p)'
  <2>1. ASSUME hist[p].quiet
        PROVE  Right(call[p], links, Link0(p), [kind |-> "ok", val |-> m, addrs |-> {}])
    BY <1>4, <1>5, <2>1 DEF Right, RightValue, MtuRead
  <2> QED  BY <1>1, <1>3, <1>5, <2>1, QuietFinishing DEF Return
<1>6. ASSUME call[p].op = "get_mac_address", Return(p, MacRead(call[p].idx))
      PROVE  QuietOK(p)'
  <2>1. ASSUME hist[p].quiet
        PROVE  Right(call[p], links, Link0(p),
                     [kind |-> "ok", val |-> MacRead(call[p].idx), addrs |-> {}])
    BY <1>4, <1>6, <2>1 DEF Right, RightValue, MacRead
  <2> QED  BY <1>1, <1>3, <1>6, <2>1, QuietFinishing DEF Return
<1>7. ASSUME call[p].op = "get_ip_addresses",
             Finish(p, "ok", 0, ListedOf(call[p].idx, call[p].fam))
      PROVE  QuietOK(p)'
  <2> DEFINE addrs == ListedOf(call[p].idx, call[p].fam)
  <2>1. ASSUME hist[p].quiet
        PROVE  Right(call[p], links, Link0(p), [kind |-> "ok", val |-> 0, addrs |-> addrs])
    <3>1. call[p].fam \in Families  BY <1>2 DEF Call
    <3>2. CASE Link0(p) = NotFound
      <4>1. addrs = {}  BY <1>4, <2>1, <3>2 DEF ListedOf
      <4>2. {Entry(a) : a \in addrs} = {}  BY <4>1
      <4> HIDE DEF addrs
      <4> QED  BY <1>7, <3>2, <4>2 DEF Right, RightValue
    <3>3. CASE Link0(p) # NotFound
      <4>1. {Entry(a) : a \in addrs} =
              UNION {AddrsOfFamily(links[Link0(p)], IF f = "v4" THEN V4 ELSE V6) : f \in call[p].fam}
        BY <1>4, <2>1, <3>1, <3>3, ListedEntries
      <4> HIDE DEF addrs
      <4> QED  BY <1>7, <3>3, <4>1 DEF Right, RightValue
    <3> QED  BY <3>2, <3>3
  <2> HIDE DEF addrs
  <2>2. Finish(p, "ok", 0, addrs)  BY <1>7 DEF addrs
  <2> QED  BY <1>1, <1>3, <2>1, <2>2, QuietFinishing
<1> QED  BY <1>5, <1>6, <1>7 DEF Read
\* A call of which a transaction fails is right to throw.
LEMMA QuietFailure ==
  ASSUME TypeOK, NEW p \in Procs, CallOK(p), QuietOK(p), Refused(p) \/ AnswerLost(p)
  PROVE  QuietOK(p)'
<1>1. ~ Idle(p) /\ Record(p) /\ nic' = nic  BY DEF Refused, AnswerLost, Idle
<1>2. call[p] \in Call /\ call \in [Procs -> Call] /\ out \in [Procs -> Outcome]  BY DEF TypeOK
<1>3. ASSUME NEW e \in Failures, NEW c, NEW ls, NEW i
      PROVE  Right(c, ls, i, [kind |-> Thrown(e), val |-> e, addrs |-> {}])
  <2>1. PICK kind \in {"netex", "denied"} : kind = Thrown(e)  BY FailureKinds
  <2>2. Right(c, ls, i, [kind |-> kind, val |-> e, addrs |-> {}])
    BY <1>3 DEF Right, RightError
  <2> QED  BY <2>1, <2>2
<1>4. CASE Refused(p)
  <2>1. PICK e \in Failures : Finish(p, Thrown(e), e, {}) /\ links' = links
    BY <1>4 DEF Refused, Throw
  <2>2. hist[p].quiet /\ hist[p].first /\ call[p].op \in AddrOps => hist[p].changes = 0
    <3>1. SUFFICES ASSUME hist[p].quiet, hist[p].first, call[p].op \in AddrOps
                   PROVE  hist[p].changes = 0
      OBVIOUS
    <3>2. call[p].stage # "verify"  BY <1>1, <3>1 DEF QuietOK, Undisturbed
    <3> QED  BY <1>1, <3>2, CallInCourse DEF InCall, ChangesOnce
  <2> QED  BY <1>1, <1>3, <2>1, <2>2, QuietFinishing
<1>5. CASE AnswerLost(p)
  <2>1. Finish(p, Thrown(0), 0, {}) /\ call[p].stage = "act" /\ 0 \in Failures
    BY <1>5 DEF AnswerLost, Throw
  <2>2. /\ call'[p].stage = "idle" /\ call'[p].op = call[p].op
        /\ out'[p] = [kind |-> Thrown(0), val |-> 0, addrs |-> {}]
    BY <1>2, <2>1 DEF Finish, Call
  <2>3. Right(call'[p], links', Link0(p)', out'[p])  BY <1>3, <2>1, <2>2
  <2>4. hist'[p].quiet /\ call[p].op \in AddrOps => ~ hist'[p].first
    <3>1. hist'[p].quiet => hist[p].quiet /\ (hist'[p].first <=> hist[p].first)
      BY <1>1, QuietRecorded
    <3> QED  BY <1>1, <2>1, <3>1 DEF QuietOK, Undisturbed
  <2> QED  BY <2>2, <2>3, <2>4 DEF QuietOK, Idle
<1> QED  BY <1>4, <1>5
-----------------------------------------------------------------------------
(* The theorem *)

QuietInv == Inductive /\ \A p \in Procs : QuietOK(p)

LEMMA QuietInit == Init => QuietInv
<1> SUFFICES ASSUME Init PROVE QuietInv
  OBVIOUS
<1>1. Inductive  BY InitInductive
<1>2. ASSUME NEW p \in Procs PROVE QuietOK(p)
  <2>1. call[p] = NoCall /\ out[p] = [kind |-> "none", val |-> 0, addrs |-> {}]  BY DEF Init
  <2>2. call[p].stage = "idle" /\ call[p].op = "open" /\ out[p].kind = "none"
    BY <2>1 DEF NoCall
  <2> QED  BY <2>2 DEF QuietOK, Idle, Right, AddrOps
<1> QED  BY <1>1, <1>2 DEF QuietInv

LEMMA QuietStep ==
  ASSUME QuietInv, [Next]_vars
  PROVE  QuietInv'
<1>1. TypeOK /\ Inductive /\ \A p \in Procs : CallOK(p) /\ QuietOK(p)
  BY InductiveByCaller DEF QuietInv
<1>2. Inductive'  BY <1>1, StepInductive
<1>3. ASSUME NEW p \in Procs, Step(p) PROVE \A q \in Procs : QuietOK(q)'
  <2>1. /\ Record(p)
        /\ \A q \in Procs \ {p} : call'[q] = call[q] /\ nic'[q] = nic[q] /\ out'[q] = out[q]
    BY <1>1, <1>3, StepIsOwn
  <2>2. QuietOK(p)'
    BY <1>1, <1>3, QuietOpen, QuietBegin, QuietGetIndex, QuietCheck, QuietAct, QuietVerify,
       QuietRead, QuietExpire, QuietFailure DEF Step, Proceed
  <2>3. ASSUME NEW q \in Procs \ {p} PROVE QuietOK(q)'
    BY <1>1, <2>1, QuietBystander
  <2> QED  BY <2>2, <2>3
<1>4. ASSUME NEW i \in Indexes, Others(i) PROVE \A q \in Procs : QuietOK(q)'
  <2>1. UNCHANGED <<nic, call, out>> /\ Record("others")  BY <1>1, <1>4, OthersKeep
  <2>2. ASSUME NEW q \in Procs PROVE QuietOK(q)'
    <3>1. q # "others"  BY NetIfaceAssumption
    <3> QED  BY <1>1, <2>1, <3>1, QuietBystander
  <2> QED  BY <2>2
<1>5. CASE UNCHANGED vars
  <2>1. ASSUME NEW q \in Procs PROVE QuietOK(q)'
    <3>1. QuietOK(q)  BY <1>1
    <3> QED  BY <1>5, <3>1 DEF vars, QuietOK, Undisturbed, GoalNow, Link0, Idle
  <2> QED  BY <1>2, <2>1 DEF QuietInv
<1>6. CASE Next
  <2>1. \A q \in Procs : QuietOK(q)'  BY <1>3, <1>4, <1>6 DEF Next
  <2> QED  BY <1>2, <2>1 DEF QuietInv
<1> QED  BY <1>5, <1>6

\* The answer to a call that nobody disturbs is right, whatever the links, the
\* addresses and the prefix lengths, and its errors are the documented ones.
THEOREM UndisturbedRight == Spec => []UndisturbedCallsAreRight
<1>1. QuietInv => UndisturbedCallsAreRight
  BY DEF QuietInv, QuietOK, UndisturbedCallsAreRight, Link0, AddrOps
<1> QED  BY <1>1, QuietInit, QuietStep, PTL DEF Spec
=============================================================================
