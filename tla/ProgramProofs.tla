---------------------------- MODULE ProgramProofs ----------------------------
(***************************************************************************)
(* Proofs about Program, for any links, addresses and number of runs:      *)
(* types, and which exceptions main() lets pass; and of a run that nobody  *)
(* else disturbs, that what it has done so far is the case, and why it may *)
(* fail.  Each step of a call is one of NetIface, so that NetIface's       *)
(* inductive invariant holds here too; what is added is which call is      *)
(* under way, and that only a call about an IPv6 address is denied, where  *)
(* no transaction is denied for another reason.                            *)
(* ProgressInv adds that the call under way is itself undisturbed, and is  *)
(* right then (NetIfaceQuietProofs), and that a call spoils the goal of no *)
(* earlier one that it does not override (GoalKept).                       *)
(***************************************************************************)
EXTENDS Program, NetIfaceQuietProofs

Answered == {"ok", "netex", "denied", "timeout"}

\* What an EACCES takes.
Deniable(addr) == IsV6(addr) \/ EACCES \in Failures

\* The call under way is the one that the script has there, and its answer can
\* be an EACCES only if it is about an IPv6 address, or if any answer can be.
ScriptedCall ==
  status = "calling" /\ asked =>
    /\ call[Main].op = Script[at].op /\ call[Main].addr = Script[at].addr
    /\ Idle(Main) =>
         /\ out[Main].kind \in Answered
         /\ out[Main].kind = "denied" => Deniable(Script[at].addr)

ProgramInv == Inductive /\ ProgramTypeOK /\ ScriptedCall /\ Handled

\* An exception of the class permission_denied comes of EACCES.
LEMMA DeniedIsEacces ==
  /\ \A e \in Failures : Thrown(e) = "denied" => EACCES \in Failures
  /\ \A e \in Failures : Thrown(e) # "denied" => Thrown(e) = "netex"
BY DEF Thrown

\* What becomes of the program.
LEMMA WhereItEnds ==
  /\ \A kind \in {"netex", "timeout"} : Uncaught(kind) = "failed"
  /\ Uncaught("denied") = "terminated"
BY DEF Uncaught, Catches, OuterHandlers, Classes

LEMMA MainOnly == Main \in Procs /\ \A p \in Procs : p = Main
BY ProgramAssumption

\* The script has 13 calls, of which only the last is about an IPv6 address.
LEMMA ScriptShape ==
  /\ Len(Script) = 13 /\ DOMAIN Script = 1 .. 13
  /\ \A k \in 1 .. 13 : IsV6(Script[k].addr) => k = 13
<1>1. One \in V4 /\ Two \in V4 /\ V4 \cap V6 = {}
  BY ProgramAssumption, IpAddressAssumption
<1>2. \A op, raw, mtu, fam : Request(op, raw, mtu, fam).addr.raw = raw
  BY DEF Request, FromString
<1>3. Len(Script) = 13 /\ DOMAIN Script = 1 .. 13  BY DEF Script
<1>4. \A k \in 1 .. 12 : \E op, mtu, fam : \E raw \in {One, Two} : Script[k] = Request(op, raw, mtu, fam)
  BY DEF Script, Get, OfAddr, SetMtu, List
<1>5. \A k \in 1 .. 12 : Script[k].addr.raw \in V4  BY <1>1, <1>2, <1>4
<1>6. \A k \in 1 .. 13 : k = 13 \/ k \in 1 .. 12  OBVIOUS
<1> QED  BY <1>1, <1>3, <1>5, <1>6 DEF IsV6

Placed ==
  /\ status \in Statuses
  /\ at \in 1 .. 14
  /\ asked \in BOOLEAN
  /\ runs \in 1 .. MaxRuns
  /\ alone \in BOOLEAN
  /\ status \in {"listing", "opening"} => at = 1 /\ ~ asked
  /\ status = "calling" => nic[Main] = Interface /\ at <= 13

LEMMA Placing ==
  /\ ProgramTypeOK <=> TypeOK /\ Placed
  /\ ProgramTypeOK' <=> TypeOK' /\ Placed'
<1>1. Len(Script) = 13 /\ 13 + 1 = 14  BY ScriptShape
<1>2. \A s : s \notin Running \ {"calling"} <=> s \notin {"listing", "opening"}
  BY DEF Running
<1>3. ProgramTypeOK <=> TypeOK /\ Placed
  BY <1>1, <1>2, Zenon DEF ProgramTypeOK, Placed
<1>4. ProgramTypeOK' <=> TypeOK' /\ Placed'
  BY <1>1, <1>2, Zenon DEF ProgramTypeOK, Placed
<1> QED  BY <1>3, <1>4
-----------------------------------------------------------------------------
(* What a request may be denied for *)

LEMMA DeniedForV6 ==
  ASSUME links \in [Indexes -> Link], NEW c \in Call, c.op \in ChangeOps,
         NEW a \in Answers(c), a.errno = EACCES
  PROVE  IsV6(c.addr)
<1> USE DEF Answer, EACCES
<1>1. c.idx \in Here(links)  BY DEF Answers, ENODEV
<1>2. PICK l : l = links[c.idx]  OBVIOUS
<1>3. CASE c.op = "set_mtu"
  <2>1. a \in SetLink(l, c.mtu, MtuFlags, MtuChange)  BY <1>1, <1>2, <1>3 DEF Answers
  <2>2. a.errno \in {0, EINVAL}  BY <2>1 DEF SetLink
  <2> QED  BY <2>2 DEF EINVAL
<1>4. CASE c.op = "set_ip_address"
  <2>1. a \in NewAddr(l, Entry(c.addr))  BY <1>1, <1>2, <1>4 DEF Answers
  <2>2. Entry(c.addr).raw = c.addr.raw  BY DEF Entry
  <2>3. a.errno \in {0, EINVAL, EEXIST} \/ Entry(c.addr).raw \in V6
    BY <2>1 DEF NewAddr
  <2> QED  BY <2>2, <2>3 DEF IsV6, EINVAL, EEXIST
<1>5. CASE c.op = "del_ip_address"
  <2>1. a \in DelAddr(l, Entry(c.addr))  BY <1>1, <1>2, <1>5 DEF Answers
  <2>2. a.errno \in {0, EADDRNOTAVAIL}  BY <2>1 DEF DelAddr
  <2> QED  BY <2>2 DEF EADDRNOTAVAIL
<1> QED  BY <1>3, <1>4, <1>5 DEF ChangeOps

\* A call that ends has one of the four answers, and keeps its arguments.
LEMMA AnswerOfStep ==
  ASSUME Inductive, NEW p \in Procs, ~ Idle(p),
         Proceed(p) \/ Expire(p) \/ Refused(p) \/ AnswerLost(p)
  PROVE  /\ call'[p].op = call[p].op /\ call'[p].addr = call[p].addr /\ call'[p].mtu = call[p].mtu
         /\ Idle(p)' =>
              /\ out'[p].kind \in Answered
              /\ out'[p].kind = "denied" => Deniable(call[p].addr)
<1>1. /\ call[p] \in Call /\ call \in [Procs -> Call] /\ out \in [Procs -> Outcome]
      /\ links \in [Indexes -> Link] /\ CallOK(p) /\ TypeOK /\ KernelOK(links)
  BY InductiveByCaller DEF TypeOK
<1>2. \A kind, val, addrs : Finish(p, kind, val, addrs) =>
        /\ call'[p].op = call[p].op /\ call'[p].addr = call[p].addr /\ call'[p].mtu = call[p].mtu
        /\ out'[p].kind = kind
  BY <1>1 DEF Finish, Call
<1>3. \A stage : Goto(p, stage) =>
        /\ call'[p].op = call[p].op /\ call'[p].addr = call[p].addr /\ call'[p].mtu = call[p].mtu
        /\ call'[p].stage = stage
  BY <1>1 DEF Goto, Call
<1>4. CASE GetIndex(p)
  <2>1. CASE Return(p, IndexOf(links, nic[p]))  BY <1>2, <2>1 DEF Return, Answered
  <2>2. CASE call' = [call EXCEPT ![p].idx = IndexOf(links, nic[p])]
    <3>1. /\ call'[p].op = call[p].op /\ call'[p].addr = call[p].addr /\ call'[p].mtu = call[p].mtu
          /\ call'[p].stage = call[p].stage
      BY <1>1, <2>2 DEF Call
    <3> QED  BY <3>1 DEF Idle
  <2> QED  BY <1>4, <2>1, <2>2 DEF GetIndex
<1>5. CASE Discard(p)
  <2>1. Goto(p, "check")  BY <1>5 DEF Discard
  <2> QED  BY <1>3, <2>1 DEF Idle
<1>6. CASE Check(p)
  <2>1. Return(p, 0) \/ Goto(p, "act")  BY <1>6 DEF Check
  <2> QED  BY <1>2, <1>3, <2>1 DEF Return, Answered, Idle
<1>7. CASE Act(p)
  <2>1. call[p].op \in ChangeOps  BY <1>1, <1>7, ToAct DEF Act
  <2>2. PICK a \in Answers(call[p]) :
          Goto(p, "verify") \/ (a.errno # 0 /\ Throw(p, a.errno))
    BY <1>7 DEF Act
  <2>3. CASE Goto(p, "verify")  BY <1>3, <2>3 DEF Idle
  <2>4. CASE Throw(p, a.errno)
    <3>1. CASE a.errno = EACCES
      <4>1. Finish(p, "denied", a.errno, {})  BY <2>4, <3>1 DEF Throw, Thrown
      <4>2. IsV6(call[p].addr)  BY <1>1, <2>1, <3>1, DeniedForV6
      <4> QED  BY <1>2, <4>1, <4>2 DEF Answered, Deniable
    <3>2. CASE a.errno # EACCES
      <4>1. Finish(p, "netex", a.errno, {})  BY <2>4, <3>2 DEF Throw, Thrown
      <4> QED  BY <1>2, <4>1 DEF Answered
    <3> QED  BY <3>1, <3>2
  <2> QED  BY <2>2, <2>3, <2>4
<1>8. CASE Verify(p)
  <2>1. Return(p, 0) \/ Finish(p, "timeout", 0, {}) \/ Goto(p, "verify")
    BY <1>8 DEF Verify, RetryFrom
  <2> QED  BY <1>2, <1>3, <2>1 DEF Return, Answered, Idle
<1>9. CASE Read(p)
  <2>1. PICK val, addrs : Finish(p, "ok", val, addrs)  BY <1>9 DEF Read, Return
  <2> QED  BY <1>2, <2>1 DEF Answered
<1>10. CASE Expire(p)
  <2>1. /\ call'[p].op = call[p].op /\ call'[p].addr = call[p].addr /\ call'[p].mtu = call[p].mtu
        /\ call'[p].stage = "verify"
    BY <1>1, <1>10 DEF Expire, Call
  <2> QED  BY <2>1 DEF Idle
<1>11. CASE Refused(p) \/ AnswerLost(p)
  <2>1. PICK e \in Failures : Finish(p, Thrown(e), e, {})
    BY <1>11 DEF Refused, AnswerLost, Throw
  <2> QED  BY <1>2, <2>1, DeniedIsEacces DEF Answered, Deniable
<1> QED  BY <1>4, <1>5, <1>6, <1>7, <1>8, <1>9, <1>10, <1>11 DEF Proceed

\* What the constructor of netiface gives.
LEMMA OpenAnswers ==
  ASSUME TypeOK, NEW p \in Procs, NEW n \in Names, Open(p, n)
  PROVE  \/ out'[p].kind = "ok" /\ nic' = [nic EXCEPT ![p] = n] /\ n \in NamesInUse
         \/ out'[p].kind = "netex" /\ out'[p].val = 0 /\ n \notin NamesInUse
         \/ out'[p].kind = "netex" /\ out'[p].val \in Failures
         \/ out'[p].kind = "denied" /\ EACCES \in Failures
<1>1. out \in [Procs -> Outcome]  BY DEF TypeOK
<1>2. ASSUME NEW e \in Failures, out' = [out EXCEPT ![p] = [kind |-> Thrown(e), val |-> e, addrs |-> {}]]
      PROVE  \/ out'[p].kind = "netex" /\ out'[p].val \in Failures
             \/ out'[p].kind = "denied" /\ EACCES \in Failures
  <2>1. out'[p] = [kind |-> Thrown(e), val |-> e, addrs |-> {}]  BY <1>1, <1>2
  <2>2. out'[p].kind = Thrown(e) /\ out'[p].val = e  BY <2>1
  <2> QED  BY <2>2, DeniedIsEacces
<1> QED  BY <1>1, <1>2 DEF Open
-----------------------------------------------------------------------------
(* The inductive invariant *)

LEMMA ProgramStarts == ProgramInit => ProgramInv
<1> SUFFICES ASSUME ProgramInit PROVE ProgramInv
  OBVIOUS
<1>1. Inductive /\ TypeOK  BY InitInductive DEF ProgramInit, Inductive
<1>2. status = "listing" /\ at = 1 /\ asked = FALSE /\ runs = 1 /\ alone = TRUE  BY DEF ProgramInit
<1>3. Placed
  <2>1. runs \in 1 .. MaxRuns  BY <1>2, ProgramAssumption
  <2>2. status \in Statuses  BY <1>2 DEF Statuses, Running
  <2>3. at \in 1 .. 14 /\ at = 1 /\ ~ asked /\ status # "calling"  BY <1>2
  <2>4. asked \in BOOLEAN /\ alone \in BOOLEAN  BY <1>2
  <2> QED  BY <2>1, <2>2, <2>3, <2>4 DEF Placed
<1>4. ProgramTypeOK  BY <1>1, <1>3, Placing
<1> QED  BY <1>1, <1>2, <1>4 DEF ProgramInv, ScriptedCall, Handled

\* A step that is none of NetIface.
LEMMA ProgramAlone ==
  ASSUME ProgramInv, ListNames \/ GoOn \/ GiveUp \/ Kill
  PROVE  ProgramInv'
<1> USE MainOnly, Placing DEF Statuses, Running
<1>1. Inductive /\ TypeOK /\ Placed /\ ScriptedCall
  BY DEF ProgramInv
<1>2. UNCHANGED <<links, nic, call, out, hist, runs, alone>>
  BY DEF ListNames, GoOn, GiveUp, Kill, vars
<1>3. Inductive' /\ TypeOK'
  <2>1. UNCHANGED vars  BY <1>2 DEF vars
  <2>2. Inductive'  BY <1>1, <2>1, StepInductive
  <2> QED  BY <2>2 DEF Inductive
<1>4. CASE ListNames
  <2>1. /\ status = "listing" /\ UNCHANGED <<at, asked>>
        /\ status' = "opening" \/ \E e \in Failures : status' = Uncaught(Thrown(e))
    BY <1>4 DEF ListNames
  <2>3. /\ status' \in {"opening", "failed", "terminated"}
        /\ status' = "terminated" => EACCES \in Failures
    BY <2>1, DeniedIsEacces, WhereItEnds
  <2>4. at = 1 /\ ~ asked  BY <1>1, <2>1 DEF Placed
  <2>2. ProgramTypeOK'  BY <1>1, <1>2, <1>3, <2>1, <2>3, <2>4 DEF Placed
  <2> QED  BY <1>3, <2>1, <2>2, <2>3, <2>4 DEF ProgramInv, ScriptedCall, Handled
<1>5. CASE GoOn
  <2>1. /\ status = "calling" /\ at' = at + 1 /\ asked' = FALSE
        /\ status' = IF at = 13 THEN "done" ELSE status
    BY <1>5, ScriptShape DEF GoOn
  <2>2. nic[Main] = Interface /\ at <= 13  BY <1>1, <2>1 DEF Placed
  <2>3. /\ status' \in {"calling", "done"} /\ at' \in 1 .. 14
        /\ status' = "calling" => at' <= 13
    BY <1>1, <2>1, <2>2 DEF Placed
  <2>4. ProgramTypeOK'  BY <1>1, <1>2, <1>3, <2>1, <2>2, <2>3 DEF Placed
  <2> QED  BY <1>3, <2>1, <2>3, <2>4 DEF ProgramInv, ScriptedCall, Handled
<1>6. CASE GiveUp
  <2>1. /\ status = "calling" /\ asked /\ Idle(Main) /\ out[Main].kind # "ok"
        /\ ~ (Guarded(at) /\ Catches(InnerHandlers, out[Main].kind))
        /\ status' = Uncaught(out[Main].kind) /\ UNCHANGED <<at, asked>>
    BY <1>6 DEF GiveUp
  <2>2. /\ out[Main].kind \in Answered
        /\ out[Main].kind = "denied" => Deniable(Script[at].addr)
    BY <1>1, <2>1 DEF ScriptedCall
  <2>3. at <= 13 /\ at \in 1 .. 13  BY <1>1, <2>1 DEF Placed
  <2>4. ASSUME out[Main].kind = "denied" PROVE ~ Guarded(at) /\ EACCES \in Failures
    <3>1. Catches(InnerHandlers, "denied")  BY DEF Catches, InnerHandlers, Classes
    <3>2. ~ Guarded(at)  BY <2>1, <2>4, <3>1
    <3>3. ~ IsV6(Script[at].addr)  BY <2>3, <3>2, ScriptShape DEF Guarded
    <3> QED  BY <2>2, <2>4, <3>2, <3>3 DEF Deniable
  <2>5. /\ status' \in {"failed", "terminated"}
        /\ status' = "terminated" => out[Main].kind = "denied"
    BY <2>1, <2>2, WhereItEnds DEF Answered
  <2>6. Handled'  BY <1>2, <2>1, <2>4, <2>5 DEF Handled, Guarded
  <2>7. ProgramTypeOK'  BY <1>1, <1>2, <1>3, <2>1, <2>5 DEF Placed
  <2>8. ScriptedCall'  BY <2>5 DEF ScriptedCall
  <2> QED  BY <1>3, <2>6, <2>7, <2>8 DEF ProgramInv
<1>7. CASE Kill
  <2>1. status' = "killed" /\ UNCHANGED <<at, asked>>  BY <1>7 DEF Kill
  <2>2. ProgramTypeOK'  BY <1>1, <1>2, <1>3, <2>1 DEF Placed
  <2> QED  BY <1>3, <2>1, <2>2 DEF ProgramInv, ScriptedCall, Handled
<1> QED  BY <1>4, <1>5, <1>6, <1>7

\* A step of the interface object, or of others.
LEMMA ProgramCalls ==
  ASSUME ProgramInv,
         \/ OpenInterface \/ MakeCall \/ (\E i \in Indexes : Disturbed(i))
         \/ Underway /\ (Proceed(Main) \/ Expire(Main) \/ Refused(Main) \/ AnswerLost(Main))
  PROVE  ProgramInv'
<1> USE MainOnly, Placing DEF Statuses, Running
<1>1. /\ Inductive /\ TypeOK /\ Placed /\ ScriptedCall /\ Handled
      /\ call[Main] \in Call /\ call \in [Procs -> Call] /\ out \in [Procs -> Outcome]
  BY DEF ProgramInv, TypeOK
<1>0. DOMAIN nic = Procs  BY <1>1 DEF TypeOK
<1>2. Next => Inductive' /\ TypeOK'
  BY <1>1, StepInductive DEF Inductive
<1>3. CASE OpenInterface
  <2>1. /\ status = "opening" /\ Open(Main, Interface) /\ UNCHANGED <<at, asked, runs, alone>>
        /\ status' = IF Constructed(out'[Main].kind) THEN "calling" ELSE Uncaught(out'[Main].kind)
    BY <1>3 DEF OpenInterface
  <2>2. Inductive' /\ TypeOK'  BY <1>2, <2>1, ProgramAssumption DEF Next, Step
  <2>3. status' = "calling" => nic'[Main] = Interface
    <3>1. out'[Main].kind = "ok" => nic' = [nic EXCEPT ![Main] = Interface]
      BY <1>1, <2>1, ProgramAssumption, OpenAnswers
    <3>2. status' = "calling" => out'[Main].kind = "ok"
      BY <1>1, <2>1, ProgramAssumption, OpenAnswers, WhereItEnds DEF Constructed
    <3> QED  BY <1>0, <3>1, <3>2
  <2>4. at = 1 /\ ~ asked  BY <1>1, <2>1 DEF Placed
  <2>6. /\ out'[Main].kind \in {"ok", "netex", "denied"}
        /\ out'[Main].kind = "denied" => EACCES \in Failures
    BY <1>1, <2>1, ProgramAssumption, OpenAnswers
  <2>7. /\ status' \in {"calling", "failed", "terminated"}
        /\ status' = "calling" => out'[Main].kind = "ok"
        /\ status' = "terminated" => EACCES \in Failures
    BY <2>1, <2>6, WhereItEnds DEF Constructed
  <2>5. ProgramTypeOK'  BY <1>1, <2>1, <2>2, <2>3, <2>4, <2>7 DEF Placed
  <2> QED  BY <2>1, <2>2, <2>4, <2>5, <2>7 DEF ProgramInv, ScriptedCall, Handled
<1>4. CASE MakeCall
  <2>1. /\ status = "calling" /\ Begin(Main, Script[at]) /\ asked'
        /\ asked' = TRUE /\ UNCHANGED <<status, at, runs, alone>>
    BY <1>4 DEF MakeCall
  <2>2. at <= 13 /\ at \in 1 .. 13 /\ nic'[Main] = Interface
    BY <1>1, <2>1 DEF Placed, Begin
  <2> DEFINE c == Script[at]
  <2>3. c \in Calls
    BY <2>2, ScriptShape, ScriptAssumption
  <2>4. Inductive' /\ TypeOK'  BY <1>2, <2>1, <2>3 DEF Next, Step
  <2>5. /\ call'[Main].op = c.op /\ call'[Main].addr = c.addr
        /\ Idle(Main)' => out'[Main].kind = "netex"
    <3>1. PICK stage : /\ call' = [call EXCEPT ![Main] = Started(c, stage)]
                       /\ \/ stage = FirstStage(c.op)
                          \/ out' = [out EXCEPT ![Main] = [kind |-> "netex", val |-> 0, addrs |-> {}]]
      BY <2>1 DEF Begin
    <3>2. c.op \in Ops  BY <2>3, NetIfaceAssumption
    <3>3. FirstStage(c.op) # "idle"  BY <3>2 DEF FirstStage, Ops, ChangeOps, ReadOps
    <3>4. call'[Main] = Started(c, stage)  BY <1>1, <3>1
    <3> HIDE DEF c
    <3> QED  BY <1>1, <3>1, <3>3, <3>4 DEF Started, Idle
  <2>6. ProgramTypeOK'  BY <1>1, <2>1, <2>2, <2>4 DEF Placed
  <2>7. ScriptedCall'  BY <2>1, <2>5 DEF ScriptedCall, Answered
  <2> QED  BY <1>1, <2>1, <2>4, <2>6, <2>7 DEF ProgramInv, Handled
<1>5. ASSUME NEW i \in Indexes, Disturbed(i) PROVE ProgramInv'
  <2>1. /\ Others(i) /\ UNCHANGED <<status, at, asked, runs>> /\ alone' = FALSE
        /\ status # "terminated"
    BY <1>5 DEF Disturbed
  <2>2. Inductive' /\ TypeOK'  BY <1>2, <2>1 DEF Next
  <2>3. UNCHANGED <<nic, call, out>>  BY <1>1, <2>1, OthersKeep
  <2>4. ProgramTypeOK'  BY <1>1, <2>1, <2>2, <2>3 DEF Placed
  <2>5. ScriptedCall'  BY <1>1, <2>1, <2>3 DEF ScriptedCall, Idle
  <2> QED  BY <1>1, <2>1, <2>2, <2>4, <2>5 DEF ProgramInv, Handled
<1>6. ASSUME Underway, Proceed(Main) \/ Expire(Main) \/ Refused(Main) \/ AnswerLost(Main)
      PROVE  ProgramInv'
  <2>1. status = "calling" /\ asked /\ UNCHANGED <<status, at, asked, runs, alone>>
    BY <1>6 DEF Underway, program
  <2>2. Inductive' /\ TypeOK'  BY <1>2, <1>6 DEF Next, Step
  <2>3. ~ Idle(Main) /\ nic' = nic
    BY <1>6 DEF Proceed, GetIndex, Discard, Check, Act, Verify, Read, Expire, Refused, AnswerLost,
                Idle
  <2>4. ProgramTypeOK'  BY <1>1, <2>1, <2>2, <2>3 DEF Placed
  <2>5. ScriptedCall'
    <3>1. /\ call'[Main].op = call[Main].op /\ call'[Main].addr = call[Main].addr
          /\ Idle(Main)' =>
               /\ out'[Main].kind \in Answered
               /\ out'[Main].kind = "denied" => Deniable(call[Main].addr)
      BY <1>1, <1>6, <2>3, AnswerOfStep
    <3> QED  BY <1>1, <2>1, <3>1 DEF ScriptedCall
  <2> QED  BY <1>1, <2>1, <2>2, <2>4, <2>5 DEF ProgramInv, Handled
<1> QED  BY <1>3, <1>4, <1>5, <1>6

LEMMA ProgramRerun ==
  ASSUME ProgramInv, RunAgain
  PROVE  ProgramInv'
<1> USE MainOnly, Placing DEF Statuses, Running
<1>1. /\ TypeOK /\ Placed /\ links \in [Indexes -> Link] /\ KernelOK(links)
      /\ call \in [Procs -> Call] /\ out \in [Procs -> Outcome] /\ hist \in [Procs -> History]
  BY DEF ProgramInv, TypeOK
<1>0. \A n : nic \in [Procs -> Names \cup {n}] => [nic EXCEPT ![Main] = n] \in [Procs -> Names \cup {n}]
  OBVIOUS
<1>2. /\ runs < MaxRuns /\ runs' = runs + 1
      /\ status' = "listing" /\ at' = 1 /\ asked' = FALSE /\ alone' = TRUE
      /\ nic' = [nic EXCEPT ![Main] = ""]
      /\ call' = [call EXCEPT ![Main] = NoCall]
      /\ out' = [out EXCEPT ![Main] = [kind |-> "none", val |-> 0, addrs |-> {}]]
      /\ hist' = [hist EXCEPT ![Main] = NewHistory(NoCall, links, "")]
      /\ links' = links
  BY DEF RunAgain
<1>3. /\ call'[Main] = NoCall /\ out'[Main] = [kind |-> "none", val |-> 0, addrs |-> {}]
      /\ hist'[Main] = NewHistory(NoCall, links, "")
  BY <1>1, <1>2
<1>4. /\ NoCall \in Call
      /\ NoCall.stage = "idle" /\ NoCall.op = "open" /\ NoCall.idx = 0 /\ ~ NoCall.late
      /\ [kind |-> "none", val |-> 0, addrs |-> {}] \in Outcome
      /\ \A n : /\ NewHistory(NoCall, links, n) \in History
               /\ NewHistory(NoCall, links, n).changes = 0
  BY <1>1, FreshCall
<1>5. TypeOK'
  <2>1. nic' \in [Procs -> Names \cup {""}]  BY <1>0, <1>1, <1>2, Zenon DEF TypeOK
  <2>2. call' \in [Procs -> Call]  BY <1>1, <1>2, <1>4
  <2>3. out' \in [Procs -> Outcome]  BY <1>1, <1>2, <1>4
  <2>4. hist' \in [Procs -> History]  BY <1>1, <1>2, <1>4
  <2>5. Idle(Main)' /\ call'[Main].idx = 0 /\ ~ call'[Main].late  BY <1>3, <1>4 DEF Idle
  <2> QED  BY <1>1, <1>2, <2>1, <2>2, <2>3, <2>4, <2>5 DEF TypeOK
<1>6. CallOK(Main)'
  <2>1. hist'[Main].changes = 0  BY <1>3, <1>4
  <2>2. Idle(Main)' /\ call'[Main].op = "open"  BY <1>3, <1>4 DEF Idle
  <2>3. out'[Main].kind = "none"
    <3>1. \A n : [kind |-> n, val |-> 0, addrs |-> {}].kind = n  OBVIOUS
    <3> QED  BY <1>3, <3>1, Zenon
  <2> QED  BY <2>1, <2>2, <2>3 DEF CallOK
<1>7. \A p \in Procs : CallOK(p)'  BY <1>6
<1>8. Inductive'
  BY <1>5, <1>7 DEF Inductive, CallOK, OkMeansAchieved, OutcomeAccounts, ReadsNamedLink
<1>9. ProgramTypeOK'
  <2>1. runs' \in 1 .. MaxRuns
    <3>1. PICK n \in Nat : n = MaxRuns  BY ProgramAssumption
    <3>2. runs \in 1 .. n /\ runs < n /\ runs' = runs + 1  BY <1>1, <1>2, <3>1 DEF Placed
    <3> QED  BY <3>1, <3>2
  <2>2. status' \in Statuses /\ status' # "calling"  BY <1>2
  <2>3. at' \in 1 .. 14 /\ at' = 1 /\ ~ asked'
    <3>1. at' = 1 /\ ~ asked'  BY <1>2
    <3>2. 1 \in 1 .. 14  OBVIOUS
    <3> QED  BY <3>1, <3>2, Zenon
  <2>4. asked' \in BOOLEAN /\ alone' \in BOOLEAN  BY <1>2
  <2>5. Placed'  BY <2>1, <2>2, <2>3, <2>4 DEF Placed
  <2> QED  BY <1>5, <2>5
<1> QED  BY <1>2, <1>8, <1>9 DEF ProgramInv, ScriptedCall, Handled

LEMMA ProgramSteps ==
  ASSUME ProgramInv, [ProgramNext]_allVars
  PROVE  ProgramInv'
<1>1. CASE ProgramNext
  BY <1>1, ProgramAlone, ProgramCalls, ProgramRerun DEF ProgramNext, Execute
<1>2. CASE UNCHANGED allVars
  <2>1. UNCHANGED vars /\ UNCHANGED program  BY <1>2 DEF allVars
  <2>2. Inductive'  BY <2>1, StepInductive DEF ProgramInv
  <2>3. TypeOK'  BY <2>2 DEF Inductive
  <2>4. UNCHANGED <<nic, call, out>> /\ UNCHANGED <<status, at, asked, runs, alone>>
    BY <2>1 DEF vars, program
  <2>5. ProgramTypeOK'  BY <2>3, <2>4, Placing DEF ProgramInv, Placed
  <2>6. ScriptedCall' /\ Handled'  BY <2>4 DEF ProgramInv, ScriptedCall, Handled, Idle
  <2> QED  BY <2>2, <2>5, <2>6 DEF ProgramInv
<1> QED  BY <1>1, <1>2

\* The program keeps its place in the script whatever happens to it.
THEOREM ProgramTypes == ProgramSpec => []ProgramTypeOK
<1>1. ProgramInv => ProgramTypeOK  BY DEF ProgramInv
<1> QED  BY <1>1, ProgramStarts, ProgramSteps, PTL DEF ProgramSpec

\* What passes main() by is an EACCES outside the guarded call, for which the
\* kernel has another reason than a link without IPv6: where it has none, main()
\* handles every exception, whatever others change.
THEOREM OnlyDenialsEscape == ProgramSpec => []Handled
<1>1. ProgramInv => Handled  BY DEF ProgramInv
<1> QED  BY <1>1, ProgramStarts, ProgramSteps, PTL DEF ProgramSpec
-----------------------------------------------------------------------------
(* What the script asks for, and what a request leaves alone *)

LEMMA ScriptRequests ==
  ASSUME NEW k \in 1 .. 13
  PROVE  /\ Script[k] \in Calls /\ Script[k].op \in Ops
         /\ Script[k].addr = FromString(Script[k].addr.raw, -1)
         /\ k # 13 => IsV4(Script[k].addr) /\ ~ IsV6(Script[k].addr) /\ Script[k].addr.prefix = 32
         /\ k = 13 => IsV6(Script[k].addr)
         /\ Guarded(k) <=> k = 13
<1>1. Len(Script) = 13 /\ DOMAIN Script = 1 .. 13  BY ScriptShape
<1>2. Script[k] \in Calls  BY <1>1, ScriptAssumption
<1>3. Script[k].op \in Ops  BY <1>2, NetIfaceAssumption
<1>4. \A op, raw, mtu, fam : Request(op, raw, mtu, fam).addr = FromString(raw, -1)
  BY DEF Request
<1>5. \A raw : FromString(raw, -1).raw = raw /\ (raw \in V4 => FromString(raw, -1).prefix = 32)
  BY DEF FromString, DefaultPrefix
<1>6. \E op, mtu, fam : \E raw \in {One, Two, Six} :
        Script[k] = Request(op, raw, mtu, fam) /\ (raw = Six <=> k = 13 \/ Six \in {One, Two})
  <2>1. CASE k \in 1 .. 12
    <3>1. One \in V4 /\ Two \in V4 /\ Six \in V6 /\ V4 \cap V6 = {}
      BY ProgramAssumption, IpAddressAssumption
    <3>2. \E op, mtu, fam : \E raw \in {One, Two} : Script[k] = Request(op, raw, mtu, fam)
      BY <2>1 DEF Script, Get, OfAddr, SetMtu, List
    <3> QED  BY <2>1, <3>1, <3>2
  <2>2. CASE k = 13
    <3>1. Script[13] = Request("set_ip_address", Six, 1500, All)  BY DEF Script, OfAddr
    <3> QED  BY <2>2, <3>1
  <2> QED  BY <2>1, <2>2
<1>7. One \in V4 /\ Two \in V4 /\ Six \in V6 /\ V4 \cap V6 = {}
  BY ProgramAssumption, IpAddressAssumption
<1>8. PICK raw \in {One, Two, Six} :
        Script[k].addr = FromString(raw, -1) /\ (raw = Six <=> k = 13)
  BY <1>4, <1>6, <1>7
<1>9. Script[k].addr.raw = raw /\ (raw \in V4 => Script[k].addr.prefix = 32)  BY <1>5, <1>8
<1>10. Guarded(k) <=> k = 13  BY <1>1 DEF Guarded
<1>11. CASE k = 13
  BY <1>2, <1>3, <1>7, <1>8, <1>9, <1>10, <1>11 DEF IsV6
<1>12. CASE k # 13
  <2>1. raw \in V4 /\ raw \notin V6  BY <1>7, <1>8, <1>12
  <2> QED  BY <1>2, <1>3, <1>8, <1>9, <1>10, <1>12, <2>1 DEF IsV4, IsV6
<1> QED  BY <1>11, <1>12

\* A request does not undo what an earlier one about something else has done, of
\* an IPv4 address or an MTU.
LEMMA GoalKept ==
  ASSUME NEW l \in Link, NEW c \in Call, c.op \in ChangeOps, NEW d, d.op \in ChangeOps,
         d.op = "set_mtu" => c.op # "set_mtu",
         d.op # "set_mtu" => IsV4(d.addr) /\ (c.op # "set_mtu" => c.addr.raw # d.addr.raw),
         NEW a \in CASE c.op = "set_mtu" -> SetLink(l, c.mtu, MtuFlags, MtuChange)
                     [] c.op = "set_ip_address" -> NewAddr(l, Entry(c.addr))
                     [] c.op = "del_ip_address" -> DelAddr(l, Entry(c.addr)),
         a.errno = 0, Goal(d, l)
  PROVE  Goal(d, a.link)
<1> USE DEF Answer, EINVAL, EACCES, EEXIST, EADDRNOTAVAIL
<1>1. Entry(c.addr).raw = c.addr.raw /\ Asked(d.addr).raw = d.addr.raw  BY DEF Entry, Asked
<1>2. CASE c.op = "set_mtu"
  <2> DEFINE up == "up" \notin MtuChange /\ l.up
             addrs == IF l.up /\ ~ up THEN AddrsOfFamily(l, V4) ELSE l.addrs
  <2>1. a = [errno |-> 0, link |-> [l EXCEPT !.mtu = c.mtu, !.up = up, !.addrs = addrs]]
    BY <1>2 DEF SetLink, MtuFlags, Link
  <2>2. addrs \in {l.addrs, AddrsOfFamily(l, V4)}  OBVIOUS
  <2> HIDE DEF up, addrs
  <2>3. a.link.addrs \in {l.addrs, AddrsOfFamily(l, V4)}
    <3>1. a.link = [l EXCEPT !.mtu = c.mtu, !.up = up, !.addrs = addrs]  BY <2>1
    <3>2. a.link.addrs = addrs  BY <3>1 DEF Link
    <3> QED  BY <2>2, <3>2
  <2>4. d.op # "set_mtu" /\ d.addr.raw \in V4  BY <1>2 DEF IsV4
  <2>5. \A e \in l.addrs : e.raw = d.addr.raw => e \in a.link.addrs
    BY <2>3, <2>4 DEF AddrsOfFamily
  <2>6. a.link.addrs \subseteq l.addrs  BY <2>3 DEF AddrsOfFamily
  <2> QED  BY <1>1, <2>4, <2>5, <2>6 DEF Goal, ChangeOps, IsV4, IsV6
<1>3. CASE c.op = "set_ip_address"
  <2>1. a \in NewAddr(l, Entry(c.addr))  BY <1>3
  <2>2. a.link = [l EXCEPT !.addrs = @ \cup {Entry(c.addr)}]  BY <2>1 DEF NewAddr
  <2>3. a.link.addrs = l.addrs \cup {Entry(c.addr)} /\ a.link.mtu = l.mtu  BY <2>2 DEF Link
  <2>4. CASE d.op = "set_mtu"  BY <2>3, <2>4 DEF Goal
  <2>5. CASE d.op # "set_mtu"
    BY <1>1, <1>3, <2>3, <2>5, IpAddressAssumption DEF Goal, ChangeOps, IsV4, IsV6
  <2> QED  BY <2>4, <2>5
<1>4. CASE c.op = "del_ip_address"
  <2>1. a \in DelAddr(l, Entry(c.addr))  BY <1>4
  <2> DEFINE gone == Entry(c.addr)
             matches == {e \in l.addrs : e.raw = gone.raw /\ (e.raw \in V6 => e = gone)}
  <2> HIDE DEF gone
  <2>2. matches # {}  BY <2>1 DEF DelAddr, gone
  <2>3. PICK e \in matches : a = [errno |-> 0, link |-> [l EXCEPT !.addrs = @ \ {e}]]
    BY <2>2, <2>1 DEF DelAddr, gone
  <2>4. e \in l.addrs /\ e.raw = c.addr.raw /\ a.link = [l EXCEPT !.addrs = @ \ {e}]
    BY <1>1, <2>3 DEF gone
  <2>5. a.link.addrs = l.addrs \ {e} /\ a.link.mtu = l.mtu  BY <2>4 DEF Link
  <2>6. CASE d.op = "set_mtu"  BY <2>5, <2>6 DEF Goal
  <2>7. CASE d.op # "set_mtu"
    BY <1>1, <1>4, <2>4, <2>5, <2>7, IpAddressAssumption DEF Goal, ChangeOps, IsV4, IsV6
  <2> QED  BY <2>6, <2>7
<1> QED  BY <1>2, <1>3, <1>4 DEF ChangeOps
-----------------------------------------------------------------------------
(* What a run that nobody disturbs has done *)

\* The call under way is quiet, the interface is there once the program has
\* opened it, and no call has been answered before.
Alone ==
  /\ alone => hist[Main].quiet
  /\ alone /\ (status = "calling" \/ at > 1) => Bearers(links, Interface) # {}
  /\ status \in {"listing", "opening"} => out[Main].kind = "none" /\ out[Main].val = 0
  /\ status = "calling" /\ asked => call[Main].mtu = Script[at].mtu

ProgressInv == ProgramInv /\ QuietOK(Main) /\ Alone /\ StepsTakenHold /\ FailedRunProgressed

\* The step k has been taken and nothing asked for since then overrides it.
Lasting(k) == k < at /\ Changed(k) /\ ~ \E l \in 1 .. 13 : l > k /\ Made(l) /\ Overrides(l, k)
Holding(k) == \E i \in Bearers(links, Interface) : Goal(Script[k], links[i])

LEMMA Lasts ==
  /\ StepsTakenHold <=> (alone => \A k \in 1 .. 13 : Lasting(k) => Holding(k))
  /\ StepsTakenHold' <=> (alone' => \A k \in 1 .. 13 : Lasting(k)' => Holding(k)')
BY ScriptShape, Zenon DEF StepsTakenHold, Lasting, Holding

\* What has been done stays done while the links and the position are the same.
LEMMA KeptInPlace ==
  ASSUME StepsTakenHold, alone' => alone, links' = links, at' = at,
         asked => asked'
  PROVE  StepsTakenHold'
<1>1. \A k \in 1 .. 13 : Holding(k)' <=> Holding(k)  BY DEF Holding
<1>2. \A k \in 1 .. 13 : Lasting(k)' => Lasting(k)  BY DEF Lasting, Made
<1> QED  BY <1>1, <1>2, Lasts

\* A quiet call of the script that returns has reached its goal.
LEMMA ReturnedIsHolding ==
  ASSUME ProgressInv, status = "calling", asked, Idle(Main), alone,
         out[Main].kind = "ok", Script[at].op \in ChangeOps
  PROVE  Holding(at)
<1>1. /\ TypeOK /\ links \in [Indexes -> Link] /\ KernelOK(links)
      /\ nic[Main] = Interface
      /\ call[Main].op = Script[at].op /\ call[Main].addr = Script[at].addr
      /\ call[Main].mtu = Script[at].mtu
      /\ Bearers(links, Interface) # {}
  BY Placing DEF ProgressInv, ProgramInv, ScriptedCall, Alone, Placed, TypeOK
<1> DEFINE i == IndexOf(links, Interface)
<1>2. i # NotFound /\ i \in Bearers(links, Interface)  BY <1>1, OneBearer
<1>3. Right(call[Main], links, i, out[Main])
  BY <1>1 DEF ProgressInv, QuietOK, Alone, Link0
<1> HIDE DEF i
<1>4. Goal(call[Main], links[i])
  BY <1>1, <1>2, <1>3 DEF Right, RightValue, ChangeOps
<1>5. Goal(Script[at], links[i])  BY <1>1, <1>4, SameGoal
<1> QED  BY <1>2, <1>5 DEF Holding

\* A step of the call under way keeps what has been done before.
LEMMA StepKeepsSteps ==
  ASSUME ProgressInv, Underway,
         Proceed(Main) \/ Expire(Main) \/ Refused(Main) \/ AnswerLost(Main)
  PROVE  StepsTakenHold' /\ (alone => Bearers(links, Interface) = Bearers(links', Interface))
<1>1. /\ status = "calling" /\ asked /\ UNCHANGED <<status, at, asked, runs, alone>>
      /\ StepsTakenHold /\ Main \in Procs
  BY MainOnly DEF Underway, program, ProgressInv
<1>2. CASE links' = links
  BY <1>1, <1>2, KeptInPlace
<1>3. CASE links' # links
  <2>1. PICK a \in Answers(call[Main]) :
          /\ a.errno = 0 /\ call[Main].idx # 0 /\ call[Main].stage = "act"
          /\ links' = [links EXCEPT ![call[Main].idx] = a.link]
    BY <1>3 DEF Proceed, GetIndex, Discard, Check, Act, Verify, Read, Expire, Refused, AnswerLost
  <2> DEFINE i == call[Main].idx
  <2>2. /\ call[Main] \in Call /\ links \in [Indexes -> Link] /\ KernelOK(links)
        /\ TypeOK /\ CallOK(Main)
        /\ call[Main].op = Script[at].op /\ call[Main].addr = Script[at].addr
    BY <1>1, InductiveByCaller DEF ProgressInv, ProgramInv, ScriptedCall, TypeOK
  <2>3. at \in 1 .. 13  BY <1>1, Placing DEF ProgressInv, ProgramInv, Placed
  <2>4. call[Main].op \in ChangeOps /\ InProgress(call[Main])
    <3>1. Act(Main) \/ AnswerLost(Main)
      BY <1>3 DEF Proceed, GetIndex, Discard, Check, Verify, Read, Expire, Refused
    <3>2. ~ Idle(Main) /\ Record(Main)  BY <2>1, <3>1 DEF Idle, Act, AnswerLost
    <3>3. InProgress(call[Main]) /\ call[Main].stage \in StagesOf(call[Main].op)
      BY <1>1, <2>2, <3>2, CallInCourse
    <3> QED  BY <2>1, <3>3 DEF StagesOf, ChangeOps, ReadOps
  <2>5. /\ i \in Here(links) /\ a.link \in Link
        /\ a.link.st = "here" /\ a.link.name = links[i].name
    BY <2>1, <2>2, <2>4, AnswersFit
  <2>6. i \in Indexes  BY <2>2, <2>5 DEF Here
  <2>7. Bearers(links', Interface) = Bearers(links, Interface)
    BY <2>1, <2>2, <2>5, SameBearers
  <2>8. ASSUME NEW k \in 1 .. 13, Lasting(k), Goal(Script[k], links[i])
        PROVE  Goal(Script[k], a.link)
    <3>1. k < at /\ Changed(k) /\ ~ Overrides(at, k)
      BY <1>1, <2>3, <2>8 DEF Lasting, Made
    <3>2. Script[k].op \in ChangeOps /\ k # 13  BY <3>1, ScriptRequests DEF Changed
    <3>3. Script[k].op = "set_mtu" => call[Main].op # "set_mtu"
      BY <2>2, <3>1 DEF Overrides
    <3>4. ASSUME Script[k].op # "set_mtu"
          PROVE  /\ IsV4(Script[k].addr)
                 /\ call[Main].op # "set_mtu" => call[Main].addr.raw # Script[k].addr.raw
      <4>1. IsV4(Script[k].addr)  BY <3>2, ScriptRequests
      <4>2. call[Main].op # "set_mtu" => Script[at].addr # Script[k].addr
        BY <2>2, <2>4, <3>1, <3>2, <3>4 DEF Overrides
      <4>3. /\ Script[k].addr = FromString(Script[k].addr.raw, -1)
            /\ Script[at].addr = FromString(Script[at].addr.raw, -1)
        BY <2>3, ScriptRequests
      <4> QED  BY <2>2, <4>1, <4>2, <4>3
    <3>5. links[i] \in Link  BY <2>2, <2>6
    <3>6. a \in CASE call[Main].op = "set_mtu" -> SetLink(links[i], call[Main].mtu, MtuFlags, MtuChange)
                  [] call[Main].op = "set_ip_address" -> NewAddr(links[i], Entry(call[Main].addr))
                  [] call[Main].op = "del_ip_address" -> DelAddr(links[i], Entry(call[Main].addr))
      BY <2>5 DEF Answers
    <3> HIDE DEF i
    <3> QED  BY <2>1, <2>2, <2>4, <2>8, <3>2, <3>3, <3>4, <3>5, <3>6, GoalKept
  <2>9. ASSUME alone', NEW k \in 1 .. 13, Lasting(k)' PROVE Holding(k)'
    <3>1. Lasting(k)  BY <1>1, <2>9 DEF Lasting, Made
    <3>2. PICK j \in Bearers(links, Interface) : Goal(Script[k], links[j])
      BY <1>1, <2>9, <3>1, Lasts DEF Holding
    <3>3. Goal(Script[k], links'[j])
      <4>1. CASE j = i
        <5>1. links'[j] = a.link  BY <2>1, <2>2, <2>6, <4>1
        <5> QED  BY <2>8, <3>1, <3>2, <4>1, <5>1
      <4>2. CASE j # i
        <5>1. links'[j] = links[j]  BY <2>1, <2>2, <3>2, <4>2 DEF Bearers, Here
        <5> QED  BY <3>2, <5>1
      <4> QED  BY <4>1, <4>2
    <3> QED  BY <2>7, <3>2, <3>3 DEF Holding
  <2>10. StepsTakenHold'  BY <2>9, Lasts
  <2> QED  BY <2>7, <2>10
<1> QED  BY <1>2, <1>3

\* NetIface's proof holds of the calls of main().
LEMMA CallQuiet ==
  ASSUME ProgressInv, [Next]_vars
  PROVE  QuietOK(Main)'
<1>1. QuietInv  BY MainOnly DEF ProgressInv, ProgramInv, QuietInv
<1> QED  BY <1>1, QuietStep, MainOnly DEF QuietInv

LEMMA QuietStays ==
  ASSUME NEW p \in Procs, NEW actor, p = actor, Record(actor), ~ Idle(p), hist[p].quiet
  PROVE  hist'[p].quiet
<1> DEFINE named == hist[p].named \cup Bearers(links', nic[p])
           moved == links' # links
           quiet == hist[p].quiet /\ (moved => p = actor)
           held == hist[p].held \/ (~ Idle(p) /\ GoalHolds(call[p], links', nic[p], named))
           changes == hist[p].changes + (IF moved /\ p = actor THEN 1 ELSE 0)
<1>1. hist'[p] =
        [quiet |-> quiet, first |-> hist[p].first, held |-> held,
         named |-> named, changes |-> changes]
  BY DEF Record, Recorded
<1>2. quiet = TRUE  OBVIOUS
<1> HIDE DEF named, moved, quiet, held, changes
<1> QED  BY <1>1, <1>2

LEMMA NoAnswer ==
  ASSUME NEW o, o = [kind |-> "none", val |-> 0, addrs |-> {}]
  PROVE  o.kind = "none" /\ o.val = 0
OBVIOUS

LEMMA NewsIsQuiet ==
  ASSUME NEW c, NEW ls, NEW n
  PROVE  NewHistory(c, ls, n).quiet
<1> DEFINE holds == GoalHolds(c, ls, n, Bearers(ls, n))
<1>1. NewHistory(c, ls, n) =
        [quiet |-> TRUE, changes |-> 0, named |-> Bearers(ls, n), first |-> holds, held |-> holds]
  BY DEF NewHistory
<1> HIDE DEF holds
<1> QED  BY <1>1

LEMMA ProgressStarts == ProgramInit => ProgressInv
<1> SUFFICES ASSUME ProgramInit PROVE ProgressInv
  OBVIOUS
<1>1. Init /\ status = "listing" /\ at = 1 /\ asked = FALSE /\ alone = TRUE  BY DEF ProgramInit
<1>2. ProgramInv /\ QuietOK(Main)
  BY <1>1, ProgramStarts, QuietInit, MainOnly DEF QuietInv
<1>3. /\ hist[Main] = NewHistory(NoCall, links, "")
      /\ out[Main] = [kind |-> "none", val |-> 0, addrs |-> {}]
  BY <1>1, MainOnly DEF Init
<1>4. hist[Main].quiet  BY <1>3, NewsIsQuiet
<1>5. out[Main].kind = "none" /\ out[Main].val = 0  BY <1>3, NoAnswer
<1>6. Alone  BY <1>1, <1>4, <1>5 DEF Alone
<1>7. StepsTakenHold  BY <1>1, Lasts DEF Lasting
<1>8. FailedRunProgressed  BY <1>1 DEF FailedRunProgressed
<1> QED  BY <1>2, <1>6, <1>7, <1>8 DEF ProgressInv

\* The next call begins when the goal of the last one has been reached.
LEMMA GoneOn ==
  ASSUME ProgressInv, GoOn
  PROVE  StepsTakenHold'
<1>1. /\ status = "calling" /\ asked /\ Idle(Main) /\ at' = at + 1 /\ asked' = FALSE
      /\ links' = links /\ alone' = alone
      /\ out[Main].kind = "ok" \/ Guarded(at)
  BY DEF GoOn, vars
<1>2. at \in 1 .. 13  BY <1>1, Placing DEF ProgressInv, ProgramInv, Placed
<1>3. ASSUME alone, NEW k \in 1 .. 13, Lasting(k)' PROVE Holding(k)'
  <2>1. k < at + 1 /\ Changed(k) /\ ~ \E l \in 1 .. 13 : l > k /\ l < at + 1 /\ Overrides(l, k)
    BY <1>1, <1>3 DEF Lasting, Made
  <2>2. CASE k = at
    <3>1. out[Main].kind = "ok" /\ Script[at].op \in ChangeOps
      BY <1>1, <2>1, <2>2 DEF Changed
    <3>2. Holding(at)  BY <1>1, <1>3, <3>1, ReturnedIsHolding
    <3> QED  BY <1>1, <2>2, <3>2 DEF Holding
  <2>3. CASE k # at
    <3>1. k < at  BY <1>2, <2>1, <2>3
    <3>2. \A l \in 1 .. 13 : l < at + 1 <=> l < at \/ l = at  BY <1>2
    <3>3. Lasting(k)  BY <1>1, <2>1, <3>1, <3>2 DEF Lasting, Made
    <3>4. Holding(k)  BY <1>3, <3>3, Lasts DEF ProgressInv
    <3> QED  BY <1>1, <3>4 DEF Holding
  <2> QED  BY <2>2, <2>3
<1> QED  BY <1>1, <1>3, Lasts

\* What makes the program give up is what the call's answer says.
LEMMA GivenUp ==
  ASSUME ProgressInv, GiveUp, alone, status' = "failed"
  PROVE  \/ out[Main].kind = "netex" /\ out[Main].val \in Failures
         \/ Bearers(links, Interface) = {}
         \/ Script[at].op = "set_mtu" /\ Script[at].mtu > MtuLimit
         \/ Script[at].op = "del_ip_address" /\ hist[Main].changes = 1
<1> DEFINE c == call[Main]
           i == IndexOf(links, Interface)
<1>1. /\ status = "calling" /\ asked /\ Idle(Main) /\ out[Main].kind # "ok"
      /\ ~ (Guarded(at) /\ Catches(InnerHandlers, out[Main].kind))
      /\ out[Main].kind # "denied"
  BY WhereItEnds DEF GiveUp
<1>2. /\ TypeOK /\ links \in [Indexes -> Link] /\ KernelOK(links) /\ CallOK(Main)
      /\ at \in 1 .. 13 /\ nic[Main] = Interface
      /\ c.op = Script[at].op /\ c.addr = Script[at].addr /\ c.mtu = Script[at].mtu
      /\ out[Main].kind \in Answered
      /\ hist[Main].quiet
  <2>1. TypeOK /\ CallOK(Main)  BY MainOnly, InductiveByCaller DEF ProgressInv, ProgramInv
  <2>2. links \in [Indexes -> Link] /\ KernelOK(links)  BY <2>1 DEF TypeOK
  <2>3. at \in 1 .. 13 /\ nic[Main] = Interface
    BY <1>1, Placing DEF ProgressInv, ProgramInv, Placed
  <2>4. /\ c.op = Script[at].op /\ c.addr = Script[at].addr
        /\ out[Main].kind \in Answered
    BY <1>1 DEF ProgressInv, ProgramInv, ScriptedCall
  <2>5. c.mtu = Script[at].mtu /\ hist[Main].quiet  BY <1>1 DEF ProgressInv, Alone
  <2> QED  BY <2>1, <2>2, <2>3, <2>4, <2>5
<1>3. at # 13
  <2>1. \A kind \in Answered \ {"ok"} : Catches(InnerHandlers, kind)
    BY DEF Answered, Catches, InnerHandlers, Classes
  <2> QED  BY <1>1, <1>2, <2>1, ScriptRequests
<1>4. /\ c.op \in Ops /\ c.addr.prefix = 32 /\ ~ IsV6(c.addr) /\ c.addr.raw \in Raw
  BY <1>2, <1>3, ScriptRequests DEF IsV4, Raw
<1>5. out[Main].kind \in {"netex", "timeout"}  BY <1>1, <1>2, <1>4 DEF Answered
<1>6. Right(c, links, i, out[Main])  BY <1>1, <1>2 DEF ProgressInv, QuietOK, Link0
<1>7. i = NotFound => Bearers(links, Interface) = {}  BY <1>2, OneBearer
<1>8. MaxPrefix(c.addr.raw) >= 32  BY <1>4, MaxPrefixType
<1>9. c.op # "open" /\ ~ BadPrefix(c)  BY <1>4 DEF Ops, ChangeOps, ReadOps, BadPrefix
<1> HIDE DEF i
<1>10. CASE out[Main].kind = "netex"
  <2>1. RightError(c, links, i, out[Main].val)  BY <1>6, <1>10 DEF Right
  <2>2. ~ (c.addr.prefix > MaxPrefix(c.addr.raw)) /\ ~ (c.addr.prefix > 255)
    BY <1>4, <1>8, MaxPrefixType
  <2> QED  BY <1>2, <1>4, <1>7, <1>9, <1>10, <2>1, <2>2 DEF RightError
<1>11. CASE out[Main].kind = "timeout"
  <2>1. c.op = "del_ip_address"  BY <1>4, <1>6, <1>11 DEF Right, RightTimeout
  <2> QED  BY <1>1, <1>2, <1>11, <2>1 DEF CallOK
<1> QED  BY <1>5, <1>10, <1>11

\* A step that is none of NetIface.
LEMMA ProgressInPlace ==
  ASSUME ProgressInv, ListNames \/ GoOn \/ GiveUp \/ Kill
  PROVE  ProgressInv'
<1>1. /\ UNCHANGED vars /\ links' = links /\ call' = call /\ out' = out /\ hist' = hist
      /\ alone' = alone
  BY DEF ListNames, GoOn, GiveUp, Kill, vars
<1>2. ProgramInv'  BY ProgramAlone DEF ProgressInv
<1>3. QuietOK(Main)'  BY <1>1, CallQuiet
<1>4. /\ status = "calling" => at \in 1 .. 13
      /\ status \in {"listing", "opening"} => at = 1 /\ ~ asked
  BY Placing DEF ProgressInv, ProgramInv, Placed
<1>5. Alone /\ StepsTakenHold  BY DEF ProgressInv
<1>6. CASE ListNames
  <2>1. /\ status = "listing" /\ UNCHANGED <<at, asked>>
        /\ status' = "opening" \/ \E e \in Failures : status' = Uncaught(Thrown(e))
    BY <1>6 DEF ListNames
  <2>5. status' \in {"opening", "failed", "terminated"} /\ (status' # "opening" => Failures # {})
    BY <2>1, DeniedIsEacces, WhereItEnds
  <2>2. Alone'  BY <1>1, <1>4, <1>5, <2>1, <2>5 DEF Alone
  <2>3. StepsTakenHold'  BY <1>1, <1>5, <2>1, KeptInPlace
  <2>4. FailedRunProgressed'  BY <1>1, <1>5, <2>1, <2>5 DEF FailedRunProgressed, Alone
  <2> QED  BY <1>2, <1>3, <2>2, <2>3, <2>4 DEF ProgressInv
<1>7. CASE GoOn
  <2>1. /\ status = "calling" /\ status' \in {"calling", "done"} /\ at' = at + 1 /\ asked' = FALSE
    BY <1>7 DEF GoOn
  <2>2. Alone'  BY <1>1, <1>5, <2>1 DEF Alone
  <2>3. StepsTakenHold'  BY <1>7, GoneOn
  <2>4. FailedRunProgressed'  BY <2>1 DEF FailedRunProgressed
  <2> QED  BY <1>2, <1>3, <2>2, <2>3, <2>4 DEF ProgressInv
<1>8. CASE GiveUp
  <2>1. status = "calling" /\ status' \in {"failed", "terminated"} /\ UNCHANGED <<at, asked>>
    BY <1>8 DEF GiveUp, Uncaught
  <2>2. Alone'  BY <1>1, <1>5, <2>1 DEF Alone
  <2>3. StepsTakenHold'  BY <1>1, <1>5, <2>1, KeptInPlace
  <2>4. FailedRunProgressed'  BY <1>1, <1>8, <2>1, GivenUp DEF FailedRunProgressed
  <2> QED  BY <1>2, <1>3, <2>2, <2>3, <2>4 DEF ProgressInv
<1>9. CASE Kill
  <2>1. status \in Running /\ status' = "killed" /\ UNCHANGED <<at, asked>>  BY <1>9 DEF Kill
  <2>2. Alone'  BY <1>1, <1>4, <1>5, <2>1 DEF Alone, Running
  <2>3. StepsTakenHold'  BY <1>1, <1>5, <2>1, KeptInPlace
  <2>4. FailedRunProgressed'  BY <2>1 DEF FailedRunProgressed
  <2> QED  BY <1>2, <1>3, <2>2, <2>3, <2>4 DEF ProgressInv
<1> QED  BY <1>6, <1>7, <1>8, <1>9

\* The interface is opened, or a call of the script is made.
LEMMA ProgressBegun ==
  ASSUME ProgressInv, OpenInterface \/ MakeCall
  PROVE  ProgressInv'
<1>1. ProgramInv'  BY ProgramCalls DEF ProgressInv
<1>2. /\ TypeOK /\ call \in [Procs -> Call] /\ out \in [Procs -> Outcome] /\ Main \in Procs
      /\ Alone /\ StepsTakenHold
  BY MainOnly DEF ProgressInv, ProgramInv, Inductive, TypeOK
<1>3. /\ status = "calling" => at \in 1 .. 13
      /\ status = "opening" => at = 1 /\ ~ asked
  BY Placing DEF ProgressInv, ProgramInv, Placed
<1>4. ASSUME Idle(Main), Record(Main) PROVE hist'[Main].quiet
  <2>1. hist'[Main] = NewHistory(call'[Main], links', nic'[Main])  BY <1>2, <1>4, RecordedOf
  <2> QED  BY <2>1, NewsIsQuiet
<1>5. CASE OpenInterface
  <2>1. /\ status = "opening" /\ Open(Main, Interface) /\ UNCHANGED <<at, asked, alone>>
        /\ status' = IF out'[Main].kind = "ok" THEN "calling" ELSE Uncaught(out'[Main].kind)
    BY <1>5 DEF OpenInterface, Constructed
  <2>2. Idle(Main) /\ Record(Main) /\ links' = links  BY <2>1 DEF Open
  <2>3. QuietOK(Main)'  BY <1>2, <2>1, ProgramAssumption, QuietOpen
  <2>4. \/ /\ out'[Main].kind = "ok" /\ Interface \in NamesInUse
           /\ status' = "calling"
        \/ /\ out'[Main].kind = "netex" /\ status' = "failed"
           /\ Interface \notin NamesInUse \/ out'[Main].val \in Failures
        \/ status' = "terminated"
    BY <1>2, <2>1, ProgramAssumption, OpenAnswers, WhereItEnds
  <2>5. Interface \in NamesInUse <=> Bearers(links, Interface) # {}
    BY DEF NamesInUse, Bearers
  <2>6. Alone'  BY <1>3, <1>4, <2>1, <2>2, <2>4, <2>5 DEF Alone
  <2>7. StepsTakenHold'  BY <1>2, <2>1, <2>2, KeptInPlace
  <2>8. FailedRunProgressed'  BY <2>2, <2>4, <2>5 DEF FailedRunProgressed
  <2> QED  BY <1>1, <2>3, <2>6, <2>7, <2>8 DEF ProgressInv
<1>6. CASE MakeCall
  <2>1. /\ status = "calling" /\ Begin(Main, Script[at]) /\ asked' = TRUE
        /\ UNCHANGED <<status, at, alone>>
    BY <1>6 DEF MakeCall
  <2>2. Idle(Main) /\ Record(Main) /\ links' = links  BY <2>1 DEF Begin
  <2>3. Script[at] \in Calls  BY <1>3, <2>1, ScriptRequests
  <2>4. QuietOK(Main)'  BY <1>2, <2>1, <2>3, QuietBegin
  <2>5. call'[Main].mtu = Script[at].mtu  BY <1>2, <2>1 DEF Begin, Started
  <2>6. Alone'  BY <1>2, <1>4, <2>1, <2>2, <2>5 DEF Alone
  <2>7. StepsTakenHold'  BY <1>2, <2>1, <2>2, KeptInPlace
  <2>8. FailedRunProgressed'  BY <2>1 DEF FailedRunProgressed
  <2> QED  BY <1>1, <2>4, <2>6, <2>7, <2>8 DEF ProgressInv
<1> QED  BY <1>5, <1>6

\* A step of the call under way.
LEMMA ProgressUnderway ==
  ASSUME ProgressInv, Underway,
         Proceed(Main) \/ Expire(Main) \/ Refused(Main) \/ AnswerLost(Main)
  PROVE  ProgressInv'
<1>1. /\ status = "calling" /\ asked /\ UNCHANGED <<status, at, asked, runs, alone>>
      /\ Alone /\ Inductive
  BY DEF Underway, program, ProgressInv, ProgramInv
<1>2. ProgramInv'  BY ProgramCalls DEF ProgressInv
<1>3. QuietOK(Main)'  BY CallQuiet, MainOnly DEF Next, Step
<1>4. ~ Idle(Main) /\ Record(Main)
  BY DEF Proceed, GetIndex, Discard, Check, Act, Verify, Read, Expire, Refused, AnswerLost, Idle
<1>5. hist[Main].quiet => hist'[Main].quiet  BY <1>4, MainOnly, QuietStays
<1>6. call'[Main].mtu = call[Main].mtu  BY <1>1, <1>4, MainOnly, AnswerOfStep
<1>7. StepsTakenHold' /\ (alone => Bearers(links, Interface) = Bearers(links', Interface))
  BY StepKeepsSteps
<1>8. Alone'  BY <1>1, <1>5, <1>6, <1>7 DEF Alone
<1>9. FailedRunProgressed'  BY <1>1 DEF FailedRunProgressed
<1> QED  BY <1>2, <1>3, <1>7, <1>8, <1>9 DEF ProgressInv

\* Others interfere, or the program is started again.
LEMMA ProgressDisturbed ==
  ASSUME ProgressInv, NEW i \in Indexes, Disturbed(i)
  PROVE  ProgressInv'
<1>1. ProgramInv'  BY ProgramCalls DEF ProgressInv
<1>2. QuietOK(Main)'  BY CallQuiet DEF Disturbed, Next
<1>3. alone' = FALSE /\ UNCHANGED <<status, at, asked>> /\ UNCHANGED <<call, out>> /\ Alone
  BY OthersKeep DEF Disturbed, ProgressInv, ProgramInv, Inductive
<1>4. Alone'  BY <1>3 DEF Alone
<1> QED  BY <1>1, <1>2, <1>3, <1>4 DEF ProgressInv, StepsTakenHold, FailedRunProgressed

LEMMA ProgressRerun ==
  ASSUME ProgressInv, RunAgain
  PROVE  ProgressInv'
<1>1. ProgramInv'  BY ProgramRerun DEF ProgressInv
<1>2. /\ status' = "listing" /\ at' = 1 /\ asked' = FALSE
      /\ call'[Main] = NoCall
      /\ out'[Main] = [kind |-> "none", val |-> 0, addrs |-> {}]
      /\ hist'[Main] = NewHistory(NoCall, links, "")
  BY MainOnly DEF RunAgain, ProgressInv, ProgramInv, Inductive, TypeOK
<1>3. hist'[Main].quiet  BY <1>2, NewsIsQuiet
<1>4. out'[Main].kind = "none" /\ out'[Main].val = 0  BY <1>2, NoAnswer
<1>5. NoCall.stage = "idle" /\ NoCall.op = "open"  BY DEF NoCall
<1>6. QuietOK(Main)'  BY <1>2, <1>4, <1>5 DEF QuietOK, Idle, Right, AddrOps
<1>7. status' = "listing" /\ at' = 1 /\ asked' = FALSE  BY <1>2
<1>8. Alone'  BY <1>3, <1>4, <1>7 DEF Alone
<1>9. StepsTakenHold'
  <2>1. \A k \in 1 .. 13 : ~ (k < 1)  OBVIOUS
  <2> QED  BY <1>7, <2>1, Lasts DEF Lasting
<1>10. FailedRunProgressed'  BY <1>7 DEF FailedRunProgressed
<1> QED  BY <1>1, <1>6, <1>8, <1>9, <1>10 DEF ProgressInv

LEMMA ProgressSteps ==
  ASSUME ProgressInv, [ProgramNext]_allVars
  PROVE  ProgressInv'
<1>1. CASE ProgramNext
  BY <1>1, ProgressInPlace, ProgressBegun, ProgressUnderway, ProgressDisturbed, ProgressRerun
  DEF ProgramNext, Execute
<1>2. CASE UNCHANGED allVars
  <2>1. UNCHANGED vars /\ UNCHANGED <<links, call, out, hist, status, at, asked, alone>>
    BY <1>2 DEF allVars, vars, program
  <2>2. ProgramInv'  BY <1>2, ProgramSteps DEF ProgressInv
  <2>3. QuietOK(Main)'  BY <2>1, CallQuiet
  <2>4. Alone'  BY <2>1 DEF ProgressInv, Alone
  <2>5. StepsTakenHold'  BY <2>1, KeptInPlace DEF ProgressInv
  <2>6. FailedRunProgressed'  BY <2>1 DEF ProgressInv, FailedRunProgressed
  <2> QED  BY <2>2, <2>3, <2>4, <2>5, <2>6 DEF ProgressInv
<1> QED  BY <1>1, <1>2

\* What a run that nobody disturbs has asked for so far is the case, whatever
\* the links and addresses it found, which transactions fail, and where earlier
\* runs ended.
THEOREM StepsHold == ProgramSpec => []StepsTakenHold
<1>1. ProgressInv => StepsTakenHold  BY DEF ProgressInv
<1> QED  BY <1>1, ProgressStarts, ProgressSteps, PTL DEF ProgramSpec

\* A run that nobody disturbs fails for one of four reasons only, the last of
\* which leaves less to be done for the next run.
THEOREM FailuresAccounted == ProgramSpec => []FailedRunProgressed
<1>1. ProgressInv => FailedRunProgressed  BY DEF ProgressInv
<1> QED  BY <1>1, ProgressStarts, ProgressSteps, PTL DEF ProgramSpec
=============================================================================
