---------------------------- MODULE NetlinkProofs ----------------------------
(***************************************************************************)
(* What TLAPS proves of Netlink.tla for any set of threads, any thread     *)
(* ids, any descriptor limit and any number of sessions.  The effect of    *)
(* every action on the fields of its object is stated first, so that the   *)
(* proofs of the invariants do not depend on how records are updated.      *)
(***************************************************************************)
EXTENDS Netlink, TLAPS

\* What Slots and the operators on them are made of.
LEMMA SlotFacts ==
  /\ \A s \in Slots : s[1] \in Threads /\ s[2] \in 1..2 /\ s = <<s[1], s[2]>>
  /\ \A t \in Threads : <<t, 1>> \in Slots /\ <<t, 2>> \in Slots
  /\ \A s \in Slots : Outer(s) = <<s[1], 1>> /\ Inner(s) = <<s[1], 2>>
BY DEF Slots, Outer, Inner
-----------------------------------------------------------------------------
(* Effects *)

Objects == [Slots -> Object]
Frame(s) == obj' \in Objects /\ \A r \in Slots : r # s => obj'[r] = obj[r]
KeepsRequest(s) == obj'[s].pid = obj[s].pid /\ obj'[s].kind = obj[s].kind
KeepsSock(s) == obj'[s].sock = obj[s].sock
KeepsAnswer(s) ==
  /\ obj'[s].answer = obj[s].answer /\ obj'[s].err = obj[s].err
  /\ obj'[s].left = obj[s].left /\ obj'[s].got = obj[s].got /\ obj'[s].total = obj[s].total
  /\ obj'[s].broken = obj[s].broken /\ obj'[s].executed = obj[s].executed
NoAnswer(s) ==
  /\ obj'[s].answer = "none" /\ obj'[s].err = 0
  /\ obj'[s].left = 0 /\ obj'[s].got = 0 /\ obj'[s].total = 0
  /\ obj'[s].broken = FALSE /\ obj'[s].executed = FALSE

\* One record is replaced.
LEMMA Replaces ==
  ASSUME obj \in Objects, NEW s \in Slots, NEW o \in Object, Becomes(s, o)
  PROVE  Frame(s) /\ obj'[s] = o
BY DEF Objects, Becomes, Frame

\* An action that only moves the object on.
LEMMA Moves ==
  ASSUME obj \in Objects, NEW s \in Slots, NEW st \in Progress,
         Becomes(s, [obj[s] EXCEPT !.st = st])
  PROVE  Frame(s) /\ KeepsRequest(s) /\ KeepsSock(s) /\ KeepsAnswer(s) /\ obj'[s].st = st
<1>1. obj[s] \in Object
  BY DEF Objects
<1> DEFINE o == [obj[s] EXCEPT !.st = st]
<1>2. o \in Object
  BY <1>1 DEF Object
<1>3. /\ o.st = st /\ o.pid = obj[s].pid /\ o.kind = obj[s].kind /\ o.sock = obj[s].sock
      /\ o.answer = obj[s].answer /\ o.err = obj[s].err /\ o.left = obj[s].left
      /\ o.got = obj[s].got /\ o.total = obj[s].total /\ o.broken = obj[s].broken
      /\ o.executed = obj[s].executed
  BY <1>1 DEF Object
<1> HIDE DEF o
<1>4. Becomes(s, o)
  BY DEF o
<1>5. Frame(s) /\ obj'[s] = o
  BY <1>2, <1>4, Replaces
<1> QED
  BY <1>3, <1>5 DEF KeepsRequest, KeepsSock, KeepsAnswer

\* An action after which there is no object.
LEMMA Frees ==
  ASSUME obj \in Objects, NEW s \in Slots, Becomes(s, NoObject)
  PROVE  Frame(s) /\ NoAnswer(s) /\ obj'[s].st = "none"
<1>1. /\ NoObject \in Object /\ NoObject.st = "none"
      /\ NoObject.answer = "none" /\ NoObject.err = 0 /\ NoObject.left = 0
      /\ NoObject.got = 0 /\ NoObject.total = 0
      /\ NoObject.broken = FALSE /\ NoObject.executed = FALSE
  BY DEF NoObject, Object, Progress
<1>2. Frame(s) /\ obj'[s] = NoObject
  BY <1>1, Replaces
<1> QED
  BY <1>1, <1>2 DEF NoAnswer

\* What the first step of a constructor leaves of its slot.
LEMMA Constructs ==
  ASSUME TypeOK, NEW s \in Slots, NEW k \in {"get", "change"}, Construct(s, k)
  PROVE  /\ Frame(s) /\ NoAnswer(s)
         /\ obj'[s].st = "ctor" /\ obj'[s].kind = k
         /\ obj'[s].pid = Tid[s[1]] + session /\ Tid[s[1]] \in Nat
<1>1. Tid[s[1]] \in Nat /\ session \in Nat
  BY SlotFacts, NetlinkAssumption DEF NetlinkAssumption, TypeOK
<1>2. PICK n \in Nat : n = Tid[s[1]] + session
  BY <1>1
<1> DEFINE o == [NoObject EXCEPT !.st = "ctor", !.kind = k, !.pid = n]
<1>3. Becomes(s, o)
  BY <1>2 DEF Construct, SessionPid
<1>4. /\ o \in Object /\ o.st = "ctor" /\ o.kind = k /\ o.pid = n
      /\ o.answer = "none" /\ o.err = 0 /\ o.left = 0 /\ o.got = 0 /\ o.total = 0
      /\ o.broken = FALSE /\ o.executed = FALSE
  BY DEF NoObject, Object, Progress
<1> HIDE DEF o
<1>5. Frame(s) /\ obj'[s] = o
  BY <1>3, <1>4, Replaces DEF TypeOK, Objects
<1> QED
  BY <1>1, <1>2, <1>4, <1>5 DEF NoAnswer

\* socket() gives the object a descriptor that was not open.
LEMMA Opens ==
  ASSUME TypeOK, NEW s \in Slots, OpenSocket(s)
  PROVE  /\ Frame(s) /\ KeepsRequest(s) /\ KeepsAnswer(s) /\ obj'[s].st = "opened"
         /\ obj'[s].sock \in Fds \ fds /\ fds' = fds \cup {obj'[s].sock}
<1>1. PICK fd \in Fds \ fds :
        fds' = fds \cup {fd} /\ Becomes(s, [obj[s] EXCEPT !.st = "opened", !.sock = fd])
  BY DEF OpenSocket
<1>2. obj[s] \in Object
  BY DEF TypeOK
<1> DEFINE o == [obj[s] EXCEPT !.st = "opened", !.sock = fd]
<1>3. o \in Object
  BY <1>2 DEF Object, Progress, WithSocket
<1>4. /\ o.st = "opened" /\ o.pid = obj[s].pid /\ o.kind = obj[s].kind /\ o.sock = fd
      /\ o.answer = obj[s].answer /\ o.err = obj[s].err /\ o.left = obj[s].left
      /\ o.got = obj[s].got /\ o.total = obj[s].total /\ o.broken = obj[s].broken
      /\ o.executed = obj[s].executed
  BY <1>2 DEF Object
<1>5. Becomes(s, o)
  BY <1>1
<1> HIDE DEF o
<1>6. Frame(s) /\ obj'[s] = o
  BY <1>3, <1>5, Replaces DEF TypeOK, Objects
<1> QED
  BY <1>1, <1>4, <1>6 DEF KeepsRequest, KeepsAnswer

\* A request that is executed or refused, and whether it is answered.
LEMMA Sends ==
  ASSUME TypeOK, NEW s \in Slots, Send(s)
  PROVE  /\ Frame(s) /\ KeepsRequest(s) /\ KeepsSock(s)
         /\ obj'[s].st = "sent" /\ obj'[s].got = obj[s].got
         /\ obj'[s].broken = obj[s].broken
         /\ \/ /\ obj[s].kind = "get" /\ obj'[s].answer = "dump" /\ obj'[s].executed
               /\ obj'[s].left = obj'[s].total
            \/ /\ obj[s].kind = "change" /\ obj'[s].answer = "error" /\ obj'[s].err = 0
               /\ obj'[s].executed
            \/ /\ obj'[s].answer = "error" /\ obj'[s].err # 0
               /\ obj'[s].executed = obj[s].executed
            \/ obj'[s].answer = "lost"
<1> DEFINE sent == [obj[s] EXCEPT !.st = "sent"]
           Result(o) ==
             /\ o \in Object
             /\ o.st = "sent" /\ o.pid = obj[s].pid /\ o.kind = obj[s].kind
             /\ o.sock = obj[s].sock /\ o.got = obj[s].got /\ o.broken = obj[s].broken
             /\ \/ /\ obj[s].kind = "get" /\ o.answer = "dump" /\ o.left = o.total
                   /\ o.executed
                \/ obj[s].kind = "change" /\ o.answer = "error" /\ o.err = 0 /\ o.executed
                \/ o.answer = "error" /\ o.err # 0 /\ o.executed = obj[s].executed
                \/ o.answer = "lost"
<1>1. /\ sent \in Object
      /\ sent.st = "sent" /\ sent.pid = obj[s].pid /\ sent.kind = obj[s].kind
      /\ sent.sock = obj[s].sock /\ sent.got = obj[s].got /\ sent.broken = obj[s].broken
      /\ sent.executed = obj[s].executed
  BY DEF TypeOK, Object, Progress, WithSocket, WithPort
<1>2. \E o : Becomes(s, o) /\ Result(o)
  <2> HIDE DEF sent
  <2>1. ASSUME obj[s].kind = "get", NEW n \in 0..MaxParts
        PROVE  Result([sent EXCEPT !.answer = "dump", !.left = n, !.total = n,
                                   !.executed = TRUE])
    <3>1. n \in Nat
      BY NetlinkAssumption DEF NetlinkAssumption
    <3> QED BY <1>1, <2>1, <3>1 DEF Object
  <2>2. ASSUME obj[s].kind = "change"
        PROVE  Result([sent EXCEPT !.answer = "error", !.err = 0, !.executed = TRUE])
    BY <1>1, <2>2 DEF Object
  <2>3. ASSUME NEW e \in Errnos
        PROVE  Result([sent EXCEPT !.answer = "error", !.err = e])
    <3>1. e # 0
      BY NetlinkAssumption DEF NetlinkAssumption
    <3> QED BY <1>1, <3>1 DEF Object
  <2>4. ASSUME NEW b \in BOOLEAN
        PROVE  Result([sent EXCEPT !.answer = "lost", !.executed = b])
    BY <1>1 DEF Object
  <2> HIDE DEF Result
  <2> QED BY <2>1, <2>2, <2>3, <2>4 DEF Send, sent
<1>3. PICK o : Becomes(s, o) /\ Result(o)
  BY <1>2
<1>4. Frame(s) /\ obj'[s] = o
  BY <1>3, Replaces DEF TypeOK, Objects
<1> QED
  BY <1>3, <1>4 DEF KeepsRequest, KeepsSock

\* What a datagram leaves of the object that reads it.
LEMMA Receives ==
  ASSUME TypeOK, NEW s \in Slots, ReceiveDump(s)
  PROVE  /\ Frame(s) /\ KeepsRequest(s) /\ KeepsSock(s)
         /\ obj'[s].answer = obj[s].answer /\ obj'[s].err = obj[s].err
         /\ obj'[s].total = obj[s].total /\ obj'[s].executed = obj[s].executed
         /\ obj'[s].st \in {"sent", "done"}
         /\ obj'[s].got + obj'[s].left = obj[s].got + obj[s].left
         /\ IF obj'[s].broken THEN obj'[s].st = "done" /\ obj'[s].left > 0
                              ELSE obj'[s].st = "done" => obj'[s].left = 0
<1>1. PICK k \in 0..PerDatagram, last \in BOOLEAN, broken \in BOOLEAN :
        /\ Datagram(s, k, last, broken)
        /\ Becomes(s, [obj[s] EXCEPT !.got = @ + k, !.left = @ - k, !.broken = broken,
                                     !.st = IF LoopEnds(last) THEN "done" ELSE "sent"])
  BY DEF ReceiveDump
<1>2. obj[s] \in Object /\ obj[s].got \in Nat /\ obj[s].left \in Nat
  BY DEF TypeOK, Object
<1>3. /\ k \in Nat /\ k <= obj[s].left
      /\ IF broken THEN last /\ k < obj[s].left ELSE last => k = obj[s].left
  BY <1>1, <1>2, NetlinkAssumption DEF Datagram, NetlinkAssumption
<1>4. obj[s].got + k \in Nat /\ obj[s].left - k \in Nat
  BY <1>2, <1>3
<1>5. PICK g \in Nat, l \in Nat : g = obj[s].got + k /\ l = obj[s].left - k
  BY <1>4, Zenon
<1>6. PICK st \in {"sent", "done"} : st = IF LoopEnds(last) THEN "done" ELSE "sent"
  OBVIOUS
<1> DEFINE o == [obj[s] EXCEPT !.got = g, !.left = l, !.broken = broken, !.st = st]
<1>7. Becomes(s, o)
  BY <1>1, <1>5, <1>6
<1>8. /\ o \in Object /\ o.st = st /\ o.got = g /\ o.left = l /\ o.broken = broken
      /\ o.pid = obj[s].pid /\ o.kind = obj[s].kind /\ o.sock = obj[s].sock
      /\ o.answer = obj[s].answer /\ o.err = obj[s].err
      /\ o.total = obj[s].total /\ o.executed = obj[s].executed
  BY <1>2 DEF Object, Progress, WithSocket, WithPort
<1> HIDE DEF o
<1>9. Frame(s) /\ obj'[s] = o
  BY <1>7, <1>8, Replaces DEF TypeOK, Objects
<1>10. IF broken THEN st = "done" /\ l > 0 ELSE st = "done" => l = 0
  BY <1>2, <1>3, <1>5, <1>6 DEF LoopEnds
<1> QED
  BY <1>2, <1>3, <1>5, <1>6, <1>8, <1>9, <1>10 DEF KeepsRequest, KeepsSock
-----------------------------------------------------------------------------
(* The actions: what each leaves of the object it is about *)

\* Next by its actions, for the proofs that take them one by one.
LEMMA Actions ==
  ASSUME [Next]_vars
  PROVE  \/ \E s \in Slots : \/ \E k \in {"get", "change"} : Construct(s, k)
                             \/ OpenSocket(s) \/ NoDescriptor(s)
                             \/ Bind(s) \/ BindFails(s)
                             \/ Send(s) \/ SendFails(s)
                             \/ ReceiveDump(s) \/ ReceiveError(s) \/ ReceiveFails(s)
                             \/ Close(s)
         \/ \E t \in Threads : Caught(t)
         \/ \E p \in ForeignPorts : ForeignBinds(p) \/ ForeignReleases(p)
         \/ UNCHANGED vars
BY DEF Next, Method

Kept(s) == Frame(s) /\ KeepsRequest(s) /\ KeepsSock(s) /\ KeepsAnswer(s)

\* bind() moves the object on and keeps the rest of it.
LEMMA Binds ==
  ASSUME TypeOK, NEW s \in Slots, Bind(s)
  PROVE  Kept(s) /\ obj'[s].st = "bound"
<1>1. obj \in Objects /\ "bound" \in Progress
  BY DEF TypeOK, Objects, Progress, WithSocket, WithPort
<1>2. Becomes(s, [obj[s] EXCEPT !.st = "bound"])
  BY DEF Bind
<1> QED BY <1>1, <1>2, Moves DEF Kept

\* A failed send or receive moves the object to "failed" and keeps the rest of it.
LEMMA Fails ==
  ASSUME TypeOK, NEW s \in Slots, SendFails(s) \/ ReceiveFails(s)
  PROVE  Kept(s) /\ obj'[s].st = "failed" /\ Throw(s, "netex")
<1>1. obj \in Objects /\ "failed" \in Progress
  BY DEF TypeOK, Objects, Progress, WithSocket, WithPort
<1>2. Becomes(s, [obj[s] EXCEPT !.st = "failed"]) /\ Throw(s, "netex")
  BY DEF SendFails, ReceiveFails
<1> QED BY <1>1, <1>2, Moves DEF Kept

\* An ACK or an error ends the exchange and keeps the rest of the object.
LEMMA Concludes ==
  ASSUME TypeOK, NEW s \in Slots, ReceiveError(s)
  PROVE  /\ Kept(s)
         /\ \/ obj[s].err = 0 /\ obj'[s].st = "done" /\ exc' = exc
            \/ obj[s].err # 0 /\ obj'[s].st = "failed" /\ Throw(s, ErrorThrows(obj[s].err))
<1>1. obj \in Objects /\ "done" \in Progress /\ "failed" \in Progress
  BY DEF TypeOK, Objects, Progress, WithSocket, WithPort
<1>2. CASE obj[s].err = 0
  <2>1. Becomes(s, [obj[s] EXCEPT !.st = "done"]) /\ exc' = exc
    BY <1>2 DEF ReceiveError, IsAck
  <2> QED BY <1>1, <1>2, <2>1, Moves DEF Kept
<1>3. CASE obj[s].err # 0
  <2>1. Becomes(s, [obj[s] EXCEPT !.st = "failed"]) /\ Throw(s, ErrorThrows(obj[s].err))
    BY <1>3 DEF ReceiveError, IsAck
  <2> QED BY <1>1, <1>3, <2>1, Moves DEF Kept
<1> QED BY <1>2, <1>3

\* The actions after which the slot is empty.
LEMMA Empties ==
  ASSUME TypeOK, NEW s \in Slots, NoDescriptor(s) \/ BindFails(s) \/ Close(s)
  PROVE  Frame(s) /\ NoAnswer(s) /\ obj'[s].st = "none"
<1>1. obj \in Objects /\ Becomes(s, NoObject)
  BY DEF TypeOK, Objects, NoDescriptor, BindFails, Close
<1> QED BY <1>1, Frees
-----------------------------------------------------------------------------
(* The invariants, one after the other *)

\* The types hold at first.
LEMMA InitTypeOK == Init => TypeOK
<1>1. NoObject \in Object /\ NoObject.st = "none"
  BY DEF NoObject, Object, Progress
<1> QED BY <1>1 DEF Init, TypeOK, WithSocket, WithPort

\* Where exceptions are thrown, exc keeps its type.
LEMMA ThrowType ==
  ASSUME TypeOK, NEW s \in Slots, NEW e \in {"netex", "denied"}, Throw(s, e)
  PROVE  exc' \in [Threads -> {"none", "netex", "denied"}]
BY SlotFacts DEF TypeOK, Throw

\* The sockets of the objects stay descriptors.
SocksOK == \A s \in Slots : obj[s].st \in WithSocket => obj[s].sock \in Fds

\* Every step keeps the types.
LEMMA NextTypeOK == TypeOK /\ [Next]_vars => TypeOK'
<1> SUFFICES ASSUME TypeOK, [Next]_vars PROVE TypeOK'
  OBVIOUS
<1> USE DEF SocksOK
<1>0. SocksOK /\ obj \in Objects
  BY DEF TypeOK, Objects
<1>1. ASSUME NEW s \in Slots, NEW k \in {"get", "change"}, Construct(s, k) PROVE TypeOK'
  <2>1. Frame(s) /\ obj'[s].st = "ctor"
    BY <1>1, Constructs
  <2>2. obj' \in Objects /\ SocksOK'
    BY <1>0, <2>1 DEF Frame, WithSocket, WithPort
  <2> QED BY <1>1, <2>2 DEF TypeOK, Objects, Construct
<1>2. ASSUME NEW s \in Slots, OpenSocket(s) PROVE TypeOK'
  <2>1. Frame(s) /\ obj'[s].sock \in Fds \ fds /\ fds' = fds \cup {obj'[s].sock}
    BY <1>2, Opens
  <2>2. obj' \in Objects /\ SocksOK'
    BY <1>0, <2>1 DEF Frame
  <2> QED BY <1>2, <2>1, <2>2 DEF TypeOK, Objects, OpenSocket
<1>3. ASSUME NEW s \in Slots, NoDescriptor(s) \/ BindFails(s) \/ Close(s) PROVE TypeOK'
  <2>1. Frame(s) /\ obj'[s].st = "none"
    BY <1>3, Empties
  <2>2. obj' \in Objects /\ SocksOK'
    BY <1>0, <2>1 DEF Frame, WithSocket, WithPort
  <2>3. CASE NoDescriptor(s)
    <3>1. exc' \in [Threads -> {"none", "netex", "denied"}]
      BY <2>3, ThrowType DEF NoDescriptor
    <3> QED BY <2>2, <2>3, <3>1 DEF TypeOK, Objects, NoDescriptor
  <2>4. CASE BindFails(s)
    <3>1. exc' \in [Threads -> {"none", "netex", "denied"}]
      BY <2>4, ThrowType DEF BindFails
    <3>2. leaked' \in SUBSET Fds
      BY <1>0, <2>4 DEF TypeOK, BindFails, WithSocket
    <3> QED BY <2>2, <2>4, <3>1, <3>2 DEF TypeOK, Objects, BindFails
  <2>5. CASE Close(s)
    BY <2>2, <2>5 DEF TypeOK, Objects, Close
  <2> QED BY <1>3, <2>3, <2>4, <2>5
<1>4. ASSUME NEW s \in Slots, Bind(s) PROVE TypeOK'
  <2>1. Frame(s) /\ KeepsSock(s) /\ obj'[s].st = "bound"
    BY <1>4, Binds DEF Kept
  <2>2. obj[s].st \in WithSocket /\ obj[s].pid \in Nat
    BY <1>0, <1>4 DEF Bind, WithSocket, Objects, Object
  <2>3. obj' \in Objects /\ SocksOK'
    BY <1>0, <2>1, <2>2 DEF Frame, KeepsSock
  <2> QED BY <1>4, <2>2, <2>3 DEF TypeOK, Objects, Bind
<1>5. ASSUME NEW s \in Slots, Send(s) \/ ReceiveDump(s) PROVE TypeOK'
  <2>1. Frame(s) /\ KeepsSock(s)
    BY <1>5, Sends, Receives
  <2>2. obj[s].st \in WithSocket
    BY <1>5 DEF Send, ReceiveDump, WithSocket, WithPort
  <2>3. obj' \in Objects /\ SocksOK'
    BY <1>0, <2>1, <2>2 DEF Frame, KeepsSock
  <2> QED BY <1>5, <2>3 DEF TypeOK, Objects, Send, ReceiveDump
<1>6. ASSUME NEW s \in Slots, SendFails(s) \/ ReceiveError(s) \/ ReceiveFails(s) PROVE TypeOK'
  <2>1. Frame(s) /\ KeepsSock(s)
    BY <1>6, Fails, Concludes DEF Kept
  <2>2. obj[s].st \in WithSocket
    BY <1>6 DEF SendFails, ReceiveError, ReceiveFails, WithSocket, WithPort
  <2>3. obj' \in Objects /\ SocksOK'
    BY <1>0, <2>1, <2>2 DEF Frame, KeepsSock
  <2>4. exc' \in [Threads -> {"none", "netex", "denied"}]
    <3>1. CASE exc' = exc
      BY <3>1 DEF TypeOK
    <3>2. CASE Throw(s, "netex") \/ Throw(s, ErrorThrows(obj[s].err))
      BY <3>2, ThrowType DEF ErrorThrows
    <3> QED BY <1>6, <3>1, <3>2, Fails, Concludes
  <2> QED
    BY <1>6, <2>3, <2>4 DEF TypeOK, Objects, SendFails, ReceiveError, ReceiveFails
<1>7. ASSUME NEW t \in Threads, Caught(t) PROVE TypeOK'
  BY <1>7 DEF TypeOK, Caught
<1>8. ASSUME NEW p \in ForeignPorts, ForeignBinds(p) \/ ForeignReleases(p) PROVE TypeOK'
  BY <1>8 DEF TypeOK, ForeignBinds, ForeignReleases
<1>9. CASE UNCHANGED vars
  BY <1>9 DEF vars, TypeOK
<1> QED
  BY <1>1, <1>2, <1>3, <1>4, <1>5, <1>6, <1>7, <1>8, <1>9, Actions

\* Every variable keeps its type, and every object that has got past socket()
\* holds a descriptor.
THEOREM TypeCorrect == Spec => []TypeOK
BY InitTypeOK, NextTypeOK, PTL DEF Spec

Owner(s) == obj[s].st \in WithSocket

\* The descriptors are accounted for at first.
LEMMA InitFds == Init => FdsAccounted
<1>1. NoObject.st = "none"
  BY DEF NoObject
<1> QED BY <1>1 DEF Init, FdsAccounted, WithSocket, WithPort

\* Owners and their sockets as they were, so the account as it was.
LEMMA SameFds ==
  ASSUME TypeOK, FdsAccounted, fds' = fds, leaked' = leaked,
         \A s \in Slots : (Owner(s) <=> Owner(s)') /\ (Owner(s) => obj'[s].sock = obj[s].sock)
  PROVE  FdsAccounted'
BY DEF FdsAccounted, Owner

\* Every step keeps the account of the descriptors.
LEMMA NextFds == TypeOK /\ FdsAccounted /\ [Next]_vars => FdsAccounted'
<1> SUFFICES ASSUME TypeOK, FdsAccounted, [Next]_vars PROVE FdsAccounted'
  OBVIOUS
<1> USE DEF Owner, WithSocket, WithPort
<1>1. ASSUME NEW s \in Slots, NEW k \in {"get", "change"}, Construct(s, k) PROVE FdsAccounted'
  <2>1. Frame(s) /\ obj'[s].st = "ctor"
    BY <1>1, Constructs
  <2>2. obj[s].st = "none" /\ UNCHANGED <<fds, leaked>>
    BY <1>1 DEF Construct, MayConstruct
  <2> QED BY <2>1, <2>2, SameFds DEF Frame
<1>2. ASSUME NEW s \in Slots, OpenSocket(s) PROVE FdsAccounted'
  <2>1. Frame(s) /\ obj'[s].st = "opened"
    BY <1>2, Opens
  <2>2. obj'[s].sock \in Fds \ fds /\ fds' = fds \cup {obj'[s].sock}
    BY <1>2, Opens
  <2>3. obj[s].st = "ctor" /\ leaked' = leaked
    BY <1>2 DEF OpenSocket
  <2> QED BY <2>1, <2>2, <2>3 DEF FdsAccounted, Frame
<1>3. ASSUME NEW s \in Slots, NoDescriptor(s) PROVE FdsAccounted'
  <2>1. Frame(s) /\ obj'[s].st = "none"
    BY <1>3, Empties
  <2>2. obj[s].st = "ctor" /\ UNCHANGED <<fds, leaked>>
    BY <1>3 DEF NoDescriptor
  <2> QED BY <2>1, <2>2, SameFds DEF Frame
<1>4. ASSUME NEW s \in Slots, BindFails(s) PROVE FdsAccounted'
  <2>1. Frame(s) /\ obj'[s].st = "none"
    BY <1>4, Empties
  <2>2. obj[s].st = "opened" /\ fds' = fds /\ leaked' = leaked \cup {obj[s].sock}
    BY <1>4 DEF BindFails
  <2> QED BY <2>1, <2>2 DEF FdsAccounted, Frame
<1>5. ASSUME NEW s \in Slots, Close(s) PROVE FdsAccounted'
  <2>1. Frame(s) /\ obj'[s].st = "none"
    BY <1>5, Empties
  <2>2. Owner(s) /\ fds' = fds \ {obj[s].sock} /\ leaked' = leaked
    BY <1>5 DEF Close, Closable, Closed
  <2> QED BY <2>1, <2>2 DEF FdsAccounted, Frame
<1>6. ASSUME NEW s \in Slots,
             Bind(s) \/ Send(s) \/ SendFails(s) \/ ReceiveDump(s) \/ ReceiveError(s)
               \/ ReceiveFails(s)
      PROVE  FdsAccounted'
  <2>1. Frame(s) /\ KeepsSock(s) /\ Owner(s)'
    BY <1>6, Binds, Sends, Fails, Receives, Concludes DEF Kept
  <2>2. Owner(s) /\ UNCHANGED <<fds, leaked>>
    BY <1>6 DEF Bind, Send, SendFails, ReceiveDump, ReceiveError, ReceiveFails
  <2> QED BY <2>1, <2>2, SameFds DEF Frame, KeepsSock
<1>7. ASSUME UNCHANGED <<obj, fds, leaked>> PROVE FdsAccounted'
  BY <1>7, SameFds
<1>8. ASSUME \/ \E t \in Threads : Caught(t)
             \/ \E p \in ForeignPorts : ForeignBinds(p) \/ ForeignReleases(p)
             \/ UNCHANGED vars
      PROVE  UNCHANGED <<obj, fds, leaked>>
  BY <1>8 DEF Caught, ForeignBinds, ForeignReleases, vars
<1> QED
  BY <1>1, <1>2, <1>3, <1>4, <1>5, <1>6, <1>7, <1>8, Actions

\* No descriptor is lost but those of constructors that threw, and no two
\* objects share one: the destructor closes its own socket and no other.
THEOREM Accounted == Spec => []FdsAccounted
<1>1. Init => TypeOK /\ FdsAccounted
  BY InitTypeOK, InitFds
<1>2. TypeOK /\ FdsAccounted /\ [Next]_vars => (TypeOK /\ FdsAccounted)'
  BY NextTypeOK, NextFds
<1> QED BY <1>1, <1>2, PTL DEF Spec
-----------------------------------------------------------------------------
\* Session numbers, and the ports made of them.
LEMMA InitPorts == Init => Numbered /\ PortsOwned
<1>1. NoObject.st = "none"
  BY DEF NoObject
<1> QED BY <1>1 DEF Init, Numbered, PortsOwned, Live, WithPort

\* Numbering is kept by a step that creates no object and renumbers none.
LEMMA SameNumbers ==
  ASSUME TypeOK, Numbered, session' = session,
         \A s \in Slots : Live(s)' => Live(s) /\ obj'[s].pid = obj[s].pid
  PROVE  Numbered'
BY DEF Numbered, Number, Live

\* Every step keeps the numbers of live objects apart.
LEMMA NextNumbered == TypeOK /\ Numbered /\ [Next]_vars => Numbered'
<1> SUFFICES ASSUME TypeOK, Numbered, [Next]_vars PROVE Numbered'
  OBVIOUS
<1>1. ASSUME NEW s \in Slots, NEW k \in {"get", "change"}, Construct(s, k) PROVE Numbered'
  <2>1. /\ Frame(s) /\ obj'[s].pid = Tid[s[1]] + session /\ Tid[s[1]] \in Nat
        /\ session' = session + 1 /\ session \in Nat
    BY <1>1, Constructs DEF Construct, TypeOK
  <2>2. Number(s)' = session
    BY <2>1 DEF Number
  <2>3. \A r \in Slots : r # s /\ Live(r)' => Live(r) /\ Number(r)' = Number(r)
    BY <2>1 DEF Frame, Live, Number
  <2> QED BY <2>1, <2>2, <2>3 DEF Numbered
<1>2. ASSUME NEW s \in Slots, NoDescriptor(s) \/ BindFails(s) \/ Close(s) PROVE Numbered'
  <2>1. Frame(s) /\ obj'[s].st = "none" /\ session' = session
    BY <1>2, Empties DEF NoDescriptor, BindFails, Close
  <2> QED BY <2>1, SameNumbers DEF Frame, Live
<1>3. ASSUME NEW s \in Slots,
             OpenSocket(s) \/ Bind(s) \/ Send(s) \/ SendFails(s) \/ ReceiveDump(s)
               \/ ReceiveError(s) \/ ReceiveFails(s)
      PROVE  Numbered'
  <2>1. Frame(s) /\ KeepsRequest(s)
    BY <1>3, Opens, Binds, Sends, Fails, Receives, Concludes DEF Kept
  <2>2. Live(s) /\ session' = session
    BY <1>3
    DEF Live, OpenSocket, Bind, Send, SendFails, ReceiveDump, ReceiveError, ReceiveFails
  <2> QED BY <2>1, <2>2, SameNumbers DEF Frame, KeepsRequest, Live
<1>4. ASSUME UNCHANGED <<obj, session>> PROVE Numbered'
  BY <1>4, SameNumbers DEF Live
<1>5. ASSUME \/ \E t \in Threads : Caught(t)
             \/ \E p \in ForeignPorts : ForeignBinds(p) \/ ForeignReleases(p)
             \/ UNCHANGED vars
      PROVE  UNCHANGED <<obj, session>>
  BY <1>5 DEF Caught, ForeignBinds, ForeignReleases, vars
<1> QED
  BY <1>1, <1>2, <1>3, <1>4, <1>5, Actions

Constructed(s) == obj[s].st \in WithPort

\* Ownership of ports is kept by a step that binds and releases none.
LEMMA SamePorts ==
  ASSUME TypeOK, PortsOwned, ports' = ports,
         \A s \in Slots : Constructed(s)' => Constructed(s) /\ obj'[s].pid = obj[s].pid
  PROVE  PortsOwned'
BY DEF PortsOwned, Constructed

\* Every step keeps the bound ports those of the constructed objects.
LEMMA NextPorts == TypeOK /\ PortsOwned /\ [Next]_vars => PortsOwned'
<1> SUFFICES ASSUME TypeOK, PortsOwned, [Next]_vars PROVE PortsOwned'
  OBVIOUS
<1> USE DEF Constructed, WithPort
<1>1. ASSUME NEW s \in Slots, NEW k \in {"get", "change"}, Construct(s, k) PROVE PortsOwned'
  <2>1. Frame(s) /\ obj'[s].st = "ctor" /\ ports' = ports
    BY <1>1, Constructs DEF Construct
  <2> QED BY <2>1, SamePorts DEF Frame
<1>2. ASSUME NEW s \in Slots, OpenSocket(s) PROVE PortsOwned'
  <2>1. Frame(s) /\ obj'[s].st = "opened" /\ ports' = ports
    BY <1>2, Opens DEF OpenSocket
  <2> QED BY <2>1, SamePorts DEF Frame
<1>3. ASSUME NEW s \in Slots, NoDescriptor(s) \/ BindFails(s) PROVE PortsOwned'
  <2>1. Frame(s) /\ obj'[s].st = "none" /\ ports' = ports
    BY <1>3, Empties DEF NoDescriptor, BindFails
  <2> QED BY <2>1, SamePorts DEF Frame
<1>4. ASSUME NEW s \in Slots, Bind(s) PROVE PortsOwned'
  <2>1. Frame(s) /\ obj'[s].pid = obj[s].pid
    BY <1>4, Binds DEF Kept, KeepsRequest
  <2>2. obj[s].pid \notin ports /\ ports' = ports \cup {obj[s].pid}
    BY <1>4 DEF Bind, PortFree
  <2> QED BY <2>1, <2>2 DEF PortsOwned, Frame
<1>5. ASSUME NEW s \in Slots, Close(s) PROVE PortsOwned'
  <2>1. Frame(s) /\ obj'[s].st = "none"
    BY <1>5, Empties
  <2>2. Constructed(s) /\ ports' = ports \ {obj[s].pid}
    BY <1>5 DEF Close, Closable
  <2> QED BY <2>1, <2>2 DEF PortsOwned, Frame
<1>6. ASSUME NEW s \in Slots,
             Send(s) \/ SendFails(s) \/ ReceiveDump(s) \/ ReceiveError(s) \/ ReceiveFails(s)
      PROVE  PortsOwned'
  <2>1. Frame(s) /\ KeepsRequest(s)
    BY <1>6, Sends, Fails, Receives, Concludes DEF Kept
  <2>2. Constructed(s) /\ ports' = ports
    BY <1>6 DEF Send, SendFails, ReceiveDump, ReceiveError, ReceiveFails
  <2> QED BY <2>1, <2>2, SamePorts DEF Frame, KeepsRequest
<1>7. ASSUME UNCHANGED <<obj, ports>> PROVE PortsOwned'
  BY <1>7, SamePorts
<1>8. ASSUME \/ \E t \in Threads : Caught(t)
             \/ \E p \in ForeignPorts : ForeignBinds(p) \/ ForeignReleases(p)
             \/ UNCHANGED vars
      PROVE  UNCHANGED <<obj, ports>>
  BY <1>8 DEF Caught, ForeignBinds, ForeignReleases, vars
<1> QED
  BY <1>1, <1>2, <1>3, <1>4, <1>5, <1>6, <1>7, <1>8, Actions

\* Two objects with one port: their numbers differ, so their threads do, and
\* the thread ids are as far apart as the numbers.
LEMMA ClashesBounded == TypeOK /\ Numbered /\ PortsOwned => PortClashes
<1> SUFFICES ASSUME TypeOK, Numbered, PortsOwned,
                    NEW r \in Slots, NEW s \in Slots, r # s,
                    obj[r].st # "none", obj[s].st # "none", obj[r].pid = obj[s].pid
             PROVE  /\ r[1] # s[1]
                    /\ Tid[r[1]] - Tid[s[1]] \in (1 - session) .. (session - 1)
                    /\ ~ (obj[r].st \in WithPort /\ obj[s].st \in WithPort)
  BY DEF PortClashes
<1>1. /\ Number(r) \in 0 .. (session - 1) /\ Number(s) \in 0 .. (session - 1)
      /\ Number(r) # Number(s)
  BY DEF Numbered, Live
<1>2. /\ Tid[r[1]] \in Nat /\ Tid[s[1]] \in Nat /\ session \in Nat
      /\ obj[r].pid \in Nat /\ obj[s].pid \in Nat
  BY SlotFacts, NetlinkAssumption DEF NetlinkAssumption, TypeOK, Object
<1>3. r[1] # s[1]
  BY <1>1 DEF Number
<1>4. Tid[r[1]] - Tid[s[1]] \in (1 - session) .. (session - 1)
  BY <1>1, <1>2 DEF Number
<1> QED BY <1>3, <1>4 DEF PortsOwned

\* The numbering keeps a thread's objects on different ports whatever their
\* number, and objects of two threads clash only if the thread ids are closer
\* than the number of sessions.
THEOREM PortsClashRarely == Spec => []PortClashes
<1> DEFINE I == TypeOK /\ Numbered /\ PortsOwned
<1>1. Init => I
  BY InitTypeOK, InitPorts
<1>2. I /\ [Next]_vars => I'
  BY NextTypeOK, NextNumbered, NextPorts
<1>3. I => PortClashes
  BY ClashesBounded
<1> QED BY <1>1, <1>2, <1>3, PTL DEF Spec
-----------------------------------------------------------------------------
\* What the caller learns.
Known == \A s \in Slots : AnswerKnown(s)

\* No object, so nothing to answer for.
LEMMA InitOutcome == Init => Nested /\ Known /\ OutcomeHonest
<1>1. /\ NoObject.st = "none" /\ NoObject.executed = FALSE
      /\ NoObject.got = 0 /\ NoObject.left = 0 /\ NoObject.broken = FALSE
  BY DEF NoObject
<1> QED BY <1>1, SlotFacts DEF Init, Nested, Known, AnswerKnown, OutcomeHonest, Live

\* A change is still the outer object while an inner one lives.
LEMMA NextNested == TypeOK /\ Nested /\ [Next]_vars => Nested'
<1> SUFFICES ASSUME TypeOK, Nested, [Next]_vars, NEW t \in Threads, Live(<<t, 2>>)'
             PROVE  obj'[<<t, 1>>].st = "done" /\ obj'[<<t, 1>>].kind = "change"
  BY DEF Nested
<1> DEFINE i == <<t, 2>>
           o == <<t, 1>>
<1>0. /\ i \in Slots /\ o \in Slots /\ i # o /\ Inner(o) = i /\ Outer(i) = o
      /\ o[1] = t /\ o[2] = 1 /\ i[1] = t /\ i[2] = 2
  BY DEF Slots, Inner, Outer
<1> HIDE DEF i, o
<1>1. Live(i)'
  BY DEF i
<1>2. Live(i) => obj[o].st = "done" /\ obj[o].kind = "change"
  BY DEF Nested, i, o
<1>3. ASSUME NEW s \in Slots, NEW k \in {"get", "change"}, Construct(s, k)
      PROVE  obj'[o].st = "done" /\ obj'[o].kind = "change"
  <2>1. Frame(s)
    BY <1>3, Constructs
  <2>2. CASE s = i
    <3>1. obj[o].st = "done" /\ obj[o].kind = "change"
      BY <1>0, <1>3, <2>2 DEF Construct, MayConstruct
    <3> QED BY <1>0, <2>1, <2>2, <3>1 DEF Frame
  <2>3. CASE s # i
    <3>1. Live(i)
      BY <1>0, <1>1, <2>1, <2>3 DEF Frame, Live
    <3>2. s # o
      BY <1>2, <1>3, <3>1 DEF Construct, MayConstruct
    <3> QED BY <1>0, <1>2, <2>1, <3>1, <3>2 DEF Frame
  <2> QED BY <2>2, <2>3
<1>4. ASSUME NEW s \in Slots,
             \/ OpenSocket(s) \/ NoDescriptor(s) \/ Bind(s) \/ BindFails(s)
             \/ Send(s) \/ SendFails(s) \/ ReceiveDump(s) \/ ReceiveError(s) \/ ReceiveFails(s)
      PROVE  obj'[o].st = "done" /\ obj'[o].kind = "change"
  <2>1. Frame(s)
    BY <1>4, Opens, Empties, Binds, Sends, Fails, Receives, Concludes DEF Kept
  <2>2. obj[s].st \notin {"none", "done"}
    BY <1>4 DEF OpenSocket, NoDescriptor, Bind, BindFails, Send, SendFails, ReceiveDump,
                ReceiveError, ReceiveFails
  <2>3. Live(i)
    BY <1>0, <1>1, <2>1, <2>2 DEF Frame, Live
  <2> QED BY <1>0, <1>2, <2>1, <2>2, <2>3 DEF Frame
<1>5. ASSUME NEW s \in Slots, Close(s)
      PROVE  obj'[o].st = "done" /\ obj'[o].kind = "change"
  <2>1. Frame(s) /\ obj'[s].st = "none"
    BY <1>5, Empties
  <2>2. s # i /\ Live(i)
    BY <1>0, <1>1, <2>1 DEF Frame, Live
  <2>3. s # o
    BY <1>0, <1>5, <2>2 DEF Close, Live
  <2> QED BY <1>0, <1>2, <2>1, <2>2, <2>3 DEF Frame
<1>6. ASSUME obj' = obj PROVE obj'[o].st = "done" /\ obj'[o].kind = "change"
  BY <1>1, <1>2, <1>6 DEF Live
<1>7. ASSUME \/ \E u \in Threads : Caught(u)
             \/ \E p \in ForeignPorts : ForeignBinds(p) \/ ForeignReleases(p)
             \/ UNCHANGED vars
      PROVE  obj' = obj
  BY <1>7 DEF Caught, ForeignBinds, ForeignReleases, vars
<1>8. obj'[o].st = "done" /\ obj'[o].kind = "change"
  BY <1>3, <1>4, <1>5, <1>6, <1>7, Actions
<1> QED BY <1>8 DEF o

\* Every step keeps what an object knows of its answer.
LEMMA NextKnown == TypeOK /\ Known /\ [Next]_vars => Known'
<1> SUFFICES ASSUME TypeOK, Known, [Next]_vars, NEW r \in Slots PROVE AnswerKnown(r)'
  BY DEF Known
<1>0. AnswerKnown(r)
  BY DEF Known
<1> USE DEF AnswerKnown
<1>1. ASSUME NEW s \in Slots,
             (\E k \in {"get", "change"} : Construct(s, k))
               \/ NoDescriptor(s) \/ BindFails(s) \/ Close(s)
      PROVE  AnswerKnown(r)'
  <2>1. Frame(s) /\ NoAnswer(s) /\ obj'[s].st \in {"ctor", "none"}
    BY <1>1, Constructs, Empties
  <2> QED BY <1>0, <2>1 DEF Frame, NoAnswer
<1>2. ASSUME NEW s \in Slots, OpenSocket(s) \/ Bind(s) PROVE AnswerKnown(r)'
  <2>1. Frame(s) /\ KeepsAnswer(s) /\ obj'[s].st \in {"opened", "bound"}
    BY <1>2, Opens, Binds DEF Kept
  <2>2. obj[s].st \in {"ctor", "opened"}
    BY <1>2 DEF OpenSocket, Bind
  <2> QED BY <1>0, <2>1, <2>2 DEF Frame, KeepsAnswer
<1>3. ASSUME NEW s \in Slots, Send(s) PROVE AnswerKnown(r)'
  <2>1. CASE r # s
    BY <1>0, <1>3, <2>1, Sends DEF Frame
  <2>2. CASE r = s
    <3>1. obj[s].st = "bound" /\ obj[s].got = 0 /\ ~ obj[s].executed /\ ~ obj[s].broken
      BY <1>0, <1>3, <2>2 DEF Send
    <3>2. obj'[s].total \in Nat
      BY <1>3, Sends DEF Frame, Objects, Object
    <3>3. obj'[s].st = "sent" /\ obj'[s].got = 0 /\ ~ obj'[s].broken
      BY <1>3, <3>1, Sends
    <3>4. obj'[s].answer = "dump" =>
            obj'[s].kind = "get" /\ obj'[s].executed /\ obj'[s].left = obj'[s].total
      BY <1>3, Sends DEF KeepsRequest
    <3>5. obj'[s].answer = "error" =>
            IF obj'[s].err = 0 THEN obj'[s].kind = "change" /\ obj'[s].executed
                               ELSE ~ obj'[s].executed
      BY <1>3, <3>1, Sends DEF KeepsRequest
    <3>6. obj'[s].answer # "none"
      BY <1>3, Sends
    <3> QED BY <2>2, <3>2, <3>3, <3>4, <3>5, <3>6
  <2> QED BY <2>1, <2>2
<1>4. ASSUME NEW s \in Slots, ReceiveDump(s) PROVE AnswerKnown(r)'
  <2>1. CASE r # s
    BY <1>0, <1>4, <2>1, Receives DEF Frame
  <2>2. CASE r = s
    <3>1. obj[s].st = "sent" /\ obj[s].answer = "dump"
      BY <1>4 DEF ReceiveDump
    <3> QED BY <1>0, <1>4, <2>2, <3>1, Receives DEF KeepsRequest
  <2> QED BY <2>1, <2>2
<1>5. ASSUME NEW s \in Slots, SendFails(s) \/ ReceiveError(s) \/ ReceiveFails(s)
      PROVE  AnswerKnown(r)'
  <2>1. Frame(s) /\ KeepsAnswer(s) /\ obj'[s].st \in {"done", "failed"}
    BY <1>5, Fails, Concludes DEF Kept
  <2>2. obj[s].st \in {"bound", "sent"}
    BY <1>5 DEF SendFails, ReceiveError, ReceiveFails
  <2> QED BY <1>0, <2>1, <2>2 DEF Frame, KeepsAnswer
<1>6. ASSUME obj' = obj PROVE AnswerKnown(r)'
  BY <1>0, <1>6
<1>7. ASSUME \/ \E t \in Threads : Caught(t)
             \/ \E p \in ForeignPorts : ForeignBinds(p) \/ ForeignReleases(p)
             \/ UNCHANGED vars
      PROVE  obj' = obj
  BY <1>7 DEF Caught, ForeignBinds, ForeignReleases, vars
<1> QED BY <1>1, <1>2, <1>3, <1>4, <1>5, <1>6, <1>7, Actions

\* While an object is at work, no method of its thread has failed.
LEMMA NoneFailed ==
  ASSUME TypeOK, Nested, NEW s \in Slots, obj[s].st \in {"ctor", "opened", "bound", "sent"},
         NEW r \in Slots, r # s, r[1] = s[1]
  PROVE  obj[r].st # "failed"
<1>1. s[1] \in Threads /\ r[1] \in Threads
  BY SlotFacts
<1>2. \/ s = <<s[1], 1>> /\ r = <<s[1], 2>>
      \/ s = <<s[1], 2>> /\ r = <<s[1], 1>>
  BY DEF Slots
<1> QED BY <1>1, <1>2 DEF Nested, Live

\* What OutcomeHonest says of a slot.
Honest(s) ==
  /\ obj[s].st = "done" /\ obj[s].kind = "get" =>
       IF obj[s].broken THEN obj[s].got < obj[s].total ELSE obj[s].got = obj[s].total
  /\ obj[s].st = "done" /\ obj[s].kind = "change" => obj[s].executed
  /\ obj[s].st = "failed" /\ exc[s[1]] = "denied" => ~ obj[s].executed

\* Every step keeps the outcomes honest.
LEMMA NextHonest ==
  TypeOK /\ Nested /\ Known /\ OutcomeHonest /\ [Next]_vars => OutcomeHonest'
<1> SUFFICES ASSUME TypeOK, Nested, Known, OutcomeHonest, [Next]_vars, NEW r \in Slots
             PROVE  Honest(r)'
  BY DEF OutcomeHonest, Honest
<1>0. Honest(r) /\ r[1] \in Threads
  BY SlotFacts DEF OutcomeHonest, Honest
<1> USE DEF Honest
\* An exception thrown for another slot.
<1>1. ASSUME NEW s \in Slots, r # s, obj'[r] = obj[r],
             obj[s].st \in {"ctor", "opened", "bound", "sent"},
             NEW e, Throw(s, e) \/ exc' = exc
      PROVE  Honest(r)'
  <2>1. CASE r[1] = s[1]
    BY <1>0, <1>1, <2>1, NoneFailed
  <2>2. CASE r[1] # s[1]
    BY <1>0, <1>1, <2>2 DEF Throw, TypeOK
  <2> QED BY <2>1, <2>2
<1>2. ASSUME NEW s \in Slots,
             (\E k \in {"get", "change"} : Construct(s, k)) \/ OpenSocket(s) \/ Bind(s)
               \/ Send(s) \/ Close(s)
      PROVE  Honest(r)'
  <2>1. Frame(s) /\ obj'[s].st \in {"ctor", "opened", "bound", "sent", "none"}
    BY <1>2, Constructs, Opens, Binds, Sends, Empties DEF Kept
  <2>2. exc' = exc
    BY <1>2 DEF Construct, OpenSocket, Bind, Send, Close
  <2> QED BY <1>0, <2>1, <2>2 DEF Frame
<1>3. ASSUME NEW s \in Slots, NoDescriptor(s) \/ BindFails(s) PROVE Honest(r)'
  <2>1. Frame(s) /\ obj'[s].st = "none"
    BY <1>3, Empties
  <2>2. obj[s].st \in {"ctor", "opened"} /\ Throw(s, "netex")
    BY <1>3 DEF NoDescriptor, BindFails
  <2> QED BY <1>1, <2>1, <2>2 DEF Frame
<1>4. ASSUME NEW s \in Slots, ReceiveDump(s) PROVE Honest(r)'
  <2>1. CASE r # s
    BY <1>0, <1>4, <2>1, Receives DEF Frame, ReceiveDump
  <2>2. CASE r = s
    <3>1. obj[s].kind = "get" /\ obj[s].got + obj[s].left = obj[s].total
      BY <1>4 DEF ReceiveDump, Known, AnswerKnown
    <3>2. obj'[s].got \in Nat /\ obj'[s].left \in Nat /\ obj[s].total \in Nat
      BY <1>4, Receives DEF Frame, Objects, Object, TypeOK
    <3>3. obj'[s].st = "done" =>
            IF obj'[s].broken THEN obj'[s].got < obj'[s].total ELSE obj'[s].got = obj'[s].total
      BY <1>4, <3>1, <3>2, Receives
    <3> QED BY <1>4, <2>2, <3>1, <3>3, Receives DEF KeepsRequest
  <2> QED BY <2>1, <2>2
<1>5. ASSUME NEW s \in Slots, ReceiveError(s) PROVE Honest(r)'
  <2>1. obj[s].st = "sent"
    BY <1>5 DEF ReceiveError
  <2>2. CASE r # s
    BY <1>1, <1>5, <2>1, <2>2, Concludes DEF Kept, Frame
  <2>3. CASE r = s
    <3>1. IF obj[s].err = 0 THEN obj[s].kind = "change" /\ obj[s].executed
                            ELSE ~ obj[s].executed
      BY <1>5 DEF ReceiveError, Known, AnswerKnown
    <3> QED BY <1>5, <2>3, <3>1, Concludes DEF Kept, KeepsRequest, KeepsAnswer
  <2> QED BY <2>2, <2>3
<1>6. ASSUME NEW s \in Slots, SendFails(s) \/ ReceiveFails(s) PROVE Honest(r)'
  <2>1. Frame(s) /\ obj'[s].st = "failed" /\ Throw(s, "netex")
    BY <1>6, Fails DEF Kept
  <2>2. obj[s].st \in {"bound", "sent"}
    BY <1>6 DEF SendFails, ReceiveFails
  <2>3. CASE r # s
    BY <1>1, <2>1, <2>2, <2>3 DEF Frame
  <2>4. CASE r = s
    BY <1>0, <2>1, <2>4 DEF Throw, TypeOK
  <2> QED BY <2>3, <2>4
<1>7. ASSUME NEW t \in Threads, Caught(t) PROVE Honest(r)'
  BY <1>0, <1>7 DEF Caught, TypeOK
<1>8. ASSUME UNCHANGED <<obj, exc>> PROVE Honest(r)'
  BY <1>0, <1>8
<1>9. ASSUME (\E p \in ForeignPorts : ForeignBinds(p) \/ ForeignReleases(p)) \/ UNCHANGED vars
      PROVE  UNCHANGED <<obj, exc>>
  BY <1>9 DEF ForeignBinds, ForeignReleases, vars
<1> QED
  BY <1>2, <1>3, <1>4, <1>5, <1>6, <1>7, <1>8, <1>9, Actions

\* A dump that returns is complete if the kernel has not broken it off, and is
\* not if it has, a change that returns was executed, and "permission denied"
\* means that nothing was.
THEOREM OutcomesAreHonest == Spec => []OutcomeHonest
<1> DEFINE I == TypeOK /\ Nested /\ Known /\ OutcomeHonest
<1>1. Init => I
  BY InitTypeOK, InitOutcome
<1>2. I /\ [Next]_vars => I'
  BY NextTypeOK, NextNested, NextKnown, NextHonest
<1> QED BY <1>1, <1>2, PTL DEF Spec

\* All of it together is the inductive invariant that the model checker checks.
THEOREM InductiveInvariant == Spec => []Inductive
<1>1. Init => Inductive
  BY InitTypeOK, InitFds, InitPorts, InitOutcome DEF Inductive, Known
<1>2. Inductive /\ [Next]_vars => Inductive'
  BY NextTypeOK, NextFds, NextNumbered, NextPorts, NextNested, NextKnown, NextHonest
  DEF Inductive, Known
<1> QED BY <1>1, <1>2, PTL DEF Spec
=============================================================================
