------------------------------- MODULE Netlink -------------------------------
(***************************************************************************)
(* netlink.cpp: the netlink objects of all threads of the process.  Every  *)
(* request of the library uses an object of its own: the constructor takes *)
(* a session number, opens a socket and binds it to the port gettid() +    *)
(* session, one request is sent, its answer is received datagram by        *)
(* datagram, and the destructor closes the socket.  A method that changes  *)
(* the configuration keeps its object (level 1) while WaitFor polls with   *)
(* objects of its own (level 2), so a thread has at most two.              *)
(*                                                                         *)
(* The kernel executes a request inside send() and queues the answer on    *)
(* the sender's socket; a dump is answered by datagrams of at most         *)
(* PerDatagram parts, produced as the socket is read, with NLMSG_DONE      *)
(* behind the last part or in a datagram of its own.  A dump that fails in *)
(* the kernel is broken off: NLMSG_DONE comes early, with an error code.   *)
(* Payloads are counted, not represented: the code hands every part to the *)
(* callback.                                                               *)
(***************************************************************************)
EXTENDS Integers

CONSTANTS
  Threads,        \* threads that use the library
  Tid,            \* Tid[t]: what gettid() returns in thread t
  FdLimit,        \* RLIMIT_NOFILE: descriptors the process may have open
  ForeignPorts,   \* netlink ports that other programs bind and release
  Errnos,         \* nonzero nlmsgerr codes of the kernel
  PerDatagram,    \* parts of a dump that fit in a datagram
  MaxParts,       \* bound: parts of a dump
  MaxSession      \* bound: sessions opened in a behaviour

ASSUME NetlinkAssumption ==
  /\ Tid \in [Threads -> Nat]
  /\ FdLimit \in Nat
  /\ ForeignPorts \subseteq Nat
  /\ Errnos \subseteq Int \ {0}
  /\ PerDatagram \in Nat \ {0}
  /\ MaxParts \in Nat
  /\ MaxSession \in Nat

VARIABLES
  session,   \* netlink::session_, shared by all threads
  obj,       \* obj[s]: the netlink object in slot s
  exc,       \* exc[t]: the exception propagating in thread t, or "none"
  fds,       \* descriptors of this process that are open netlink sockets
  ports,     \* netlink ports bound by this process
  foreign,   \* netlink ports bound by other programs
  leaked     \* history: descriptors whose object's constructor threw

vars == <<session, obj, exc, fds, ports, foreign, leaked>>

EACCES == -13
Fds == 0 .. (FdLimit - 1)
Slots == Threads \X (1..2)
Outer(s) == <<s[1], 1>>
Inner(s) == <<s[1], 2>>

\* Progress of an object: "none" is no object, "ctor" has its pid_, "opened"
\* its socket, "bound" is constructed, "sent" awaits the answer; "done" has
\* returned normally, in "failed" a method threw.
WithPort == {"bound", "sent", "done", "failed"}
WithSocket == WithPort \cup {"opened"}
Progress == WithSocket \cup {"none", "ctor"}

Object ==
  [st : Progress, pid : Nat, sock : Fds \cup {-1}, kind : {"get", "change"},
   answer : {"none", "dump", "error", "lost"}, err : Errnos \cup {0},
   left : Nat, got : Nat, total : Nat, broken : BOOLEAN, executed : BOOLEAN]

NoObject ==
  [st |-> "none", pid |-> 0, sock |-> -1, kind |-> "get",
   answer |-> "none", err |-> 0,
   left |-> 0, got |-> 0, total |-> 0, broken |-> FALSE, executed |-> FALSE]

TypeOK ==
  /\ session \in Nat
  /\ obj \in [Slots -> Object]
  /\ \A s \in Slots : obj[s].st \in WithSocket => obj[s].sock \in Fds
  /\ exc \in [Threads -> {"none", "netex", "denied"}]
  /\ fds \in SUBSET Fds
  /\ ports \in SUBSET Nat
  /\ foreign \in SUBSET ForeignPorts
  /\ leaked \in SUBSET Fds

Init ==
  /\ session = 0
  /\ obj = [s \in Slots |-> NoObject]
  /\ exc = [t \in Threads |-> "none"]
  /\ fds = {}
  /\ ports = {}
  /\ foreign \in SUBSET ForeignPorts
  /\ leaked = {}

Becomes(s, o) == obj' = [obj EXCEPT ![s] = o]
Throw(s, e) == exc' = [exc EXCEPT ![s[1]] = e]
-----------------------------------------------------------------------------
(* The constructor *)

ThreadPid(t) == Tid[t]     \* mutant: one port for all objects of a thread
SessionPid(t) == Tid[t] + session

\* A method opens its object when the thread has none; WaitFor's condition
\* does while the object of the change it verifies has returned.
MayConstruct(s) ==
  /\ obj[s].st = "none"
  /\ exc[s[1]] = "none"
  /\ IF s[2] = 1 THEN obj[Inner(s)].st = "none"
                 ELSE obj[Outer(s)].st = "done" /\ obj[Outer(s)].kind = "change"

Construct(s, k) ==
  /\ MayConstruct(s)
  /\ s[2] = 2 => k = "get"
  /\ session < MaxSession
  /\ Becomes(s, [NoObject EXCEPT !.st = "ctor", !.kind = k, !.pid = SessionPid(s[1])])
  /\ session' = session + 1
  /\ UNCHANGED <<exc, fds, ports, foreign, leaked>>

OpenSocket(s) ==
  /\ obj[s].st = "ctor"
  /\ \E fd \in Fds \ fds :
       /\ \A lower \in 0 .. (fd - 1) : lower \in fds
       /\ fds' = fds \cup {fd}
       /\ Becomes(s, [obj[s] EXCEPT !.st = "opened", !.sock = fd])
  /\ UNCHANGED <<session, exc, ports, foreign, leaked>>

\* Mutant: the failure of setsockopt() is not noticed.
NoDescriptorUnnoticed(s) ==
  /\ obj[s].st = "ctor"
  /\ Fds \subseteq fds
  /\ Becomes(s, [obj[s] EXCEPT !.st = "opened"])
  /\ UNCHANGED <<session, exc, fds, ports, foreign, leaked>>

\* socket() returns -1, and setsockopt() on it is what fails.
NoDescriptor(s) ==
  /\ obj[s].st = "ctor"
  /\ Fds \subseteq fds
  /\ Becomes(s, NoObject)
  /\ Throw(s, "netex")
  /\ UNCHANGED <<session, fds, ports, foreign, leaked>>

PortFree(p) == p \notin ports \cup foreign

Bind(s) ==
  /\ obj[s].st = "opened"
  /\ PortFree(obj[s].pid)
  /\ ports' = ports \cup {obj[s].pid}
  /\ Becomes(s, [obj[s] EXCEPT !.st = "bound"])
  /\ UNCHANGED <<session, exc, fds, foreign, leaked>>

\* The constructor throws, so the destructor never closes the socket.
BindFails(s) ==
  /\ obj[s].st = "opened"
  /\ ~ PortFree(obj[s].pid)
  /\ leaked' = leaked \cup {obj[s].sock}
  /\ Becomes(s, NoObject)
  /\ Throw(s, "netex")
  /\ UNCHANGED <<session, fds, ports, foreign>>
-----------------------------------------------------------------------------
(* One request and its answer *)

Send(s) ==
  /\ obj[s].st = "bound"
  /\ LET sent == [obj[s] EXCEPT !.st = "sent"]
     IN \/ /\ obj[s].kind = "get"
           /\ \E n \in 0..MaxParts :
                Becomes(s, [sent EXCEPT !.answer = "dump", !.left = n, !.total = n,
                                        !.executed = TRUE])
        \/ /\ obj[s].kind = "change"
           /\ Becomes(s, [sent EXCEPT !.answer = "error", !.err = 0, !.executed = TRUE])
        \/ \E e \in Errnos :          \* refused
             Becomes(s, [sent EXCEPT !.answer = "error", !.err = e])
        \/ \E b \in BOOLEAN :         \* no room for the answer on the socket
             Becomes(s, [sent EXCEPT !.answer = "lost", !.executed = b])
  /\ UNCHANGED <<session, exc, fds, ports, foreign, leaked>>

SendFails(s) ==
  /\ obj[s].st = "bound"
  /\ Becomes(s, [obj[s] EXCEPT !.st = "failed"])
  /\ Throw(s, "netex")
  /\ UNCHANGED <<session, fds, ports, foreign, leaked>>

\* A datagram of k parts; `last' says that NLMSG_DONE follows them, `broken'
\* that it has an error code because the other parts cannot be had.
Datagram(s, k, last, broken) ==
  /\ IF broken THEN k < obj[s].left ELSE k <= obj[s].left
  /\ broken => last
  /\ last => broken \/ k = obj[s].left
  /\ k = 0 => last

OneDatagram(last) == TRUE      \* mutant: recvmsg() is called once
LoopEnds(last) == last

\* Any NLMSG_DONE ends the loop: its error code is not looked at.
ReceiveDump(s) ==
  /\ obj[s].st = "sent" /\ obj[s].answer = "dump"
  /\ \E k \in 0..PerDatagram, last, broken \in BOOLEAN :
       /\ Datagram(s, k, last, broken)
       /\ Becomes(s, [obj[s] EXCEPT !.got = @ + k, !.left = @ - k, !.broken = broken,
                                    !.st = IF LoopEnds(last) THEN "done" ELSE "sent"])
  /\ UNCHANGED <<session, exc, fds, ports, foreign, leaked>>

AnyError(err) == TRUE          \* mutant: nlmsgerr is taken for an ACK
IsAck(err) == err = 0
ErrorThrows(err) == IF err = EACCES THEN "denied" ELSE "netex"

ReceiveError(s) ==
  /\ obj[s].st = "sent" /\ obj[s].answer = "error"
  /\ \/ /\ IsAck(obj[s].err)
        /\ Becomes(s, [obj[s] EXCEPT !.st = "done"])
        /\ UNCHANGED exc
     \/ /\ ~ IsAck(obj[s].err)
        /\ Becomes(s, [obj[s] EXCEPT !.st = "failed"])
        /\ Throw(s, ErrorThrows(obj[s].err))
  /\ UNCHANGED <<session, fds, ports, foreign, leaked>>

\* Mutant: SO_RCVTIMEO is not set.
ReceiveBlocks(s) ==
  /\ obj[s].st = "sent" /\ obj[s].answer # "lost"
  /\ Becomes(s, [obj[s] EXCEPT !.st = "failed"])
  /\ Throw(s, "netex")
  /\ UNCHANGED <<session, fds, ports, foreign, leaked>>

\* recvmsg() fails: a signal or ENOBUFS at any time, EAGAIN after
\* NL_SOCKET_TIMEOUT when no answer comes.
ReceiveFails(s) ==
  /\ obj[s].st = "sent"
  /\ Becomes(s, [obj[s] EXCEPT !.st = "failed"])
  /\ Throw(s, "netex")
  /\ UNCHANGED <<session, fds, ports, foreign, leaked>>
-----------------------------------------------------------------------------
(* The destructor, and what surrounds the objects *)

OnReturn(o) == o.st = "done"     \* mutant: nothing is destroyed by an exception
Closable(o) == o.st \in {"done", "failed"}
NotClosed(o) == {}               \* mutant: the destructor closes nothing
Closed(o) == {o.sock}

\* The scope of the object ends, normally or because an exception leaves it.
Close(s) ==
  /\ Closable(obj[s])
  /\ s[2] = 1 => obj[Inner(s)].st = "none"
  /\ fds' = fds \ Closed(obj[s])
  /\ ports' = ports \ {obj[s].pid}
  /\ Becomes(s, NoObject)
  /\ UNCHANGED <<session, exc, foreign, leaked>>

\* The exception reaches the caller of the library.
Caught(t) ==
  /\ exc[t] # "none"
  /\ \A l \in 1..2 : obj[<<t, l>>].st = "none"
  /\ exc' = [exc EXCEPT ![t] = "none"]
  /\ UNCHANGED <<session, obj, fds, ports, foreign, leaked>>

ForeignBinds(p) ==
  /\ PortFree(p)
  /\ foreign' = foreign \cup {p}
  /\ UNCHANGED <<session, obj, exc, fds, ports, leaked>>

ForeignReleases(p) ==
  /\ p \in foreign
  /\ foreign' = foreign \ {p}
  /\ UNCHANGED <<session, obj, exc, fds, ports, leaked>>

Method(s) ==
  \/ OpenSocket(s) \/ NoDescriptor(s)
  \/ Bind(s) \/ BindFails(s)
  \/ Send(s) \/ SendFails(s)
  \/ ReceiveDump(s) \/ ReceiveError(s) \/ ReceiveFails(s)

Next ==
  \/ \E s \in Slots : \E k \in {"get", "change"} : Construct(s, k)
  \/ \E s \in Slots : Method(s) \/ Close(s)
  \/ \E t \in Threads : Caught(t)
  \/ \E p \in ForeignPorts : ForeignBinds(p) \/ ForeignReleases(p)

Spec == Init /\ [][Next]_vars

\* Threads are scheduled, and a method that has started runs on: recvmsg()
\* comes back, with an error after NL_SOCKET_TIMEOUT if with nothing else, and
\* unwinding destroys the objects it passes.
Unwind(t) == Caught(t) \/ \E l \in 1..2 : exc[t] # "none" /\ Close(<<t, l>>)
Fairness ==
  /\ \A s \in Slots : WF_vars(Method(s))
  /\ \A t \in Threads : WF_vars(Unwind(t))
FairSpec == Spec /\ Fairness
-----------------------------------------------------------------------------
(* Properties *)

\* Every open descriptor belongs to exactly one live object or was lost by a
\* constructor that threw: the destructor closes its own socket and no other,
\* and no other path loses one.  The constructor's own leak (netlink.cpp:50) is
\* recorded in `leaked', not excluded.
FdsAccounted ==
  LET owners == {s \in Slots : obj[s].st \in WithSocket}
  IN /\ fds = leaked \cup {obj[s].sock : s \in owners}
     /\ \A s \in owners : obj[s].sock \in Fds \ leaked
     /\ \A r, s \in owners : obj[r].sock = obj[s].sock => r = s

\* pid_ = gettid() + session_++ never gives two live objects of one thread the
\* same port, although a change keeps its object open while it polls; objects
\* of two threads clash only if the thread ids are closer than the number of
\* sessions opened so far.
PortClashes ==
  \A r, s \in Slots :
    /\ r # s
    /\ obj[r].st # "none" /\ obj[s].st # "none"
    /\ obj[r].pid = obj[s].pid
    => /\ r[1] # s[1]
       /\ Tid[r[1]] - Tid[s[1]] \in (1 - session) .. (session - 1)
       /\ ~ (obj[r].st \in WithPort /\ obj[s].st \in WithPort)

\* What the caller learns is what happened, with one exception: a dump that
\* returns has delivered all its parts unless the kernel has broken it off,
\* which the caller cannot tell; a change that returns was executed, and
\* "permission denied" means that nothing was.
OutcomeHonest ==
  \A s \in Slots :
    /\ obj[s].st = "done" /\ obj[s].kind = "get" =>
         IF obj[s].broken THEN obj[s].got < obj[s].total ELSE obj[s].got = obj[s].total
    /\ obj[s].st = "done" /\ obj[s].kind = "change" => obj[s].executed
    /\ obj[s].st = "failed" /\ exc[s[1]] = "denied" => ~ obj[s].executed

\* The inductive invariant behind these: a live object has the number it took
\* from session_, and no other has the same; the bound ports are those of the
\* constructed objects; the outer object of a thread waits, its change
\* acknowledged, while an inner one lives; and what an object knows of its
\* answer agrees with what the kernel did.
Live(s) == obj[s].st # "none"
Number(s) == obj[s].pid - Tid[s[1]]
Numbered ==
  /\ \A s \in Slots : Live(s) => Number(s) \in 0 .. (session - 1)
  /\ \A r, s \in Slots : Live(r) /\ Live(s) /\ Number(r) = Number(s) => r = s
PortsOwned ==
  /\ \A s \in Slots : obj[s].st \in WithPort => obj[s].pid \in ports
  /\ \A r, s \in Slots :
       obj[r].st \in WithPort /\ obj[s].st \in WithPort /\ obj[r].pid = obj[s].pid => r = s
Nested ==
  \A t \in Threads : Live(<<t, 2>>) => obj[<<t, 1>>].st = "done" /\ obj[<<t, 1>>].kind = "change"
AnswerKnown(s) ==
  LET o == obj[s]
  IN /\ o.st \in {"none", "ctor", "opened", "bound"} => ~ o.executed /\ o.got = 0 /\ o.left = 0
     /\ o.broken => o.st = "done" /\ o.kind = "get"
     /\ o.st = "sent" /\ o.answer = "dump" => o.kind = "get" /\ o.executed /\ o.got + o.left = o.total
     /\ o.st = "sent" /\ o.answer = "error" =>
          IF o.err = 0 THEN o.kind = "change" /\ o.executed ELSE ~ o.executed
     /\ o.st = "sent" => o.answer # "none"
Inductive ==
  /\ TypeOK /\ FdsAccounted /\ Numbered /\ PortsOwned /\ Nested /\ OutcomeHonest
  /\ \A s \in Slots : AnswerKnown(s)

\* No request blocks its thread for ever.
TransactionEnds ==
  \A s \in Slots :
    obj[s].st = "ctor" ~> obj[s].st \in {"done", "failed", "none"}

\* An exception leaves no object behind: it reaches the caller, and by then
\* the destructors have closed every socket of the thread.
UnwindingCompletes ==
  \A t \in Threads :
    exc[t] # "none" ~> (exc[t] = "none" /\ \A l \in 1..2 : obj[<<t, l>>].st = "none")

\* Each object is one transaction: asked, executed at most once, concluded.
Phase(s) ==
  CASE obj[s].st = "none" -> "idle"
    [] obj[s].st \in {"ctor", "opened", "bound", "sent"} -> "asked"
    [] obj[s].st = "done" -> "ok"
    [] obj[s].st = "failed" -> IF exc[s[1]] = "denied" THEN "denied" ELSE "failed"
Abstract == INSTANCE Transaction WITH
  Clients <- Slots,
  phase <- [s \in Slots |-> Phase(s)],
  executed <- [s \in Slots |-> obj[s].executed]
IsTransaction == Abstract!Spec
=============================================================================
