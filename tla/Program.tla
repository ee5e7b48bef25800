------------------------------- MODULE Program -------------------------------
(***************************************************************************)
(* main.cpp: the command line program, which makes a fixed sequence of     *)
(* calls on the interface named on its command line and ends at the first  *)
(* exception that reaches it.  Each call is one of NetIface, step by step. *)
(* The program may be killed between any two steps and be run again: it    *)
(* keeps nothing, the kernel keeps what it has done so far.                *)
(*                                                                         *)
(* The options are taken to be well formed, and the log is left out.       *)
(***************************************************************************)
EXTENDS NetIface, Sequences

CONSTANTS Main,            \* the thread that runs main()
          Interface,       \* the argument of --interface
          One, Two, Six,   \* 1.1.1.1, 2.2.2.2 and 2001:db8:8714:3a90::12
          MaxRuns          \* bound: runs of the program

ASSUME ProgramAssumption ==
  /\ Procs = {Main} /\ Interface \in Names
  /\ {One, Two} \subseteq V4 /\ Six \in V6
  /\ {1500, 8000} \subseteq Mtus
  /\ MaxRuns \in Nat \ {0}

VARIABLES
  status,   \* where main() is, or how it ended
  at,       \* the position in Script
  asked,    \* whether the call there has been made
  runs,     \* how often the program has been started
  alone     \* history: nobody else has changed anything since then

program == <<status, at, asked, runs, alone>>
allVars == <<vars, program>>

Request(op, raw, mtu, fam) == [op |-> op, addr |-> FromString(raw, -1), mtu |-> mtu, fam |-> fam]
OfAddr(op, raw) == Request(op, raw, 1500, All)
SetMtu(mtu) == Request("set_mtu", One, mtu, All)
Get(op) == Request(op, One, 1500, All)
List(fam) == Request("get_ip_addresses", One, 1500, fam)

Script == <<
  Get("get_index"),
  OfAddr("del_ip_address", Two),
  List(All), List({"v4"}), List({"v6"}),
  SetMtu(1500),
  OfAddr("set_ip_address", One),
  Get("get_mtu"), Get("get_mac_address"),
  SetMtu(8000),
  Get("get_mtu"),
  OfAddr("set_ip_address", Two),
  OfAddr("set_ip_address", Six) >>

ASSUME ScriptAssumption == \A k \in DOMAIN Script : Script[k] \in Calls

Guarded(k) == k = Len(Script)
-----------------------------------------------------------------------------
(* Exceptions *)

\* The class of an exception and those of its bases that a handler outside the
\* class can name: permission_denied derives privately.
Classes(kind) ==
  CASE kind = "netex" -> {"network_exception", "fnc_exception", "std::exception"}
    [] kind = "timeout" -> {"timeout_exception", "fnc_exception", "std::exception"}
    [] kind = "denied" -> {"permission_denied"}

StandardOnly == {"std::exception"}      \* mutant
InnerHandlers == {"permission_denied", "std::exception"}
OuterHandlers == {"network_exception", "std::exception"}
Catches(handlers, kind) == handlers \cap Classes(kind) # {}

\* What becomes of the program when an exception reaches the outer try block.
Uncaught(kind) == IF Catches(OuterHandlers, kind) THEN "failed" ELSE "terminated"
-----------------------------------------------------------------------------
Running == {"listing", "opening", "calling"}
Statuses == Running \cup {"done", "failed", "terminated", "killed"}

\* get_iface_names(), of which the program only logs the result.
ListNames ==
  /\ status = "listing"
  /\ \/ status' = "opening"
     \/ \E e \in Failures : status' = Uncaught(Thrown(e))
  /\ UNCHANGED <<vars, at, asked, runs, alone>>

Regardless(kind) == TRUE      \* mutant
Constructed(kind) == kind = "ok"
OpenInterface ==
  /\ status = "opening"
  /\ Open(Main, Interface)
  /\ status' = IF Constructed(out'[Main].kind) THEN "calling" ELSE Uncaught(out'[Main].kind)
  /\ UNCHANGED <<at, asked, runs, alone>>

MakeCall ==
  /\ status = "calling" /\ ~ asked
  /\ Begin(Main, Script[at])
  /\ asked' = TRUE
  /\ UNCHANGED <<status, at, runs, alone>>

Underway == status = "calling" /\ asked /\ UNCHANGED program

\* The call has returned, or the inner try block deals with its exception.
GoOn ==
  /\ status = "calling" /\ asked /\ Idle(Main)
  /\ \/ out[Main].kind = "ok"
     \/ out[Main].kind # "ok" /\ Guarded(at) /\ Catches(InnerHandlers, out[Main].kind)
  /\ at' = at + 1
  /\ asked' = FALSE
  /\ status' = IF at = Len(Script) THEN "done" ELSE status
  /\ UNCHANGED <<vars, runs, alone>>

\* The exception leaves the sequence, and the program if nothing catches it.
GiveUp ==
  /\ status = "calling" /\ asked /\ Idle(Main)
  /\ out[Main].kind # "ok"
  /\ ~ (Guarded(at) /\ Catches(InnerHandlers, out[Main].kind))
  /\ status' = Uncaught(out[Main].kind)
  /\ UNCHANGED <<vars, at, asked, runs, alone>>

Kill ==
  /\ status \in Running
  /\ status' = "killed"
  /\ UNCHANGED <<vars, at, asked, runs, alone>>

RunAgain ==
  /\ status \notin Running
  /\ runs < MaxRuns
  /\ runs' = runs + 1
  /\ status' = "listing" /\ at' = 1 /\ asked' = FALSE /\ alone' = TRUE
  /\ nic' = [nic EXCEPT ![Main] = ""]
  /\ call' = [call EXCEPT ![Main] = NoCall]
  /\ out' = [out EXCEPT ![Main] = [kind |-> "none", val |-> 0, addrs |-> {}]]
  /\ hist' = [hist EXCEPT ![Main] = NewHistory(NoCall, links, "")]
  /\ UNCHANGED links

ProgramInit ==
  Init /\ status = "listing" /\ at = 1 /\ asked = FALSE /\ runs = 1 /\ alone = TRUE

Disturbed(i) ==
  /\ status \in Running
  /\ Others(i)
  /\ alone' = FALSE
  /\ UNCHANGED <<status, at, asked, runs>>

Execute ==
  \/ ListNames \/ OpenInterface \/ MakeCall \/ GoOn \/ GiveUp
  \/ Underway /\ (Proceed(Main) \/ Expire(Main))

ProgramNext ==
  \/ Execute
  \/ Underway /\ (Refused(Main) \/ AnswerLost(Main))
  \/ \E i \in Indexes : Disturbed(i)
  \/ Kill \/ RunAgain

ProgramSpec == ProgramInit /\ [][ProgramNext]_allVars

\* The program is scheduled, its transactions end, and the clock advances.
ProgramFairness ==
  /\ WF_allVars(ListNames \/ OpenInterface \/ MakeCall \/ GoOn \/ GiveUp)
  /\ WF_allVars(Underway /\ Proceed(Main))
  /\ WF_allVars(Underway /\ Expire(Main))
FairProgram == ProgramSpec /\ ProgramFairness
-----------------------------------------------------------------------------
(* Properties *)

ProgramTypeOK ==
  /\ TypeOK
  /\ status \in Statuses
  /\ at \in 1 .. Len(Script) + 1
  /\ asked \in BOOLEAN
  /\ runs \in 1 .. MaxRuns
  /\ alone \in BOOLEAN
  /\ status \notin Running \ {"calling"} \/ (at = 1 /\ ~ asked)
  /\ status = "calling" => nic[Main] = Interface /\ at <= Len(Script)

\* The handlers of std::exception do not take permission_denied, which derives
\* from it privately, so that it ends the program abnormally unless it comes from
\* the one call that is guarded by a handler of its own.  That happens only where
\* the kernel denies a request for another reason than that the link is without
\* IPv6: of the addresses that the program sets, the IPv6 one is guarded.
Handled ==
  status = "terminated" =>
    /\ EACCES \in Failures
    /\ asked => out[Main].kind = "denied" /\ ~ Guarded(at)

\* What the program has asked for so far in this run is the case, unless it has
\* asked for something else since or somebody interfered: also when earlier runs
\* ended anywhere.
Changed(k) == Script[k].op \in ChangeOps /\ ~ Guarded(k)
Made(k) == k < at \/ (k = at /\ asked)
Overrides(l, k) ==
  \/ Script[l].op = "set_mtu" /\ Script[k].op = "set_mtu"
  \/ {Script[l].op, Script[k].op} \subseteq ChangeOps \ {"set_mtu"} /\ Script[l].addr = Script[k].addr
StepsTakenHold ==
  alone => \A k \in DOMAIN Script :
    k < at /\ Changed(k) /\ ~ (\E l \in DOMAIN Script : l > k /\ Made(l) /\ Overrides(l, k)) =>
      \E i \in Bearers(links, Interface) : Goal(Script[k], links[i])

\* With nobody else at work the program fails because a transaction does, for
\* lack of the interface, because the link does not take the MTU, or after it has
\* removed a copy of 2.2.2.2 that kept it from going on: running it again then
\* gets further, so that it fails as often as there were copies left.
FailedRunProgressed ==
  status = "failed" /\ alone =>
    \/ out[Main].kind = "none" /\ Failures # {}
    \/ out[Main].kind = "netex" /\ out[Main].val \in Failures
    \/ Bearers(links, Interface) = {}
    \/ Script[at].op = "set_mtu" /\ Script[at].mtu > MtuLimit
    \/ /\ Script[at].op = "del_ip_address"
       /\ hist[Main].changes = 1

\* Every run comes to an end.
ProgramEnds == status \in Running ~> status \notin Running
=============================================================================
