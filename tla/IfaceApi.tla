------------------------------ MODULE IfaceApi ------------------------------
(***************************************************************************)
(* What a call of netiface promises its caller, whoever else is at work.   *)
(* A call that changes something has a goal.  It changes the configuration *)
(* of the system at most once; "achieved" says that the goal was met at    *)
(* some moment of the call, "refused" and "answered" (of a call that only  *)
(* reads) that the call changed nothing, "failed" nothing at all.          *)
(***************************************************************************)
CONSTANT Callers

VARIABLES config,   \* the configuration, which others change too
          phase,    \* phase[p]: what p's call has come to
          met,      \* met[p]: the goal has been met since the call began
          spent     \* spent[p]: how often the call has changed it

vars == <<config, phase, met, spent>>

Answers == {"achieved", "answered", "refused", "failed"}

TypeOK ==
  /\ phase \in [Callers -> {"idle", "busy"} \cup Answers]
  /\ met \in [Callers -> BOOLEAN]
  /\ spent \in [Callers -> {0, 1}]

Init ==
  /\ phase = [p \in Callers |-> "idle"]
  /\ met \in [Callers -> BOOLEAN]
  /\ spent = [p \in Callers |-> 0]

True(p, answer) ==
  /\ answer = "achieved" => met'[p]
  /\ answer \in {"refused", "answered"} => spent'[p] = 0

\* A call begins, or is answered at once.
Ask(p) ==
  /\ phase[p] # "busy"
  /\ \E answer \in Answers \cup {"busy"} :
       phase' = [phase EXCEPT ![p] = answer] /\ True(p, answer)
  /\ \E m \in BOOLEAN : met' = [met EXCEPT ![p] = m]
  /\ spent' = [spent EXCEPT ![p] = 0]
  /\ UNCHANGED config

\* Goals of any calls may come to be met when the configuration changes.
Kept(f) == f' \in [Callers -> BOOLEAN] /\ \A p \in Callers : f[p] => f'[p]

Change(p) ==
  /\ phase[p] = "busy" /\ spent[p] = 0
  /\ spent' = [spent EXCEPT ![p] = 1]
  /\ config' # config
  /\ Kept(met)
  /\ \/ UNCHANGED phase
     \/ phase' = [phase EXCEPT ![p] = "failed"]

Answer(p) ==
  /\ phase[p] = "busy"
  /\ \E answer \in Answers :
       phase' = [phase EXCEPT ![p] = answer] /\ True(p, answer)
  /\ UNCHANGED <<config, met, spent>>

Others ==
  /\ config' # config
  /\ Kept(met)
  /\ UNCHANGED <<phase, spent>>

Next == Others \/ \E p \in Callers : Ask(p) \/ Change(p) \/ Answer(p)

Spec == Init /\ [][Next]_vars
=============================================================================
