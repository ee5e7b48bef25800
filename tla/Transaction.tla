----------------------------- MODULE Transaction -----------------------------
(***************************************************************************)
(* What one netlink object promises its user: a request is asked, the      *)
(* kernel executes it at most once, and the user learns "ok" only if it    *)
(* was executed and "denied" only if it was not.  A "failed" transaction   *)
(* says nothing about the effect.                                          *)
(***************************************************************************)
CONSTANT Clients      \* whoever may have one transaction in progress

VARIABLES phase,      \* where the client's transaction is
          executed    \* whether the kernel has executed its request

Phases == {"idle", "asked", "ok", "denied", "failed"}

TypeOK ==
  /\ phase \in [Clients -> Phases]
  /\ executed \in [Clients -> BOOLEAN]

Init ==
  /\ phase = [c \in Clients |-> "idle"]
  /\ executed = [c \in Clients |-> FALSE]

Ask(c) ==
  /\ phase[c] = "idle"
  /\ phase' = [phase EXCEPT ![c] = "asked"]
  /\ UNCHANGED executed

Execute(c) ==
  /\ phase[c] = "asked"
  /\ ~ executed[c]
  /\ executed' = [executed EXCEPT ![c] = TRUE]
  /\ UNCHANGED phase

Conclude(c, result) ==
  /\ phase[c] = "asked"
  /\ result = "ok" => executed[c]
  /\ result = "denied" => ~ executed[c]
  /\ phase' = [phase EXCEPT ![c] = result]
  /\ UNCHANGED executed

\* The object is destroyed, or was never completely constructed: then nothing
\* was executed.
Forget(c) ==
  /\ phase[c] # "idle"
  /\ phase[c] = "asked" => ~ executed[c]
  /\ phase' = [phase EXCEPT ![c] = "idle"]
  /\ executed' = [executed EXCEPT ![c] = FALSE]

Next == \E c \in Clients :
  \/ Ask(c)
  \/ Execute(c)
  \/ \E result \in {"ok", "denied", "failed"} : Conclude(c, result)
  \/ Forget(c)

vars == <<phase, executed>>
Spec == Init /\ [][Next]_vars
=============================================================================
