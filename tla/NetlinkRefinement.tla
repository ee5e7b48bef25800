-------------------------- MODULE NetlinkRefinement --------------------------
(***************************************************************************)
(* Netlink.tla implements Transaction.tla: every netlink object is one     *)
(* transaction that is asked, executed at most once and concluded.         *)
(***************************************************************************)
EXTENDS NetlinkProofs

Executed(s) == obj[s].executed
PhaseMap == [s \in Slots |-> Phase(s)]
ExecutedMap == [s \in Slots |-> Executed(s)]

\* The phase of a slot follows from its object and its thread's exception.
LEMMA PhaseFacts ==
  ASSUME NEW s \in Slots
  PROVE  /\ obj[s].st = "none" => Phase(s) = "idle"
         /\ obj[s].st \in {"ctor", "opened", "bound", "sent"} => Phase(s) = "asked"
         /\ obj[s].st = "done" => Phase(s) = "ok"
         /\ obj[s].st = "failed" =>
              Phase(s) = IF exc[s[1]] = "denied" THEN "denied" ELSE "failed"
BY DEF Phase

\* The same of the next state.
LEMMA PhaseFactsNext ==
  ASSUME NEW s \in Slots
  PROVE  /\ obj'[s].st = "none" => Phase(s)' = "idle"
         /\ obj'[s].st \in {"ctor", "opened", "bound", "sent"} => Phase(s)' = "asked"
         /\ obj'[s].st = "done" => Phase(s)' = "ok"
         /\ obj'[s].st = "failed" =>
              Phase(s)' = IF exc'[s[1]] = "denied" THEN "denied" ELSE "failed"
BY DEF Phase

\* A step of one slot leaves the others' transactions alone, even when it
\* throws: no other object of the thread can have failed before.
LEMMA OthersKept ==
  ASSUME TypeOK, Nested, NEW s \in Slots, Frame(s),
         \/ exc' = exc
         \/ /\ obj[s].st \in {"ctor", "opened", "bound", "sent"}
            /\ \E e \in {"netex", "denied"} : Throw(s, e),
         NEW r \in Slots, r # s
  PROVE  Phase(r)' = Phase(r) /\ Executed(r)' = Executed(r)
<1>1. obj'[r] = obj[r] /\ obj[r] \in Object /\ r[1] \in Threads /\ s[1] \in Threads
  BY SlotFacts DEF Frame, TypeOK
<1>2. CASE obj[r].st = "failed"
  <2>1. exc'[r[1]] = exc[r[1]]
    <3>1. CASE exc' = exc
      BY <3>1
    <3>2. CASE /\ obj[s].st \in {"ctor", "opened", "bound", "sent"}
               /\ \E e \in {"netex", "denied"} : Throw(s, e)
      <4>1. r[1] # s[1]
        BY <1>2, <3>2, NoneFailed
      <4> QED BY <1>1, <3>2, <4>1 DEF Throw, TypeOK
    <3> QED BY <3>1, <3>2
  <2> QED BY <1>1, <1>2, <2>1, PhaseFacts, PhaseFactsNext DEF Executed
<1>3. CASE obj[r].st # "failed"
  <2>1. obj[r].st \in {"none", "ctor", "opened", "bound", "sent", "done"}
    BY <1>1, <1>3 DEF Object, Progress, WithSocket, WithPort
  <2> QED BY <1>1, <2>1, PhaseFacts, PhaseFactsNext DEF Executed
<1> QED BY <1>2, <1>3

\* What a step of a slot means to the transactions.
LEMMA OneSlot ==
  ASSUME NEW s \in Slots,
         \A r \in Slots : r # s => Phase(r)' = Phase(r) /\ Executed(r)' = Executed(r)
  PROVE  /\ PhaseMap' = [PhaseMap EXCEPT ![s] = Phase(s)']
         /\ ExecutedMap' = [ExecutedMap EXCEPT ![s] = Executed(s)']
         /\ PhaseMap[s] = Phase(s) /\ ExecutedMap[s] = Executed(s)
         /\ Phase(s)' = Phase(s) => PhaseMap' = PhaseMap
         /\ Executed(s)' = Executed(s) => ExecutedMap' = ExecutedMap
BY DEF PhaseMap, ExecutedMap

\* The steps of the abstract specification, in terms of the maps.
LEMMA AbstractActions ==
  ASSUME NEW s \in Slots
  PROVE  /\ (/\ PhaseMap[s] = "idle" /\ PhaseMap' = [PhaseMap EXCEPT ![s] = "asked"]
             /\ ExecutedMap' = ExecutedMap) => Abstract!Next
         /\ (/\ PhaseMap[s] = "asked" /\ ~ ExecutedMap[s] /\ PhaseMap' = PhaseMap
             /\ ExecutedMap' = [ExecutedMap EXCEPT ![s] = TRUE]) => Abstract!Next
         /\ \A result \in {"ok", "denied", "failed"} :
              (/\ PhaseMap[s] = "asked"
               /\ (result = "ok" => ExecutedMap[s]) /\ (result = "denied" => ~ ExecutedMap[s])
               /\ PhaseMap' = [PhaseMap EXCEPT ![s] = result]
               /\ ExecutedMap' = ExecutedMap) => Abstract!Next
         /\ (/\ PhaseMap[s] # "idle" /\ (PhaseMap[s] = "asked" => ~ ExecutedMap[s])
             /\ PhaseMap' = [PhaseMap EXCEPT ![s] = "idle"]
             /\ ExecutedMap' = [ExecutedMap EXCEPT ![s] = FALSE]) => Abstract!Next
BY DEF PhaseMap, ExecutedMap, Executed, Abstract!Next, Abstract!Ask, Abstract!Execute,
       Abstract!Conclude, Abstract!Forget

\* The initial states are initial states of the transactions.
LEMMA InitMaps == Init => Abstract!Init
<1>1. NoObject.st = "none" /\ NoObject.executed = FALSE
  BY DEF NoObject
<1> SUFFICES ASSUME Init PROVE Abstract!Init
  OBVIOUS
<1>2. \A s \in Slots : Phase(s) = "idle" /\ obj[s].executed = FALSE
  BY <1>1, PhaseFacts DEF Init
<1> QED BY <1>2 DEF Abstract!Init

\* Every step is a step of a transaction or none at all.
LEMMA StepMaps ==
  ASSUME TypeOK, Nested, Known, [Next]_vars
  PROVE  Abstract!Next \/ UNCHANGED <<PhaseMap, ExecutedMap>>
<1>1. ASSUME NEW s \in Slots, NEW k \in {"get", "change"}, Construct(s, k)
      PROVE  Abstract!Next
  <2>1. Frame(s) /\ NoAnswer(s) /\ obj'[s].st = "ctor"
    BY <1>1, Constructs
  <2>2. obj[s].st = "none" /\ exc' = exc /\ ~ Executed(s) /\ obj[s] \in Object
    BY <1>1 DEF Construct, MayConstruct, Known, AnswerKnown, Executed, TypeOK
  <2>3. Phase(s) = "idle" /\ Phase(s)' = "asked" /\ Executed(s)' = Executed(s)
    BY <2>1, <2>2, PhaseFacts, PhaseFactsNext DEF Executed, NoAnswer, Object
  <2>4. \A r \in Slots : r # s => Phase(r)' = Phase(r) /\ Executed(r)' = Executed(r)
    BY <2>1, <2>2, OthersKept
  <2> QED BY <2>3, <2>4, OneSlot, AbstractActions
<1>2. ASSUME NEW s \in Slots, OpenSocket(s) \/ Bind(s)
      PROVE  UNCHANGED <<PhaseMap, ExecutedMap>>
  <2>1. Frame(s) /\ KeepsAnswer(s) /\ obj'[s].st \in {"opened", "bound"}
    BY <1>2, Opens, Binds DEF Kept
  <2>2. obj[s].st \in {"ctor", "opened"} /\ exc' = exc
    BY <1>2 DEF OpenSocket, Bind
  <2>3. Phase(s)' = Phase(s) /\ Executed(s)' = Executed(s)
    BY <2>1, <2>2, PhaseFacts, PhaseFactsNext DEF Executed, KeepsAnswer
  <2>4. \A r \in Slots : r # s => Phase(r)' = Phase(r) /\ Executed(r)' = Executed(r)
    BY <2>1, <2>2, OthersKept
  <2> QED BY <2>3, <2>4, OneSlot
<1>3. ASSUME NEW s \in Slots, NoDescriptor(s) \/ BindFails(s) \/ Close(s)
      PROVE  Abstract!Next
  <2>1. Frame(s) /\ NoAnswer(s) /\ obj'[s].st = "none"
    BY <1>3, Empties
  <2>2. \/ /\ obj[s].st \in {"ctor", "opened"}
           /\ Throw(s, "netex")
        \/ obj[s].st \in {"done", "failed"} /\ exc' = exc
    BY <1>3 DEF NoDescriptor, BindFails, Close, Closable
  <2>3. obj[s].st \in {"ctor", "opened"} => ~ Executed(s)
    BY DEF Known, AnswerKnown, Executed
  <2>4. Phase(s)' = "idle" /\ Executed(s)' = FALSE
    BY <2>1, PhaseFactsNext DEF Executed, NoAnswer
  <2>5. Phase(s) # "idle" /\ (Phase(s) = "asked" => ~ Executed(s))
    BY <2>2, <2>3, PhaseFacts
  <2>6. \A r \in Slots : r # s => Phase(r)' = Phase(r) /\ Executed(r)' = Executed(r)
    BY <2>1, <2>2, OthersKept
  <2> QED BY <2>4, <2>5, <2>6, OneSlot, AbstractActions
<1>4. ASSUME NEW s \in Slots, Send(s)
      PROVE  Abstract!Next \/ UNCHANGED <<PhaseMap, ExecutedMap>>
  <2>1. Frame(s) /\ obj'[s].st = "sent"
    BY <1>4, Sends
  <2>2. obj[s].st = "bound" /\ exc' = exc /\ ~ Executed(s)
    BY <1>4 DEF Send, Known, AnswerKnown, Executed
  <2>3. Executed(s) \in BOOLEAN /\ Executed(s)' \in BOOLEAN
    BY <2>1 DEF Frame, Objects, Object, TypeOK, Executed
  <2>4. Phase(s) = "asked" /\ Phase(s)' = "asked"
    BY <2>1, <2>2, PhaseFacts, PhaseFactsNext
  <2>5. \A r \in Slots : r # s => Phase(r)' = Phase(r) /\ Executed(r)' = Executed(r)
    BY <2>1, <2>2, OthersKept
  <2>6. CASE Executed(s)' = TRUE
    BY <2>2, <2>4, <2>5, <2>6, OneSlot, AbstractActions
  <2>7. CASE Executed(s)' = FALSE
    <3>1. Executed(s)' = Executed(s)
      BY <2>2, <2>3, <2>7
    <3> QED BY <2>4, <2>5, <3>1, OneSlot
  <2> QED BY <2>3, <2>6, <2>7
<1>5. ASSUME NEW s \in Slots, ReceiveDump(s)
      PROVE  Abstract!Next \/ UNCHANGED <<PhaseMap, ExecutedMap>>
  <2>1. Frame(s) /\ obj'[s].executed = obj[s].executed /\ obj'[s].st \in {"sent", "done"}
    BY <1>5, Receives
  <2>2. obj[s].st = "sent" /\ exc' = exc /\ Executed(s)
    BY <1>5 DEF ReceiveDump, Known, AnswerKnown, Executed
  <2>3. \A r \in Slots : r # s => Phase(r)' = Phase(r) /\ Executed(r)' = Executed(r)
    BY <2>1, <2>2, OthersKept
  <2>4. Phase(s) = "asked" /\ Phase(s)' \in {"asked", "ok"} /\ Executed(s)' = Executed(s)
    BY <2>1, <2>2, PhaseFacts, PhaseFactsNext DEF Executed
  <2>5. CASE Phase(s)' = "ok"
    BY <2>2, <2>3, <2>4, <2>5, OneSlot, AbstractActions
  <2>6. CASE Phase(s)' = "asked"
    BY <2>3, <2>4, <2>6, OneSlot
  <2> QED BY <2>4, <2>5, <2>6
<1>6. ASSUME NEW s \in Slots, SendFails(s) \/ ReceiveFails(s) PROVE Abstract!Next
  <2>1. Frame(s) /\ KeepsAnswer(s) /\ obj'[s].st = "failed" /\ Throw(s, "netex")
    BY <1>6, Fails DEF Kept
  <2>2. obj[s].st \in {"bound", "sent"}
    BY <1>6 DEF SendFails, ReceiveFails
  <2>3. exc'[s[1]] = "netex"
    BY <2>1, SlotFacts DEF Throw, TypeOK
  <2>4. \A r \in Slots : r # s => Phase(r)' = Phase(r) /\ Executed(r)' = Executed(r)
    BY <2>1, <2>2, OthersKept
  <2>5. Phase(s) = "asked" /\ Phase(s)' = "failed" /\ Executed(s)' = Executed(s)
    BY <2>1, <2>2, <2>3, PhaseFacts, PhaseFactsNext DEF Executed, KeepsAnswer
  <2> QED BY <2>4, <2>5, OneSlot, AbstractActions
<1>7. ASSUME NEW s \in Slots, ReceiveError(s) PROVE Abstract!Next
  <2>1. Frame(s) /\ KeepsAnswer(s)
    BY <1>7, Concludes DEF Kept
  <2>2. obj[s].st = "sent" /\ (IF obj[s].err = 0 THEN Executed(s) ELSE ~ Executed(s))
    BY <1>7 DEF ReceiveError, Known, AnswerKnown, Executed
  <2>3. Phase(s) = "asked" /\ Executed(s)' = Executed(s)
    BY <2>1, <2>2, PhaseFacts DEF Executed, KeepsAnswer
  <2>4. CASE obj[s].err = 0 /\ obj'[s].st = "done" /\ exc' = exc
    <3>1. \A r \in Slots : r # s => Phase(r)' = Phase(r) /\ Executed(r)' = Executed(r)
      BY <2>1, <2>4, OthersKept
    <3>2. Phase(s)' = "ok"
      BY <2>4, PhaseFactsNext
    <3> QED BY <2>2, <2>3, <2>4, <3>1, <3>2, OneSlot, AbstractActions
  <2>5. CASE obj[s].err # 0 /\ obj'[s].st = "failed" /\ Throw(s, ErrorThrows(obj[s].err))
    <3>1. ErrorThrows(obj[s].err) \in {"netex", "denied"}
      BY DEF ErrorThrows
    <3>2. \A r \in Slots : r # s => Phase(r)' = Phase(r) /\ Executed(r)' = Executed(r)
      BY <2>1, <2>2, <2>5, <3>1, OthersKept
    <3>3. Phase(s)' \in {"denied", "failed"}
      BY <2>5, PhaseFactsNext
    <3> QED BY <2>2, <2>3, <2>5, <3>2, <3>3, OneSlot, AbstractActions
  <2> QED BY <1>7, <2>4, <2>5, Concludes
<1>8. ASSUME NEW t \in Threads, Caught(t) PROVE UNCHANGED <<PhaseMap, ExecutedMap>>
  <2>1. ASSUME NEW r \in Slots PROVE Phase(r)' = Phase(r) /\ Executed(r)' = Executed(r)
    <3>1. CASE r[1] = t
      <4>1. r \in {<<t, 1>>, <<t, 2>>}
        BY <3>1 DEF Slots
      <4>2. obj[r].st = "none" /\ obj' = obj
        BY <1>8, <4>1 DEF Caught
      <4> QED BY <4>2, PhaseFacts, PhaseFactsNext DEF Executed
    <3>2. CASE r[1] # t
      <4>1. exc'[r[1]] = exc[r[1]] /\ obj' = obj
        BY <1>8, <3>2, SlotFacts DEF Caught, TypeOK
      <4> QED BY <4>1 DEF Phase, Executed
    <3> QED BY <3>1, <3>2
  <2> QED BY <2>1 DEF PhaseMap, ExecutedMap
<1>9. ASSUME (\E p \in ForeignPorts : ForeignBinds(p) \/ ForeignReleases(p)) \/ UNCHANGED vars
      PROVE  UNCHANGED <<PhaseMap, ExecutedMap>>
  <2>1. obj' = obj /\ exc' = exc
    BY <1>9 DEF ForeignBinds, ForeignReleases, vars
  <2> QED BY <2>1 DEF PhaseMap, ExecutedMap, Phase, Executed
<1> QED
  BY <1>1, <1>2, <1>3, <1>4, <1>5, <1>6, <1>7, <1>8, <1>9, Actions

\* Every object is one transaction: asked, executed at most once, concluded
\* with "ok" only if it was executed and with "denied" only if it was not.
THEOREM ObjectsAreTransactions == Spec => IsTransaction
<1>1. Init => Abstract!Init
  BY InitMaps
<1>2. TypeOK /\ Nested /\ Known /\ [Next]_vars => [Abstract!Next]_(Abstract!vars)
  BY StepMaps DEF Abstract!vars, PhaseMap, ExecutedMap, Executed
<1>3. Spec => [](TypeOK /\ Nested /\ Known)
  BY InductiveInvariant, PTL DEF Inductive, Known
<1> QED BY <1>1, <1>2, <1>3, PTL DEF Spec, IsTransaction, Abstract!Spec
=============================================================================
