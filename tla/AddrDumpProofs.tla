--------------------------- MODULE AddrDumpProofs ---------------------------
(***************************************************************************)
(* Proofs about AddrDump, for any table, datagram size and number of       *)
(* changes.  A datagram is taken as its messages in turn: the invariant is *)
(* shown of every position within it, by induction over the position.      *)
(***************************************************************************)
EXTENDS AddrDump, FiniteSetTheorems, SequenceTheorems, TLAPS

-----------------------------------------------------------------------------
(* Numbers, functions by recursion *)

LEMMA LeastNat ==
  ASSUME NEW S \in SUBSET Nat, S # {}
  PROVE  \E n \in S : \A m \in S : n <= m
<1>1. PICK n \in S : \A m \in S : <<m, n>> \notin OpToRel(<, Nat)
  BY NatLessThanWellFounded, WFMin
<1>2. \A m \in S : ~ (m < n)  BY <1>1 DEF OpToRel
<1> QED  BY <1>2

\* The callback is called for the first n messages, which makes a vector of each n.
LEMMA InTurn ==
  ASSUME NEW entries, Len(entries) \in Nat
  PROVE  \E f : /\ f[0] = addresses
                /\ \A n \in 1 .. Len(entries) : f[n] = Callback(f[n - 1], entries[n])
                /\ Appended(entries) = f[Len(entries)]
<1> DEFINE UpTo(f, last) ==
      f = [n \in 0 .. last |-> IF n = 0 THEN addresses ELSE Callback(f[n - 1], entries[n])]
<1>1. \A last \in Nat : \E f : UpTo(f, last)
  <2> DEFINE without == {last \in Nat : ~ \E f : UpTo(f, last)}
  <2> SUFFICES ASSUME without # {} PROVE FALSE
    OBVIOUS
  <2>1. PICK last \in without : \A m \in without : last <= m  BY LeastNat
  <2>2. last # 0
    <3> DEFINE f == [n \in 0 .. 0 |-> addresses]
    <3>1. UpTo(f, 0)  OBVIOUS
    <3> QED  BY <3>1
  <2>3. last - 1 \in Nat /\ last - 1 \notin without  BY <2>1, <2>2
  <2>4. PICK g : UpTo(g, last - 1)  BY <2>3
  <2> DEFINE f == [n \in 0 .. last |-> IF n = last THEN Callback(g[last - 1], entries[last]) ELSE g[n]]
  <2>5. ASSUME NEW n \in 0 .. last
        PROVE  f[n] = IF n = 0 THEN addresses ELSE Callback(f[n - 1], entries[n])
    <3>1. CASE n = 0  BY <2>2, <2>3, <2>4, <3>1
    <3>2. CASE n # 0 /\ n # last
      <4>1. n \in 0 .. last - 1 /\ n - 1 \in 0 .. last /\ n - 1 # last  BY <3>2
      <4>2. f[n] = g[n] /\ f[n - 1] = g[n - 1]  BY <3>2, <4>1
      <4>3. g[n] = Callback(g[n - 1], entries[n])  BY <2>4, <3>2, <4>1
      <4> QED  BY <3>2, <4>2, <4>3
    <3>3. CASE n = last
      <4>1. n - 1 \in 0 .. last /\ n - 1 # last  BY <2>2, <3>3
      <4> QED  BY <2>2, <3>3, <4>1
    <3> QED  BY <3>1, <3>2, <3>3
  <2>6. UpTo(f, last)  BY <2>5
  <2> QED  BY <2>1, <2>6
<1> DEFINE f == CHOOSE f : UpTo(f, Len(entries))
<1>2. UpTo(f, Len(entries))  BY <1>1
<1>3. Appended(entries) = f[Len(entries)]  BY DEF Appended
<1> HIDE DEF f
<1>4. f[0] = addresses  BY <1>2
<1>5. \A n \in 1 .. Len(entries) : f[n] = Callback(f[n - 1], entries[n])  BY <1>2
<1> QED  BY <1>3, <1>4, <1>5
-----------------------------------------------------------------------------
(* Sequences *)

\* r is s followed by t.
IsJoined(r, s, t) ==
  /\ Len(r) = Len(s) + Len(t)
  /\ \A j \in 1 .. Len(s) : r[j] = s[j]
  /\ \A j \in 1 .. Len(t) : r[Len(s) + j] = t[j]

LEMMA Joined ==
  ASSUME NEW S, NEW s \in Seq(S), NEW t \in Seq(S)
  PROVE  s \o t \in Seq(S) /\ IsJoined(s \o t, s, t)
<1>1. ASSUME NEW j \in 1 .. Len(t) PROVE (s \o t)[Len(s) + j] = t[j]
  <2>1. /\ Len(s) + j \in 1 .. Len(s) + Len(t)
        /\ Len(s) + j > Len(s) /\ (Len(s) + j) - Len(s) = j
    OBVIOUS
  <2>2. \A i \in 1 .. Len(s) + Len(t) : (s \o t)[i] = IF i <= Len(s) THEN s[i] ELSE t[i - Len(s)]
    BY ConcatProperties
  <2> QED  BY <2>1, <2>2
<1> QED  BY <1>1 DEF IsJoined

LEMMA Inserted ==
  ASSUME NEW S, NEW s \in Seq(S), NEW k \in 1 .. Len(s) + 1, NEW e \in S
  PROVE  /\ InsertAt(s, k, e) \in Seq(S) /\ Len(InsertAt(s, k, e)) = Len(s) + 1
         /\ \A j \in 1 .. Len(s) + 1 :
              InsertAt(s, k, e)[j] = IF j < k THEN s[j] ELSE IF j = k THEN e ELSE s[j - 1]
<1> DEFINE before == SubSeq(s, 1, k - 1)
           after == SubSeq(s, k, Len(s))
<1>1. Len(s) \in Nat  OBVIOUS
<1>2. /\ before \in Seq(S) /\ Len(before) = k - 1
      /\ \A j \in 1 .. k - 1 : before[j] = s[j]
  BY <1>1
<1>3. /\ after \in Seq(S) /\ Len(after) = Len(s) + 1 - k
      /\ \A j \in 1 .. Len(s) + 1 - k : after[j] = s[k + j - 1]
  BY <1>1
<1>4. InsertAt(s, k, e) = before \o <<e>> \o after  BY DEF InsertAt
<1> HIDE DEF before, after
<1>5. <<e>> \in Seq(S) /\ Len(<<e>>) = 1 /\ <<e>>[1] = e  OBVIOUS
<1>6. /\ before \o <<e>> \in Seq(S) /\ Len(before \o <<e>>) = k
      /\ \A j \in 1 .. k : (before \o <<e>>)[j] = IF j < k THEN s[j] ELSE e
  BY <1>1, <1>2, <1>5, ConcatProperties
<1> DEFINE t == InsertAt(s, k, e)
           rest == Len(s) + 1 - k
<1> HIDE DEF t
<1>7. /\ t \in Seq(S) /\ Len(t) = k + rest
      /\ \A j \in 1 .. k : t[j] = (before \o <<e>>)[j]
      /\ \A j \in 1 .. rest : t[k + j] = after[j]
  <2>1. after \in Seq(S) /\ Len(after) = rest  BY <1>3
  <2>2. t \in Seq(S) /\ IsJoined(t, before \o <<e>>, after)
    BY <1>4, <1>6, <2>1, Joined DEF t
  <2> HIDE DEF rest
  <2> QED  BY <1>6, <2>1, <2>2 DEF IsJoined
<1>8. ASSUME NEW j \in 1 .. Len(s) + 1, j > k PROVE t[j] = s[j - 1]
  <2>1. j - k \in 1 .. rest /\ k + (j - k) = j /\ k + (j - k) - 1 = j - 1  BY <1>1, <1>8
  <2>2. t[k + (j - k)] = after[j - k] /\ after[j - k] = s[k + (j - k) - 1]
    BY <1>3, <1>7, <2>1
  <2> QED  BY <2>1, <2>2
<1>9. \A j \in 1 .. Len(s) + 1 : t[j] = IF j < k THEN s[j] ELSE IF j = k THEN e ELSE s[j - 1]
  BY <1>1, <1>6, <1>7, <1>8
<1>10. t \in Seq(S) /\ Len(t) = Len(s) + 1  BY <1>1, <1>7
<1> HIDE DEF rest
<1> QED  BY <1>9, <1>10, Zenon DEF t

LEMMA Removed ==
  ASSUME NEW S, NEW s \in Seq(S), NEW k \in 1 .. Len(s)
  PROVE  /\ RemoveAt(s, k) \in Seq(S) /\ Len(RemoveAt(s, k)) = Len(s) - 1
         /\ \A j \in 1 .. Len(s) - 1 : RemoveAt(s, k)[j] = IF j < k THEN s[j] ELSE s[j + 1]
<1> DEFINE before == SubSeq(s, 1, k - 1)
           after == SubSeq(s, k + 1, Len(s))
<1>1. Len(s) \in Nat  OBVIOUS
<1>2. /\ before \in Seq(S) /\ Len(before) = k - 1
      /\ \A j \in 1 .. k - 1 : before[j] = s[j]
  BY <1>1
<1>3. /\ after \in Seq(S) /\ Len(after) = Len(s) - k
      /\ \A j \in 1 .. Len(s) - k : after[j] = s[k + j]
  BY <1>1
<1>4. RemoveAt(s, k) = before \o after  BY DEF RemoveAt
<1> HIDE DEF before, after
<1> DEFINE t == RemoveAt(s, k)
           kept == k - 1
           rest == Len(s) - k
<1> HIDE DEF t
<1>5. kept \in Nat /\ rest \in Nat /\ kept + rest = Len(s) - 1  BY <1>1
<1>6. /\ t \in Seq(S) /\ Len(t) = kept + rest
      /\ \A j \in 1 .. kept : t[j] = before[j]
      /\ \A j \in 1 .. rest : t[kept + j] = after[j]
  <2>1. /\ before \in Seq(S) /\ Len(before) = kept
        /\ after \in Seq(S) /\ Len(after) = rest
    BY <1>2, <1>3
  <2>2. t \in Seq(S) /\ IsJoined(t, before, after)  BY <1>4, <2>1, Joined DEF t
  <2> HIDE DEF kept, rest
  <2> QED  BY <2>1, <2>2 DEF IsJoined
<1>7. \A j \in 1 .. Len(s) - 1 : t[j] = IF j < k THEN s[j] ELSE s[j + 1]
  <2>1. ASSUME NEW j \in 1 .. Len(s) - 1, j >= k PROVE t[j] = s[j + 1]
    <3>1. /\ j - kept \in 1 .. rest
          /\ kept + (j - kept) = j /\ k + (j - kept) = j + 1
      BY <1>1, <2>1
    <3>2. t[kept + (j - kept)] = after[j - kept] /\ after[j - kept] = s[k + (j - kept)]
      BY <1>3, <1>6, <3>1
    <3> QED  BY <3>1, <3>2
  <2>2. ASSUME NEW j \in 1 .. Len(s) - 1, j < k PROVE t[j] = s[j]
    <3>1. j \in 1 .. kept  BY <2>2
    <3> QED  BY <1>2, <1>6, <3>1
  <2> QED  BY <1>1, <2>1, <2>2
<1> QED  BY <1>5, <1>6, <1>7 DEF t

\* The elements of a sequence are finitely many, and no more than it is long.
LEMMA Elements ==
  ASSUME NEW S, NEW s \in Seq(S)
  PROVE  IsFiniteSet(ToSet(s)) /\ Cardinality(ToSet(s)) \in Nat /\ Cardinality(ToSet(s)) <= Len(s)
<1>1. Len(s) \in Nat /\ DOMAIN s = 1 .. Len(s) /\ s \in [1 .. Len(s) -> S]  OBVIOUS
<1>2. s \in Surjection(1 .. Len(s), ToSet(s))  BY <1>1 DEF Surjection, ToSet
<1>3. IsFiniteSet(1 .. Len(s)) /\ Cardinality(1 .. Len(s)) = Len(s)  BY <1>1, FS_Interval
<1> QED  BY <1>2, <1>3, FS_Surjection, FS_CardinalityType

LEMMA ElementsAppended ==
  ASSUME NEW S, NEW s \in Seq(S), NEW x \in S
  PROVE  /\ Append(s, x) \in Seq(S) /\ Len(Append(s, x)) = Len(s) + 1
         /\ ToSet(Append(s, x)) = ToSet(s) \cup {x}
<1>1. /\ Append(s, x) \in Seq(S) /\ Len(Append(s, x)) = Len(s) + 1 /\ Len(s) \in Nat
      /\ \A j \in 1 .. Len(s) : Append(s, x)[j] = s[j]
      /\ Append(s, x)[Len(s) + 1] = x
  OBVIOUS
<1> DEFINE t == Append(s, x)
<1>2. DOMAIN t = 1 .. Len(s) + 1 /\ DOMAIN s = 1 .. Len(s)  BY <1>1
<1> HIDE DEF t
<1>3. ToSet(t) = ToSet(s) \cup {x}  BY <1>1, <1>2 DEF ToSet, t
<1> QED  BY <1>1, <1>3 DEF t

\* Sets that differ by an element do so in number.
LEMMA NoMore ==
  ASSUME NEW A, NEW B, IsFiniteSet(B), NEW g \in [A -> B],
         \A i, j \in A : g[i] = g[j] => i = j
  PROVE  IsFiniteSet(A) /\ Cardinality(A) \in Nat /\ Cardinality(B) \in Nat
         /\ Cardinality(A) <= Cardinality(B)
<1>1. g \in Injection(A, B)  BY DEF Injection, IsInjective
<1> QED  BY <1>1, FS_Injection, FS_CardinalityType

LEMMA OneMoreAtMost ==
  ASSUME NEW A, NEW B, IsFiniteSet(A), IsFiniteSet(B), NEW x, NEW g \in [A \ {x} -> B],
         \A i, j \in A \ {x} : g[i] = g[j] => i = j
  PROVE  Cardinality(A) \in Nat /\ Cardinality(B) \in Nat /\ Cardinality(A) <= Cardinality(B) + 1
<1>1. Cardinality(A \ {x}) <= Cardinality(B) /\ Cardinality(B) \in Nat  BY NoMore
<1>2. Cardinality(A) \in Nat  BY FS_CardinalityType
<1>3. Cardinality(A \ {x}) = IF x \in A THEN Cardinality(A) - 1 ELSE Cardinality(A)
  BY FS_RemoveElement, Zenon
<1>4. Cardinality(A) <= Cardinality(A \ {x}) + 1  BY <1>2, <1>3
<1> QED  BY <1>1, <1>2, <1>3, <1>4
-----------------------------------------------------------------------------
(* The invariant *)

\* The positions after q of the link's addresses that are in the vector already,
\* and those up to q whose address has been there all the time but is not.
Ahead(t, q, a) == {k \in DOMAIN t : k > q /\ Selected(t[k]) /\ t[k].addr \in ToSet(a)}
Unseen(t, q, a, al) ==
  {k \in DOMAIN t : k <= q /\ t[k] \in al /\ Selected(t[k]) /\ t[k].addr \notin ToSet(a)}

\* What is true of the table, the position in it and the vector.
InDump(t, q, a, ev, al, ad, rm) ==
  /\ a \in Seq(Addrs) /\ Len(a) <= q
  /\ ToSet(a) \subseteq OfLink(ev)
  /\ Len(a) + Cardinality(Ahead(t, q, a)) <= ad + Cardinality(ToSet(a))
  /\ Cardinality(Unseen(t, q, a, al)) <= rm

DumpInv ==
  /\ TypeOK
  /\ status # "failed" => InDump(table, passed, addresses, ever, always, added, removed)
  /\ status = "failed" => addresses = <<>>
  /\ status = "returned" /\ ~ broken => passed >= Len(table)

\* A table is a sequence of entries without repetitions.
LEMMA TableShape ==
  \A t : t \in Table <=> t \in Seq(Entry) /\ Len(t) <= MaxTable /\ IsInjective(t)
<1>1. MaxTable \in Nat  BY AddrDumpAssumption
<1>2. \A t : (\E n \in 0 .. MaxTable : t \in [1 .. n -> Entry]) <=> t \in Seq(Entry) /\ Len(t) <= MaxTable
  BY <1>1, SeqDef
<1>3. \A t : t \in Table <=> (\E n \in 0 .. MaxTable : t \in [1 .. n -> Entry]) /\ IsInjective(t)
  BY DEF Table
<1> QED  BY <1>2, <1>3

LEMMA Positions ==
  ASSUME NEW t \in Seq(Entry), NEW P \in SUBSET DOMAIN t
  PROVE  IsFiniteSet(P) /\ Cardinality(P) \in Nat
<1>1. DOMAIN t = 1 .. Len(t) /\ Len(t) \in Nat  OBVIOUS
<1>2. IsFiniteSet(DOMAIN t)  BY <1>1, FS_Interval
<1> QED  BY <1>2, FS_Subset, FS_CardinalityType

LEMMA PositionsOf ==
  ASSUME NEW t \in Seq(Entry), NEW q, NEW a, NEW al
  PROVE  /\ IsFiniteSet(Ahead(t, q, a)) /\ Cardinality(Ahead(t, q, a)) \in Nat
         /\ IsFiniteSet(Unseen(t, q, a, al)) /\ Cardinality(Unseen(t, q, a, al)) \in Nat
<1>1. Ahead(t, q, a) \subseteq DOMAIN t /\ Unseen(t, q, a, al) \subseteq DOMAIN t
  BY DEF Ahead, Unseen
<1> QED  BY <1>1, Positions

\* The dump begins with nothing passed.
LEMMA DumpStarts == Init => DumpInv
<1> SUFFICES ASSUME Init PROVE DumpInv
  OBVIOUS
<1>1. table \in Table /\ table \in Seq(Entry) /\ Len(table) \in Nat  BY TableShape DEF Init
<1>2. addresses = <<>> /\ addresses \in Seq(Addrs) /\ Len(addresses) = 0 /\ passed = 0
  BY DEF Init
<1>3. ToSet(addresses) = {}  BY <1>2 DEF ToSet
<1>4. ToSet(table) \subseteq Entry  BY <1>1 DEF ToSet
<1>5. TypeOK
  <2>1. passed \in 0 .. MaxTable /\ added \in 0 .. MaxAdded /\ removed \in 0 .. MaxRemoved
    BY AddrDumpAssumption DEF Init
  <2>2. Len(addresses) <= passed  BY <1>2
  <2> QED  BY <1>1, <1>2, <1>4, <2>1, <2>2 DEF Init, TypeOK
<1>6. Ahead(table, passed, addresses) = {}  BY <1>3 DEF Ahead
<1>7. Unseen(table, passed, addresses, always) = {}  BY <1>1, <1>2 DEF Unseen
<1>8. Cardinality({}) = 0  BY FS_EmptySet
<1>9. InDump(table, passed, addresses, ever, always, added, removed)
  <2>1. Cardinality(Ahead(table, passed, addresses)) = 0  BY <1>6, <1>8
  <2>2. Cardinality(Unseen(table, passed, addresses, always)) = 0  BY <1>7, <1>8
  <2>3. Cardinality(ToSet(addresses)) = 0 /\ added = 0 /\ removed = 0  BY <1>3, <1>8 DEF Init
  <2> QED  BY <1>2, <1>3, <2>1, <2>2, <2>3 DEF InDump
<1> QED  BY <1>5, <1>9 DEF DumpInv, Init

\* A message that is handled is passed.
LEMMA CallbackKeeps ==
  ASSUME NEW t \in Table, NEW q \in Nat, q < Len(t), NEW a, NEW ev, NEW al, NEW ad \in Nat,
         NEW rm \in Nat, ToSet(t) \subseteq ev, InDump(t, q, a, ev, al, ad, rm)
  PROVE  InDump(t, q + 1, Callback(a, t[q + 1]), ev, al, ad, rm)
<1> DEFINE e == t[q + 1]
           b == Callback(a, e)
<1>1. /\ t \in Seq(Entry) /\ IsInjective(t) /\ Len(t) \in Nat /\ DOMAIN t = 1 .. Len(t)
      /\ q + 1 \in DOMAIN t
  BY TableShape
<1>2. e \in Entry /\ e \in ev  BY <1>1 DEF ToSet
<1>3. /\ a \in Seq(Addrs) /\ Len(a) <= q /\ Len(a) \in Nat
      /\ ToSet(a) \subseteq OfLink(ev)
      /\ Len(a) + Cardinality(Ahead(t, q, a)) <= ad + Cardinality(ToSet(a))
      /\ Cardinality(Unseen(t, q, a, al)) <= rm
  BY DEF InDump
<1>4. /\ IsFiniteSet(Ahead(t, q, a)) /\ Cardinality(Ahead(t, q, a)) \in Nat
      /\ IsFiniteSet(Unseen(t, q, a, al)) /\ Cardinality(Unseen(t, q, a, al)) \in Nat
      /\ IsFiniteSet(ToSet(a)) /\ Cardinality(ToSet(a)) \in Nat
  BY <1>1, <1>3, PositionsOf, Elements
<1> HIDE DEF e, b
<1>5. CASE ~ Selected(e)
  <2>1. b = a  BY <1>5 DEF b, Callback, Selected
  <2>2. \A k \in DOMAIN t : k > q /\ Selected(t[k]) <=> k > q + 1 /\ Selected(t[k])
    BY <1>1, <1>5 DEF e
  <2>3. \A k \in DOMAIN t : k <= q /\ Selected(t[k]) <=> k <= q + 1 /\ Selected(t[k])
    BY <1>1, <1>5 DEF e
  <2>4. Ahead(t, q + 1, a) = Ahead(t, q, a)  BY <2>2, Zenon DEF Ahead
  <2>5. Unseen(t, q + 1, a, al) = Unseen(t, q, a, al)  BY <2>3, Zenon DEF Unseen
  <2> QED  BY <1>3, <2>1, <2>4, <2>5 DEF InDump, b, e
<1>6. CASE Selected(e)
  <2>1. b = Append(a, e.addr)  BY <1>6 DEF b, Callback, Selected
  <2>2. e.addr \in Addrs  BY <1>2 DEF Entry
  <2>3. b \in Seq(Addrs) /\ Len(b) = Len(a) + 1 /\ ToSet(b) = ToSet(a) \cup {e.addr}
    BY <1>3, <2>1, <2>2, ElementsAppended
  <2>4. ToSet(b) \subseteq OfLink(ev)  BY <1>2, <1>3, <1>6, <2>3 DEF OfLink, Selected
  <2>5. Unseen(t, q + 1, b, al) \subseteq Unseen(t, q, a, al)
    <3>1. ASSUME NEW k \in Unseen(t, q + 1, b, al) PROVE k # q + 1
      BY <2>3 DEF Unseen, e
    <3> QED  BY <1>1, <2>3, <3>1 DEF Unseen
  <2>6. Cardinality(Unseen(t, q + 1, b, al)) <= rm
    <3>1. Cardinality(Unseen(t, q + 1, b, al)) <= Cardinality(Unseen(t, q, a, al))
      BY <1>4, <2>5, FS_Subset
    <3> QED  BY <1>1, <1>3, <1>4, <3>1, PositionsOf
  <2>7. Len(b) + Cardinality(Ahead(t, q + 1, b)) <= ad + Cardinality(ToSet(b))
    <3>1. CASE e.addr \in ToSet(a)
      <4>1. ToSet(b) = ToSet(a)  BY <2>3, <3>1
      <4>2. q + 1 \in Ahead(t, q, a)  BY <1>1, <1>6, <3>1 DEF Ahead, e
      <4>3. Ahead(t, q + 1, b) = Ahead(t, q, a) \ {q + 1}
        BY <1>1, <4>1 DEF Ahead
      <4>4. Cardinality(Ahead(t, q + 1, b)) = Cardinality(Ahead(t, q, a)) - 1
        BY <1>4, <4>2, <4>3, FS_RemoveElement
      <4>5. Cardinality(ToSet(b)) = Cardinality(ToSet(a)) /\ Len(b) = Len(a) + 1
        BY <2>3, <4>1
      <4> QED  BY <1>3, <1>4, <4>4, <4>5
    <3>2. CASE e.addr \notin ToSet(a)
      <4>1. Cardinality(ToSet(b)) = Cardinality(ToSet(a)) + 1
        BY <1>4, <2>3, <3>2, FS_AddElement
      <4>2. \A k \in DOMAIN t : Selected(t[k]) /\ t[k].addr = e.addr => k = q + 1
        <5>1. ASSUME NEW k \in DOMAIN t, Selected(t[k]), t[k].addr = e.addr PROVE t[k] = e
          <6>1. t[k] \in Entry  BY <1>1
          <6> QED  BY <1>2, <1>6, <5>1, <6>1 DEF Entry, Selected
        <5> QED  BY <1>1, <5>1 DEF IsInjective, e
      <4>3. Ahead(t, q + 1, b) = Ahead(t, q, a)
        <5>1. \A k \in DOMAIN t : k > q + 1 <=> k > q /\ k # q + 1  BY <1>1
        <5>2. q + 1 \notin Ahead(t, q, a)  BY <3>2 DEF Ahead, e
        <5> QED  BY <2>3, <4>2, <5>1, <5>2 DEF Ahead
      <4> QED  BY <1>3, <1>4, <2>3, <4>1, <4>3
    <3> QED  BY <3>1, <3>2
  <2> QED  BY <1>3, <2>3, <2>4, <2>6, <2>7 DEF InDump, b, e
<1> QED  BY <1>5, <1>6

\* So are the messages of a datagram, one after the other.
LEMMA DatagramKeeps ==
  ASSUME TypeOK, InDump(table, passed, addresses, ever, always, added, removed),
         NEW n \in Nat, n <= Left
  PROVE  InDump(table, passed + n, Appended(SubSeq(table, passed + 1, passed + n)),
                ever, always, added, removed)
<1> DEFINE entries == SubSeq(table, passed + 1, passed + n)
<1>1. /\ table \in Table /\ table \in Seq(Entry) /\ Len(table) \in Nat
      /\ passed \in Nat /\ added \in Nat /\ removed \in Nat
      /\ ToSet(table) \subseteq ever
  BY TableShape, AddrDumpAssumption DEF TypeOK
<1>2. n > 0 => passed + n <= Len(table)  BY <1>1 DEF Left
<1>3. Len(entries) = n /\ \A m \in 1 .. n : entries[m] = table[passed + m]
  <2>1. CASE n = 0
    <3>1. Len(entries) = 0  BY <1>1, <2>1
    <3>2. 1 .. n = {}  BY <2>1
    <3> HIDE DEF entries
    <3> QED  BY <2>1, <3>1, <3>2
  <2>2. CASE n > 0
    <3>1. passed + 1 \in 1 .. Len(table) + 1 /\ passed + n \in passed .. Len(table)
      BY <1>1, <1>2, <2>2
    <3>2. Len(entries) = n  BY <1>1, <3>1
    <3>3. ASSUME NEW m \in 1 .. n PROVE entries[m] = table[passed + m]
      BY <1>1, <3>1
    <3> HIDE DEF entries
    <3> QED  BY <3>2, <3>3
  <2> HIDE DEF entries
  <2> QED  BY <2>1, <2>2
<1> HIDE DEF entries
<1>4. PICK f : /\ f[0] = addresses
               /\ \A m \in 1 .. n : f[m] = Callback(f[m - 1], entries[m])
               /\ Appended(entries) = f[n]
  BY <1>3, InTurn
<1> DEFINE Kept(m) == InDump(table, passed + m, f[m], ever, always, added, removed)
           lost == {m \in 0 .. n : ~ Kept(m)}
<1> HIDE DEF Kept
<1>5. ASSUME lost # {} PROVE FALSE
  <2>1. PICK m \in lost : \A l \in lost : m <= l
    <3>1. lost \subseteq Nat  OBVIOUS
    <3> HIDE DEF lost
    <3> QED  BY <1>5, <3>1, LeastNat
  <2>2. m # 0  BY <1>1, <1>4, <2>1 DEF Kept
  <2>3. m \in 1 .. n /\ m - 1 \in 0 .. n /\ m - 1 \notin lost  BY <2>1, <2>2
  <2>4. Kept(m - 1)  BY <2>3
  <2>5. /\ passed + (m - 1) \in Nat /\ passed + (m - 1) < Len(table)
        /\ passed + (m - 1) + 1 = passed + m
    BY <1>1, <1>2, <2>3
  <2>6. InDump(table, passed + m, Callback(f[m - 1], table[passed + m]),
               ever, always, added, removed)
    BY <1>1, <2>4, <2>5, CallbackKeeps DEF Kept
  <2>7. Kept(m)  BY <1>3, <1>4, <2>3, <2>6 DEF Kept
  <2> QED  BY <2>1, <2>7
<1>6. Kept(n)  BY <1>5
<1> QED  BY <1>4, <1>6 DEF entries, Kept

\* An entry that is added moves at most one that the vector has behind the
\* position, and none that it has not before it.
LEMMA InsertKeeps ==
  ASSUME NEW t \in Table, NEW q \in Nat, NEW a, NEW ev, NEW al, NEW ad \in Nat, NEW rm \in Nat,
         al \subseteq ToSet(t), InDump(t, q, a, ev, al, ad, rm),
         NEW e \in Entry, e \notin ToSet(t), NEW k \in 1 .. Len(t) + 1, Len(t) < MaxTable
  PROVE  /\ InsertAt(t, k, e) \in Table /\ ToSet(InsertAt(t, k, e)) = ToSet(t) \cup {e}
         /\ InDump(InsertAt(t, k, e), q, a, ev \cup {e}, al, ad + 1, rm)
<1> DEFINE s == InsertAt(t, k, e)
           Old(j) == IF j < k THEN j ELSE j - 1
<1>1. /\ t \in Seq(Entry) /\ IsInjective(t) /\ Len(t) \in Nat /\ DOMAIN t = 1 .. Len(t)
      /\ MaxTable \in Nat
  BY TableShape, AddrDumpAssumption
<1>2. /\ s \in Seq(Entry) /\ Len(s) = Len(t) + 1 /\ DOMAIN s = 1 .. Len(t) + 1
      /\ \A j \in DOMAIN s : s[j] = IF j < k THEN t[j] ELSE IF j = k THEN e ELSE t[j - 1]
  <2>1. /\ s \in Seq(Entry) /\ Len(s) = Len(t) + 1
        /\ \A j \in 1 .. Len(t) + 1 : s[j] = IF j < k THEN t[j] ELSE IF j = k THEN e ELSE t[j - 1]
    BY <1>1, Inserted
  <2> HIDE DEF s
  <2>2. DOMAIN s = 1 .. Len(t) + 1  BY <2>1
  <2> QED  BY <2>1, <2>2
<1> HIDE DEF s
<1>3. \A j \in DOMAIN s \ {k} : Old(j) \in DOMAIN t /\ s[j] = t[Old(j)]  BY <1>1, <1>2
<1>4. \A i, j \in DOMAIN s \ {k} : Old(i) = Old(j) => i = j  BY <1>1, <1>2
<1>5. \A j \in DOMAIN t : \E i \in DOMAIN s \ {k} : Old(i) = j
  <2>1. ASSUME NEW j \in DOMAIN t PROVE \E i \in DOMAIN s \ {k} : Old(i) = j
    <3>1. CASE j < k  BY <1>1, <1>2, <3>1
    <3>2. CASE j >= k
      <4>1. j + 1 \in DOMAIN s \ {k} /\ Old(j + 1) = j  BY <1>1, <1>2, <3>2
      <4> QED  BY <4>1
    <3> QED  BY <1>1, <3>1, <3>2
  <2> QED  BY <2>1
<1>6. k \in DOMAIN s /\ s[k] = e  BY <1>1, <1>2
<1>7. \A j \in DOMAIN s \ {k} : s[j] # e
  BY <1>3 DEF ToSet
<1>8. ToSet(s) = ToSet(t) \cup {e}
  <2>1. ToSet(t) \subseteq ToSet(s)
    <3>1. ASSUME NEW j \in DOMAIN t PROVE t[j] \in ToSet(s)  BY <1>3, <1>5, <3>1 DEF ToSet
    <3> QED  BY <3>1 DEF ToSet
  <2>2. ToSet(s) \subseteq ToSet(t) \cup {e}  BY <1>3, <1>6 DEF ToSet
  <2>3. e \in ToSet(s)  BY <1>6 DEF ToSet
  <2> QED  BY <2>1, <2>2, <2>3
<1>9. IsInjective(s)
  <2>1. ASSUME NEW i \in DOMAIN s, NEW j \in DOMAIN s, s[i] = s[j] PROVE i = j
    <3>1. CASE i = k \/ j = k  BY <1>6, <1>7, <2>1, <3>1
    <3>2. CASE i # k /\ j # k
      <4>1. Old(i) = Old(j)  BY <1>1, <1>3, <2>1, <3>2 DEF IsInjective
      <4> QED  BY <1>4, <3>2, <4>1
    <3> QED  BY <3>1, <3>2
  <2> QED  BY <2>1 DEF IsInjective
<1>10. s \in Table  BY <1>1, <1>2, <1>9, TableShape
<1>11. Cardinality(Ahead(s, q, a)) <= Cardinality(Ahead(t, q, a)) + 1
  <2> DEFINE x == IF k > q THEN k ELSE q + 1
             g == [j \in Ahead(s, q, a) \ {x} |-> Old(j)]
  <2>1. ASSUME NEW j \in Ahead(s, q, a) \ {x}
        PROVE  j \in DOMAIN s \ {k} /\ Old(j) \in Ahead(t, q, a)
    <3>1. /\ j \in DOMAIN s /\ j > q /\ Selected(s[j]) /\ s[j].addr \in ToSet(a)
      BY DEF Ahead
    <3>2. j # k /\ Old(j) > q  BY <1>2, <2>1, <3>1
    <3> QED  BY <1>3, <3>1, <3>2 DEF Ahead
  <2>2. g \in [Ahead(s, q, a) \ {x} -> Ahead(t, q, a)]  BY <2>1
  <2>3. \A i, j \in Ahead(s, q, a) \ {x} : g[i] = g[j] => i = j  BY <1>4, <2>1
  <2>4. IsFiniteSet(Ahead(s, q, a)) /\ IsFiniteSet(Ahead(t, q, a))  BY <1>1, <1>2, PositionsOf
  <2> HIDE DEF g, x
  <2> QED  BY <2>2, <2>3, <2>4, OneMoreAtMost
<1>12. Cardinality(Unseen(s, q, a, al)) <= Cardinality(Unseen(t, q, a, al))
  <2> DEFINE g == [j \in Unseen(s, q, a, al) |-> Old(j)]
  <2>1. ASSUME NEW j \in Unseen(s, q, a, al)
        PROVE  j \in DOMAIN s \ {k} /\ Old(j) \in Unseen(t, q, a, al)
    <3>1. /\ j \in DOMAIN s /\ j <= q /\ s[j] \in al /\ Selected(s[j]) /\ s[j].addr \notin ToSet(a)
      BY DEF Unseen
    <3>2. j # k  BY <1>6, <3>1
    <3>3. Old(j) <= q  BY <1>2, <3>1
    <3> QED  BY <1>3, <3>1, <3>2, <3>3 DEF Unseen
  <2>2. g \in [Unseen(s, q, a, al) -> Unseen(t, q, a, al)]  BY <2>1
  <2>3. \A i, j \in Unseen(s, q, a, al) : g[i] = g[j] => i = j  BY <1>4, <2>1
  <2>4. IsFiniteSet(Unseen(t, q, a, al))  BY <1>1, PositionsOf
  <2> HIDE DEF g
  <2> QED  BY <2>2, <2>3, <2>4, NoMore
<1>13. InDump(s, q, a, ev \cup {e}, al, ad + 1, rm)
  <2>1. /\ a \in Seq(Addrs) /\ Len(a) <= q /\ Len(a) \in Nat
        /\ ToSet(a) \subseteq OfLink(ev)
        /\ Len(a) + Cardinality(Ahead(t, q, a)) <= ad + Cardinality(ToSet(a))
        /\ Cardinality(Unseen(t, q, a, al)) <= rm
    BY DEF InDump
  <2>2. Cardinality(ToSet(a)) \in Nat  BY <2>1, Elements
  <2>3. /\ Cardinality(Ahead(s, q, a)) \in Nat /\ Cardinality(Ahead(t, q, a)) \in Nat
        /\ Cardinality(Unseen(s, q, a, al)) \in Nat /\ Cardinality(Unseen(t, q, a, al)) \in Nat
    BY <1>1, <1>2, PositionsOf
  <2>4. Len(a) + Cardinality(Ahead(s, q, a)) <= ad + 1 + Cardinality(ToSet(a))
    BY <1>11, <2>1, <2>2, <2>3
  <2>5. Cardinality(Unseen(s, q, a, al)) <= rm  BY <1>12, <2>1, <2>3
  <2>6. OfLink(ev) \subseteq OfLink(ev \cup {e})  BY DEF OfLink
  <2> QED  BY <2>1, <2>4, <2>5, <2>6 DEF InDump
<1> QED  BY <1>8, <1>10, <1>13 DEF s

\* An entry that is removed moves at most one that the vector has not before the
\* position, and none that it has behind it.
LEMMA RemoveKeeps ==
  ASSUME NEW t \in Table, NEW q \in Nat, NEW a, NEW ev, NEW al, NEW ad \in Nat, NEW rm \in Nat,
         al \subseteq ToSet(t), InDump(t, q, a, ev, al, ad, rm), NEW k \in DOMAIN t
  PROVE  /\ RemoveAt(t, k) \in Table /\ ToSet(RemoveAt(t, k)) = ToSet(t) \ {t[k]}
         /\ InDump(RemoveAt(t, k), q, a, ev, al \ {t[k]}, ad, rm + 1)
<1> DEFINE s == RemoveAt(t, k)
           Old(j) == IF j < k THEN j ELSE j + 1
           left == al \ {t[k]}
<1>1. /\ t \in Seq(Entry) /\ IsInjective(t) /\ Len(t) \in Nat /\ DOMAIN t = 1 .. Len(t)
      /\ Len(t) <= MaxTable /\ MaxTable \in Nat
  BY TableShape, AddrDumpAssumption
<1>2. /\ s \in Seq(Entry) /\ Len(s) = Len(t) - 1 /\ DOMAIN s = 1 .. Len(t) - 1
      /\ \A j \in DOMAIN s : s[j] = t[Old(j)]
  <2>1. /\ s \in Seq(Entry) /\ Len(s) = Len(t) - 1
        /\ \A j \in 1 .. Len(t) - 1 : s[j] = IF j < k THEN t[j] ELSE t[j + 1]
    BY <1>1, Removed
  <2> HIDE DEF s
  <2>2. DOMAIN s = 1 .. Len(t) - 1  BY <2>1
  <2> QED  BY <2>1, <2>2
<1> HIDE DEF s
<1>3. \A j \in DOMAIN s : Old(j) \in DOMAIN t \ {k}  BY <1>1, <1>2
<1>4. \A i, j \in DOMAIN s : Old(i) = Old(j) => i = j  BY <1>1, <1>2
<1>5. ASSUME NEW j \in DOMAIN t \ {k} PROVE \E i \in DOMAIN s : Old(i) = j
  <2>1. CASE j < k  BY <1>1, <1>2, <2>1
  <2>2. CASE j > k
    <3>1. j - 1 \in DOMAIN s /\ Old(j - 1) = j  BY <1>1, <1>2, <2>2
    <3> QED  BY <3>1
  <2> QED  BY <1>1, <2>1, <2>2
<1>6. \A j \in DOMAIN t \ {k} : t[j] # t[k]  BY <1>1 DEF IsInjective
<1>7. ToSet(s) = ToSet(t) \ {t[k]}
  <2>1. ToSet(s) \subseteq ToSet(t) \ {t[k]}
    <3>1. ASSUME NEW j \in DOMAIN s PROVE s[j] \in ToSet(t) \ {t[k]}
      <4>1. Old(j) \in DOMAIN t \ {k} /\ s[j] = t[Old(j)]  BY <1>2, <1>3
      <4> HIDE DEF Old
      <4> QED  BY <1>6, <4>1 DEF ToSet
    <3> QED  BY <3>1 DEF ToSet
  <2>2. ASSUME NEW j \in DOMAIN t \ {k} PROVE t[j] \in ToSet(s)
    BY <1>2, <1>5 DEF ToSet
  <2> QED  BY <2>1, <2>2 DEF ToSet
<1>8. IsInjective(s)
  <2>1. ASSUME NEW i \in DOMAIN s, NEW j \in DOMAIN s, s[i] = s[j] PROVE i = j
    <3>1. /\ Old(i) \in DOMAIN t /\ s[i] = t[Old(i)]
          /\ Old(j) \in DOMAIN t /\ s[j] = t[Old(j)]
          /\ Old(i) = Old(j) => i = j
      BY <1>2, <1>3, <1>4
    <3> HIDE DEF Old
    <3> QED  BY <1>1, <2>1, <3>1 DEF IsInjective
  <2> QED  BY <2>1 DEF IsInjective
<1>9. s \in Table  BY <1>1, <1>2, <1>8, TableShape
<1>10. Cardinality(Ahead(s, q, a)) <= Cardinality(Ahead(t, q, a))
  <2> DEFINE g == [j \in Ahead(s, q, a) |-> Old(j)]
  <2>1. ASSUME NEW j \in Ahead(s, q, a) PROVE j \in DOMAIN s /\ Old(j) \in Ahead(t, q, a)
    <3>1. /\ j \in DOMAIN s /\ j > q /\ Selected(s[j]) /\ s[j].addr \in ToSet(a)
      BY DEF Ahead
    <3>2. Old(j) > q  BY <1>2, <3>1
    <3> QED  BY <1>2, <1>3, <3>1, <3>2 DEF Ahead
  <2>2. g \in [Ahead(s, q, a) -> Ahead(t, q, a)]  BY <2>1
  <2>3. \A i, j \in Ahead(s, q, a) : g[i] = g[j] => i = j  BY <1>4, <2>1
  <2>4. IsFiniteSet(Ahead(t, q, a))  BY <1>1, PositionsOf
  <2> HIDE DEF g
  <2> QED  BY <2>2, <2>3, <2>4, NoMore
<1>11. Cardinality(Unseen(s, q, a, left)) <= Cardinality(Unseen(t, q, a, al)) + 1
  <2> DEFINE g == [j \in Unseen(s, q, a, left) \ {q} |-> Old(j)]
  <2>1. ASSUME NEW j \in Unseen(s, q, a, left) \ {q}
        PROVE  j \in DOMAIN s /\ Old(j) \in Unseen(t, q, a, al)
    <3>1. /\ j \in DOMAIN s /\ j <= q /\ s[j] \in al /\ Selected(s[j]) /\ s[j].addr \notin ToSet(a)
      BY DEF Unseen
    <3>2. Old(j) <= q  BY <1>2, <2>1, <3>1
    <3> QED  BY <1>2, <1>3, <3>1, <3>2 DEF Unseen
  <2>2. g \in [Unseen(s, q, a, left) \ {q} -> Unseen(t, q, a, al)]  BY <2>1
  <2>3. \A i, j \in Unseen(s, q, a, left) \ {q} : g[i] = g[j] => i = j  BY <1>4, <2>1
  <2>4. IsFiniteSet(Unseen(s, q, a, left)) /\ IsFiniteSet(Unseen(t, q, a, al))
    BY <1>1, <1>2, PositionsOf
  <2> HIDE DEF g, left
  <2> QED  BY <2>2, <2>3, <2>4, OneMoreAtMost
<1> HIDE DEF left
<1>12. InDump(s, q, a, ev, left, ad, rm + 1)
  <2>1. /\ a \in Seq(Addrs) /\ Len(a) <= q /\ Len(a) \in Nat
        /\ ToSet(a) \subseteq OfLink(ev)
        /\ Len(a) + Cardinality(Ahead(t, q, a)) <= ad + Cardinality(ToSet(a))
        /\ Cardinality(Unseen(t, q, a, al)) <= rm
    BY DEF InDump
  <2>2. Cardinality(ToSet(a)) \in Nat  BY <2>1, Elements
  <2>3. /\ Cardinality(Ahead(s, q, a)) \in Nat /\ Cardinality(Ahead(t, q, a)) \in Nat
        /\ Cardinality(Unseen(s, q, a, left)) \in Nat /\ Cardinality(Unseen(t, q, a, al)) \in Nat
    BY <1>1, <1>2, PositionsOf
  <2>4. Len(a) + Cardinality(Ahead(s, q, a)) <= ad + Cardinality(ToSet(a))
    BY <1>10, <2>1, <2>2, <2>3
  <2>5. Cardinality(Unseen(s, q, a, left)) <= rm + 1  BY <1>11, <2>1, <2>3
  <2> QED  BY <2>1, <2>4, <2>5 DEF InDump
<1> QED  BY <1>7, <1>9, <1>12 DEF s, left
-----------------------------------------------------------------------------
(* The theorems *)

LEMMA DumpSteps ==
  ASSUME DumpInv, [Next]_vars
  PROVE  DumpInv'
<1>1. /\ TypeOK /\ table \in Table /\ Len(table) \in Nat /\ Len(table) <= MaxTable
      /\ passed \in 0 .. MaxTable /\ added \in 0 .. MaxAdded /\ removed \in 0 .. MaxRemoved
      /\ always \subseteq ToSet(table) /\ ToSet(table) \subseteq ever /\ ever \subseteq Entry
      /\ broken \in BOOLEAN
      /\ {MaxAdded, MaxRemoved, MaxTable} \subseteq Nat
      /\ passed \in Nat /\ added \in Nat /\ removed \in Nat
      /\ status = "reading" => InDump(table, passed, addresses, ever, always, added, removed)
  BY TableShape, AddrDumpAssumption DEF DumpInv, TypeOK
<1>2. CASE Receive
  <2>1. /\ status = "reading" /\ UNCHANGED <<table, ever, always, added, removed>>
        /\ status' \in {"reading", "returned"}
    BY <1>2 DEF Receive
  <2>2. PICK n \in 0 .. PerDatagram, done \in BOOLEAN, error \in BOOLEAN :
          /\ n <= Left
          /\ done => error \/ n = Left
          /\ addresses' = Appended(SubSeq(table, passed + 1, passed + n))
          /\ passed' = passed + n /\ broken' = error
          /\ status' = IF done THEN "returned" ELSE status
    BY <1>2 DEF Receive, LoopEnds
  <2>3. n \in Nat /\ passed' \in 0 .. MaxTable
    <3>1. n \in Nat  BY AddrDumpAssumption
    <3>2. n <= Left /\ passed' = passed + n  BY <2>2, Zenon
    <3> QED  BY <1>1, <3>1, <3>2 DEF Left
  <2>4. InDump(table, passed', addresses', ever, always, added, removed)
    <3>1. n <= Left /\ passed' = passed + n
          /\ addresses' = Appended(SubSeq(table, passed + 1, passed + n))
      BY <2>2, Zenon
    <3>2. InDump(table, passed + n, Appended(SubSeq(table, passed + 1, passed + n)),
                 ever, always, added, removed)
      BY <1>1, <2>1, <2>3, <3>1, DatagramKeeps
    <3> QED  BY <3>1, <3>2, Zenon
  <2>5. status' = "returned" /\ ~ broken' => passed' >= Len(table)
    BY <1>1, <2>1, <2>2, <2>3 DEF Left
  <2>6. addresses' \in Seq(Addrs) /\ Len(addresses') <= passed'  BY <2>4 DEF InDump
  <2>7. TypeOK'  BY <1>1, <2>1, <2>2, <2>3, <2>6 DEF TypeOK
  <2> QED  BY <2>1, <2>4, <2>5, <2>7 DEF DumpInv
<1>3. CASE ReceiveFails
  <2>1. /\ status' = "failed" /\ addresses' = <<>>
        /\ UNCHANGED <<table, passed, broken, ever, always, added, removed>>
    BY <1>3 DEF ReceiveFails
  <2>2. addresses' \in Seq(Addrs) /\ Len(addresses') = 0  BY <2>1
  <2>3. TypeOK'  BY <1>1, <2>1, <2>2 DEF TypeOK
  <2> QED  BY <2>1, <2>3 DEF DumpInv
<1>4. ASSUME NEW e \in Entry, NEW k \in 1 .. Len(table) + 1, AddEntry(e, k) PROVE DumpInv'
  <2>1. /\ status = "reading" /\ added < MaxAdded /\ Len(table) < MaxTable /\ e \notin ToSet(table)
        /\ table' = InsertAt(table, k, e) /\ added' = added + 1 /\ ever' = ever \cup {e}
        /\ UNCHANGED <<passed, broken, status, addresses, always, removed>>
    BY <1>4 DEF AddEntry
  <2>2. /\ table' \in Table /\ ToSet(table') = ToSet(table) \cup {e}
        /\ InDump(table', passed, addresses, ever', always, added', removed)
    BY <1>1, <2>1, <1>4, InsertKeeps
  <2>3. added' \in 0 .. MaxAdded  BY <1>1, <2>1
  <2>4. TypeOK'  BY <1>1, <2>1, <2>2, <2>3 DEF TypeOK
  <2> QED  BY <2>1, <2>2, <2>4 DEF DumpInv
<1>5. ASSUME NEW k \in DOMAIN table, RemoveEntry(k) PROVE DumpInv'
  <2>1. /\ status = "reading" /\ removed < MaxRemoved
        /\ table' = RemoveAt(table, k) /\ removed' = removed + 1 /\ always' = always \ {table[k]}
        /\ UNCHANGED <<passed, broken, status, addresses, ever, added>>
    BY <1>5 DEF RemoveEntry
  <2>2. /\ table' \in Table /\ ToSet(table') = ToSet(table) \ {table[k]}
        /\ InDump(table', passed, addresses, ever, always', added, removed')
    BY <1>1, <2>1, <1>5, RemoveKeeps
  <2>3. removed' \in 0 .. MaxRemoved  BY <1>1, <2>1
  <2>4. TypeOK'  BY <1>1, <2>1, <2>2, <2>3 DEF TypeOK
  <2> QED  BY <2>1, <2>2, <2>4 DEF DumpInv
<1>6. CASE UNCHANGED vars
  BY <1>6 DEF vars, DumpInv, TypeOK
<1> QED  BY <1>2, <1>3, <1>4, <1>5, <1>6 DEF Next

\* The vector holds addresses, no more than the dump has passed entries.
THEOREM DumpTypes == Spec => []TypeOK
<1>1. DumpInv => TypeOK  BY DEF DumpInv
<1> QED  BY <1>1, DumpStarts, DumpSteps, PTL DEF Spec

\* Whatever moves in the table, get_ip_addresses() returns addresses only that
\* the link has had during the call.
THEOREM NothingInvented == Spec => []ReportedWasThere
<1>1. DumpInv => ReportedWasThere
  BY DEF DumpInv, InDump, ReportedWasThere
<1> QED  BY <1>1, DumpStarts, DumpSteps, PTL DEF Spec

\* Every address that a complete dump misses although it was there all the time
\* has its own address that was removed during the call.
THEOREM MissesBounded == Spec => []MissesExplained
<1>1. ASSUME DumpInv, status = "returned", ~ broken
      PROVE  Cardinality(OfLink(always) \ ToSet(addresses)) <= removed
  <2> DEFINE P == Unseen(table, passed, addresses, always)
             A == OfLink(always) \ ToSet(addresses)
             f == [k \in P |-> table[k].addr]
  <2>1. /\ table \in Seq(Entry) /\ DOMAIN table = 1 .. Len(table) /\ Len(table) \in Nat
        /\ passed \in Nat /\ passed >= Len(table) /\ always \subseteq ToSet(table)
        /\ Cardinality(P) <= removed /\ removed \in Nat
    BY <1>1, TableShape, AddrDumpAssumption DEF DumpInv, InDump, TypeOK
  <2>2. ASSUME NEW k \in P PROVE table[k].addr \in A
    BY DEF Unseen, OfLink, Selected
  <2>3. ASSUME NEW x \in A PROVE \E k \in P : table[k].addr = x
    <3>1. PICK e \in always : Selected(e) /\ e.addr = x  BY DEF OfLink, Selected
    <3>2. PICK k \in DOMAIN table : table[k] = e  BY <2>1, <3>1 DEF ToSet
    <3>3. k <= passed  BY <2>1, <3>2
    <3> QED  BY <3>1, <3>2, <3>3 DEF Unseen
  <2>4. IsFiniteSet(P) /\ Cardinality(P) \in Nat  BY <2>1, PositionsOf
  <2> HIDE DEF P, A
  <2>5. f \in Surjection(P, A)  BY <2>2, <2>3 DEF Surjection
  <2>6. IsFiniteSet(A) /\ Cardinality(A) <= Cardinality(P)  BY <2>4, <2>5, FS_Surjection
  <2>7. Cardinality(A) \in Nat  BY <2>6, FS_CardinalityType
  <2> QED  BY <2>1, <2>4, <2>6, <2>7 DEF A
<1>2. DumpInv => MissesExplained  BY <1>1 DEF MissesExplained
<1> QED  BY <1>2, DumpStarts, DumpSteps, PTL DEF Spec

\* Every repetition in the vector has its own address that was added during the
\* call.
THEOREM RepeatsBounded == Spec => []RepeatsExplained
<1>1. ASSUME DumpInv PROVE Len(addresses) - Cardinality(ToSet(addresses)) <= added
  <2>1. /\ addresses \in Seq(Addrs) /\ Len(addresses) \in Nat /\ added \in Nat
        /\ table \in Seq(Entry)
    BY <1>1, TableShape, AddrDumpAssumption DEF DumpInv, TypeOK
  <2>2. Cardinality(ToSet(addresses)) \in Nat  BY <2>1, Elements
  <2>3. CASE status = "failed"
    <3>1. Len(addresses) = 0  BY <1>1, <2>3 DEF DumpInv
    <3> QED  BY <2>1, <2>2, <3>1
  <2>4. CASE status # "failed"
    <3>1. Len(addresses) + Cardinality(Ahead(table, passed, addresses))
             <= added + Cardinality(ToSet(addresses))
      BY <1>1, <2>4 DEF DumpInv, InDump
    <3>2. Cardinality(Ahead(table, passed, addresses)) \in Nat  BY <2>1, PositionsOf
    <3> QED  BY <2>1, <2>2, <3>1, <3>2
  <2> QED  BY <2>3, <2>4
<1>2. DumpInv => RepeatsExplained  BY <1>1 DEF RepeatsExplained
<1> QED  BY <1>2, DumpStarts, DumpSteps, PTL DEF Spec
-----------------------------------------------------------------------------
(* The dump as NetIface takes it *)

\* As long as nothing was added or removed, the histories are the table.
Still == added = 0 /\ removed = 0 => ever = ToSet(table) /\ always = ToSet(table)

\* What one step of NetIface makes of the whole dump: the addresses of the link,
\* each of them once.
DumpAtOnce ==
  status = "returned" /\ ~ broken /\ added = 0 /\ removed = 0 =>
    /\ ToSet(addresses) = OfLink(ToSet(table))
    /\ Len(addresses) = Cardinality(ToSet(addresses))

LEMMA StillHolds == Spec => [](DumpInv /\ Still)
<1>1. Init => Still  BY DEF Init, Still
<1>2. ASSUME DumpInv, Still, [Next]_vars PROVE Still'
  <2>1. added \in Nat /\ removed \in Nat  BY <1>2, AddrDumpAssumption DEF DumpInv, TypeOK
  <2>2. CASE Receive  BY <1>2, <2>2 DEF Receive, Still
  <2>3. CASE ReceiveFails  BY <1>2, <2>3 DEF ReceiveFails, Still
  <2>4. ASSUME NEW e \in Entry, NEW k \in 1 .. Len(table) + 1, AddEntry(e, k) PROVE Still'
    BY <2>1, <2>4 DEF AddEntry, Still
  <2>5. ASSUME NEW k \in DOMAIN table, RemoveEntry(k) PROVE Still'
    BY <2>1, <2>5 DEF RemoveEntry, Still
  <2>6. CASE UNCHANGED vars  BY <1>2, <2>6 DEF vars, Still
  <2> QED  BY <1>2, <2>2, <2>3, <2>4, <2>5, <2>6 DEF Next
<1> QED  BY <1>1, <1>2, DumpStarts, DumpSteps, PTL DEF Spec

\* A complete dump during which no address was added or removed returns exactly
\* the link's addresses, however it was cut into datagrams: NetIface may take it
\* as one step while nobody interferes.
THEOREM QuietDumpIsAtomic == Spec => []DumpAtOnce
<1>1. ASSUME DumpInv, Still, ReportedWasThere, MissesExplained, RepeatsExplained
      PROVE  DumpAtOnce
  <2> SUFFICES ASSUME status = "returned", ~ broken, added = 0, removed = 0
               PROVE  /\ ToSet(addresses) = OfLink(ToSet(table))
                      /\ Len(addresses) = Cardinality(ToSet(addresses))
    BY DEF DumpAtOnce
  <2> DEFINE missing == OfLink(ToSet(table)) \ ToSet(addresses)
  <2>1. ever = ToSet(table) /\ always = ToSet(table)  BY <1>1 DEF Still
  <2>2. /\ addresses \in Seq(Addrs) /\ Len(addresses) \in Nat /\ table \in Seq(Entry)
    BY <1>1, TableShape DEF DumpInv, TypeOK
  <2>3. /\ IsFiniteSet(ToSet(addresses)) /\ Cardinality(ToSet(addresses)) \in Nat
        /\ Cardinality(ToSet(addresses)) <= Len(addresses)
    BY <2>2, Elements
  <2>4. Len(addresses) <= Cardinality(ToSet(addresses))
    BY <1>1, <2>2, <2>3 DEF RepeatsExplained
  <2>5. missing = {}
    <3>1. Cardinality(missing) <= 0  BY <1>1, <2>1 DEF MissesExplained
    <3>2. IsFiniteSet(missing)
      <4> DEFINE f == [k \in DOMAIN table |-> table[k].addr]
                 A == {table[k].addr : k \in DOMAIN table}
      <4>1. f \in Surjection(DOMAIN table, A)  BY DEF Surjection
      <4>2. IsFiniteSet(DOMAIN table)  BY <2>2, Positions
      <4>3. IsFiniteSet(A)  BY <4>1, <4>2, FS_Surjection
      <4>4. missing \subseteq A  BY DEF OfLink, ToSet
      <4> QED  BY <4>3, <4>4, FS_Subset
    <3> QED  BY <3>1, <3>2, FS_EmptySet, FS_CardinalityType
  <2>6. ToSet(addresses) \subseteq OfLink(ToSet(table))  BY <1>1, <2>1 DEF ReportedWasThere
  <2>7. Len(addresses) = Cardinality(ToSet(addresses))  BY <2>2, <2>3, <2>4
  <2>8. ToSet(addresses) = OfLink(ToSet(table))  BY <2>5, <2>6, Zenon
  <2> QED  BY <2>7, <2>8
<1> QED
  BY <1>1, StillHolds, NothingInvented, MissesBounded, RepeatsBounded, PTL
=============================================================================
