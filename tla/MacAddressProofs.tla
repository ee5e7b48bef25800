-------------------------- MODULE MacAddressProofs --------------------------
(***************************************************************************)
(* Proofs about MacAddress, for any base, number of bytes and text: what   *)
(* is printed of an address is what was read, it is read again as the same *)
(* address, and its bytes are those that were given.                       *)
(*                                                                         *)
(* What a conversion computes is shown by induction over its loop, a set   *)
(* of numbers at a time (Induction), the loops being functions defined by  *)
(* recursion (Loop).                                                       *)
(***************************************************************************)
EXTENDS MacAddress, WellFoundedInduction, SequenceTheorems, TLAPS

-----------------------------------------------------------------------------
(* Induction and loops *)

LEMMA Induction ==
  ASSUME NEW S \in SUBSET Nat, 0 \in S, \A n \in S : n + 1 \in S
  PROVE  \A n \in Nat : n \in S
<1> SUFFICES ASSUME Nat \ S # {} PROVE FALSE
  OBVIOUS
<1>1. PICK n \in Nat \ S : \A m \in Nat \ S : <<m, n>> \notin OpToRel(<, Nat)
  BY NatLessThanWellFounded, WFMin
<1>2. \A m \in Nat \ S : ~ (m < n)  BY <1>1 DEF OpToRel
<1>3. n \in Nat /\ n # 0  BY <1>1
<1>4. n - 1 \in Nat /\ n - 1 < n /\ (n - 1) + 1 = n  BY <1>3
<1>5. n - 1 \in S  BY <1>2, <1>4
<1> QED  BY <1>1, <1>4, <1>5

\* f[n] is the value of a loop after n rounds.
LoopOf(f, V, first, step, last) ==
  /\ f \in [0 .. last -> V]
  /\ f[0] = first
  /\ \A n \in 1 .. last : f[n] = step[<<f[n - 1], n>>]

LEMMA Loop ==
  ASSUME NEW V, NEW first \in V, NEW step, NEW last \in Nat,
         \A v \in V, n \in 1 .. last : step[<<v, n>>] \in V
  PROVE  \E f : LoopOf(f, V, first, step, last)
<1> DEFINE UpTo(f, l) ==
      f = [n \in 0 .. l |-> IF n = 0 THEN first ELSE step[<<f[n - 1], n>>]]
    S == {l \in Nat : l <= last => \E f \in [0 .. l -> V] : UpTo(f, l)}
<1>1. 0 \in S
  <2> DEFINE f == [n \in 0 .. 0 |-> first]
  <2>1. f \in [0 .. 0 -> V] /\ UpTo(f, 0)  OBVIOUS
  <2> QED  BY <2>1
<1>2. ASSUME NEW l \in S PROVE l + 1 \in S
  <2> SUFFICES ASSUME l + 1 <= last PROVE \E f \in [0 .. l + 1 -> V] : UpTo(f, l + 1)
    OBVIOUS
  <2>1. PICK g \in [0 .. l -> V] : UpTo(g, l)  OBVIOUS
  <2> DEFINE f == [n \in 0 .. l + 1 |-> IF n = l + 1 THEN step[<<g[l], l + 1>>] ELSE g[n]]
  <2>2. g[l] \in V /\ l + 1 \in 1 .. last  OBVIOUS
  <2>3. step[<<g[l], l + 1>>] \in V  BY <2>2
  <2>4. f \in [0 .. l + 1 -> V]  BY <2>3
  <2>5. ASSUME NEW n \in 0 .. l + 1
        PROVE  f[n] = IF n = 0 THEN first ELSE step[<<f[n - 1], n>>]
    <3>1. CASE n = l + 1
      <4>1. n - 1 = l /\ l \in 0 .. l + 1 /\ l # l + 1 /\ n # 0  BY <3>1
      <4> QED  BY <3>1, <4>1
    <3>2. CASE n = 0  BY <2>1, <3>2
    <3>3. CASE n # l + 1 /\ n # 0
      <4>1. n \in 0 .. l /\ n - 1 \in 0 .. l + 1 /\ n - 1 # l + 1  BY <3>3
      <4>2. f[n] = g[n] /\ f[n - 1] = g[n - 1]  BY <3>3, <4>1
      <4>3. g[n] = step[<<g[n - 1], n>>]  BY <2>1, <3>3, <4>1
      <4> QED  BY <3>3, <4>2, <4>3
    <3> QED  BY <3>1, <3>2, <3>3
  <2>6. UpTo(f, l + 1)  BY <2>5
  <2> QED  BY <2>4, <2>6
<1>3. last \in S
  <2> HIDE DEF S
  <2>1. S \subseteq Nat  BY DEF S
  <2> QED  BY <1>1, <1>2, <2>1, Induction
<1>4. PICK f \in [0 .. last -> V] : UpTo(f, last)  BY <1>3
<1>5. f[0] = first /\ \A n \in 1 .. last : f[n] = step[<<f[n - 1], n>>]  BY <1>4
<1> QED  BY <1>4, <1>5 DEF LoopOf
-----------------------------------------------------------------------------
(* Division *)

LEMMA Euclid ==
  ASSUME NEW m \in Nat, NEW p \in Nat \ {0}
  PROVE  /\ m \div p \in Nat /\ m % p \in 0 .. p - 1
         /\ m = (m \div p) * p + (m % p)
OBVIOUS

LEMMA Quotient ==
  ASSUME NEW q \in Nat, NEW p \in Nat \ {0}, NEW r \in 0 .. p - 1, NEW m, m = q * p + r
  PROVE  m \div p = q /\ m % p = r
OBVIOUS

LEMMA Base == D \in Nat /\ D >= 2 /\ B \in Nat \ {0} /\ N \in Nat \ {0}
<1>1. D \in Nat /\ D >= 2 /\ N \in Nat \ {0}  BY MacAddressAssumption
<1>2. D * D \in Nat \ {0}  BY <1>1
<1> QED  BY <1>1, <1>2 DEF B

LEMMA LastByte ==
  ASSUME NEW q \in Nat, NEW r \in 0 .. B - 1
  PROVE  (q * B + r) \div B = q /\ (q * B + r) % B = r
BY Base, Quotient

\* A further digit stays below the next place.
LEMMA NextPlace ==
  ASSUME NEW x \in Nat, NEW p \in Nat \ {0}, NEW b \in Nat \ {0}, NEW r \in 0 .. b - 1,
         x <= p - 1
  PROVE  x * b + r <= b * p - 1
<1>1. x * b <= (p - 1) * b  OBVIOUS
<1>2. (p - 1) * b = b * p - b  OBVIOUS
<1>3. x * b \in Nat /\ b * p \in Nat  OBVIOUS
<1> QED  BY <1>1, <1>2, <1>3

\* Shifting twice is shifting once.
LEMMA DivDiv ==
  ASSUME NEW m \in Nat, NEW p \in Nat \ {0}, NEW b \in Nat \ {0}
  PROVE  b * p \in Nat \ {0} /\ m \div (b * p) = (m \div p) \div b
<1> DEFINE q == m \div p
           r == m % p
           c == q \div b
           s == q % b
<1>1. q \in Nat /\ r \in 0 .. p - 1 /\ m = q * p + r  BY Euclid
<1>2. c \in Nat /\ s \in 0 .. b - 1 /\ q = c * b + s
  <2> HIDE DEF q
  <2> QED  BY <1>1, Euclid
<1> SUFFICES b * p \in Nat \ {0} /\ m \div (b * p) = c
  OBVIOUS
<1> HIDE DEF q, r, c, s
<1>3. b * p \in Nat \ {0}  OBVIOUS
<1>4. m = c * (b * p) + (s * p + r)
  <2>1. q * p = (c * b) * p + s * p  BY <1>2
  <2>2. (c * b) * p = c * (b * p)  BY <1>2
  <2> QED  BY <1>1, <1>2, <2>1, <2>2
<1>5. s * p + r \in 0 .. b * p - 1
  <2>1. s * p <= (b - 1) * p  BY <1>2
  <2>2. (b - 1) * p = b * p - p  OBVIOUS
  <2>3. s * p \in Nat  BY <1>2
  <2> QED  BY <1>1, <1>3, <2>1, <2>2, <2>3
<1> QED
  <2> DEFINE P == b * p
             R == s * p + r
  <2>1. P \in Nat \ {0} /\ R \in 0 .. P - 1 /\ m = c * P + R  BY <1>3, <1>4, <1>5
  <2> HIDE DEF P, R
  <2>2. m \div P = c  BY <1>2, <2>1, Quotient
  <2> QED  BY <1>3, <2>2 DEF P
-----------------------------------------------------------------------------
(* The loops of the code *)

LEMMA Places ==
  /\ Place[0] = 1
  /\ \A n \in 1 .. N : Place[n] = B * Place[n - 1]
  /\ \A n \in 0 .. N : Place[n] \in Nat \ {0}
<1> DEFINE V == Nat \ {0}
           IsPlace(f) == f = [n \in 0 .. N |-> IF n = 0 THEN 1 ELSE B * f[n - 1]]
           step == [p \in V \X (1 .. N) |-> B * p[1]]
<1>1. N \in Nat /\ \A v \in V : B * v \in V  BY Base
<1>2. \A v \in V, n \in 1 .. N : step[<<v, n>>] = B * v /\ step[<<v, n>>] \in V  BY <1>1
<1>3. 1 \in V  OBVIOUS
<1>4. PICK f : LoopOf(f, V, 1, step, N)
  <2> HIDE DEF V, step
  <2>1. \A v \in V, n \in 1 .. N : step[<<v, n>>] \in V  BY <1>2
  <2>2. N \in Nat  BY <1>1
  <2> QED  BY <1>3, <2>1, <2>2, Loop
<1>5. IsPlace(f)
  <2>1. \A n \in 0 .. N : n # 0 => n \in 1 .. N /\ n - 1 \in 0 .. N  BY <1>1, <1>4
  <2>2. \A n \in 0 .. N : f[n] = IF n = 0 THEN 1 ELSE B * f[n - 1]
    <3> HIDE DEF V, step
    <3> QED  BY <1>2, <1>4, <2>1 DEF LoopOf
  <2>3. f \in [0 .. N -> V]
    <3> HIDE DEF step
    <3> QED  BY <1>4 DEF LoopOf
  <2> QED  BY <2>2, <2>3
<1>6. IsPlace(Place)  BY <1>5 DEF Place
<1>7. Place[0] = 1 /\ \A n \in 1 .. N : Place[n] = B * Place[n - 1]  BY <1>1, <1>6
<1>8. \A n \in 0 .. N : Place[n] \in V
  <2> DEFINE S == {n \in Nat : n <= N => Place[n] \in V}
  <2>1. 0 \in S  BY <1>7
  <2>2. ASSUME NEW n \in S PROVE n + 1 \in S
    <3> SUFFICES ASSUME n + 1 <= N PROVE Place[n + 1] \in V
      OBVIOUS
    <3>1. n + 1 \in 1 .. N /\ (n + 1) - 1 = n /\ Place[n] \in V  BY <1>1
    <3> HIDE DEF V
    <3> QED  BY <1>1, <1>7, <3>1
  <2> HIDE DEF S
  <2>3. \A n \in Nat : n \in S
    <3>1. S \subseteq Nat  BY DEF S
    <3> QED  BY <2>1, <2>2, <3>1, Induction
  <2> QED  BY <1>1, <2>3 DEF S
<1> QED  BY <1>7, <1>8

\* strtoul(), and the shifts of the constructor, digit by digit.
LEMMA NumberLoop ==
  ASSUME NEW digits \in Seq(Nat), NEW base \in Nat
  PROVE  \E f : /\ f[0] = 0
                /\ \A n \in 1 .. Len(digits) : f[n] = f[n - 1] * base + digits[n]
                /\ \A n \in 0 .. Len(digits) : f[n] \in Nat
                /\ Number(digits, base) = f[Len(digits)]
<1> DEFINE L == Len(digits)
           IsValue(f) == f = [n \in 0 .. L |-> IF n = 0 THEN 0 ELSE f[n - 1] * base + digits[n]]
           step == [p \in Nat \X (1 .. L) |-> p[1] * base + digits[p[2]]]
           g == CHOOSE f : IsValue(f)
<1>1. L \in Nat /\ \A n \in 1 .. L : digits[n] \in Nat  OBVIOUS
<1>2. \A v \in Nat, n \in 1 .. L : step[<<v, n>>] = v * base + digits[n] /\ step[<<v, n>>] \in Nat
  BY <1>1
<1>3. PICK f : LoopOf(f, Nat, 0, step, L)
  <2> DEFINE V == Nat
  <2> HIDE DEF L, V, step
  <2>1. \A v \in V, n \in 1 .. L : step[<<v, n>>] \in V  BY <1>2 DEF V
  <2>2. L \in Nat /\ 0 \in V  BY <1>1 DEF V
  <2>3. \E f : LoopOf(f, V, 0, step, L)  BY <2>1, <2>2, Loop
  <2> QED  BY <2>3 DEF V
<1>4. IsValue(f)
  <2>1. \A n \in 0 .. L : n # 0 => n \in 1 .. L /\ n - 1 \in 0 .. L  BY <1>1, <1>3
  <2>2. \A n \in 0 .. L : f[n] = IF n = 0 THEN 0 ELSE f[n - 1] * base + digits[n]
    <3> HIDE DEF L, step
    <3> QED  BY <1>2, <1>3, <2>1 DEF LoopOf
  <2>3. f \in [0 .. L -> Nat]
    <3> HIDE DEF step
    <3> QED  BY <1>3 DEF LoopOf
  <2> QED  BY <2>2, <2>3
<1>5. IsValue(g)  BY <1>4
<1>6. Number(digits, base) = g[L]  BY DEF Number
<1> HIDE DEF g, L
<1>7. g[0] = 0 /\ \A n \in 1 .. L : g[n] = g[n - 1] * base + digits[n]  BY <1>1, <1>5
<1>8. \A n \in 0 .. L : g[n] \in Nat
  <2> DEFINE S == {n \in Nat : n <= L => g[n] \in Nat}
  <2>1. 0 \in S  BY <1>7
  <2>2. ASSUME NEW n \in S PROVE n + 1 \in S
    <3> SUFFICES ASSUME n + 1 <= L PROVE g[n + 1] \in Nat
      OBVIOUS
    <3>1. n + 1 \in 1 .. L /\ (n + 1) - 1 = n /\ g[n] \in Nat  BY <1>1
    <3>2. g[n + 1] = g[n] * base + digits[n + 1] /\ digits[n + 1] \in Nat
      BY <1>1, <1>7, <3>1
    <3>3. g[n] * base \in Nat  BY <3>1
    <3> QED  BY <3>2, <3>3
  <2> HIDE DEF S
  <2>3. \A n \in Nat : n \in S
    <3>1. S \subseteq Nat  BY DEF S
    <3> QED  BY <2>1, <2>2, <3>1, Induction
  <2> QED  BY <1>1, <2>3 DEF S
<1> QED  BY <1>6, <1>7, <1>8 DEF L

\* erase_all_copy(), character by character.
LEMMA StrippedLoop ==
  ASSUME NEW C, NEW text \in Seq(C)
  PROVE  \E f : /\ f[0] = <<>>
                /\ \A n \in 1 .. Len(text) : f[n] = Erased(f[n - 1], text[n])
                /\ \A n \in 0 .. Len(text) : f[n] \in Seq(C \ {Colon})
                /\ Stripped(text) = f[Len(text)]
<1> DEFINE L == Len(text)
           V == Seq(C \ {Colon})
           IsErased(f) == f = [n \in 0 .. L |-> IF n = 0 THEN <<>> ELSE Erased(f[n - 1], text[n])]
           step == [p \in V \X (1 .. L) |-> Erased(p[1], text[p[2]])]
           g == CHOOSE f : IsErased(f)
<1>1. L \in Nat /\ \A n \in 1 .. L : text[n] \in C  OBVIOUS
<1>2. \A v \in V, n \in 1 .. L : Erased(v, text[n]) \in V  BY <1>1 DEF Erased
<1>3. \A v \in V, n \in 1 .. L : step[<<v, n>>] = Erased(v, text[n]) /\ step[<<v, n>>] \in V
  <2> HIDE DEF V
  <2> QED  BY <1>2
<1>4. <<>> \in V  OBVIOUS
<1>5. PICK f : LoopOf(f, V, <<>>, step, L)
  <2> HIDE DEF L, V, step
  <2>1. \A v \in V, n \in 1 .. L : step[<<v, n>>] \in V  BY <1>3
  <2>2. L \in Nat  BY <1>1
  <2> QED  BY <1>4, <2>1, <2>2, Loop
<1>6. IsErased(f)
  <2>1. \A n \in 0 .. L : n # 0 => n \in 1 .. L /\ n - 1 \in 0 .. L
    <3> HIDE DEF V
    <3> QED  BY <1>1, <1>5
  <2>2. \A n \in 0 .. L : f[n] = IF n = 0 THEN <<>> ELSE Erased(f[n - 1], text[n])
    <3> HIDE DEF L, V, step
    <3> QED  BY <1>3, <1>5, <2>1 DEF LoopOf
  <2> HIDE DEF V
  <2>3. f \in [0 .. L -> V]  BY <1>5 DEF LoopOf
  <2> QED  BY <2>2, <2>3
<1>7. IsErased(g)
  <2> HIDE DEF IsErased
  <2> QED  BY <1>6
<1>8. Stripped(text) = g[L]  BY DEF Stripped
<1> HIDE DEF g, L, V
<1>9. g[0] = <<>> /\ \A n \in 1 .. L : g[n] = Erased(g[n - 1], text[n])  BY <1>1, <1>7
<1>10. \A n \in 0 .. L : g[n] \in V
  <2> DEFINE S == {n \in Nat : n <= L => g[n] \in V}
  <2>1. 0 \in S  BY <1>4, <1>9
  <2>2. ASSUME NEW n \in S PROVE n + 1 \in S
    <3> SUFFICES ASSUME n + 1 <= L PROVE g[n + 1] \in V
      OBVIOUS
    <3>1. n + 1 \in 1 .. L /\ (n + 1) - 1 = n /\ g[n] \in V  BY <1>1
    <3> QED  BY <1>1, <1>2, <1>9, <3>1
  <2> HIDE DEF S
  <2>3. \A n \in Nat : n \in S
    <3>1. S \subseteq Nat  BY DEF S
    <3> QED  BY <2>1, <2>2, <3>1, Induction
  <2> QED  BY <1>1, <2>3 DEF S
<1> QED  BY <1>8, <1>9, <1>10 DEF L, V
-----------------------------------------------------------------------------
(* Numbers, bytes and digits *)

LEMMA ByteShape ==
  ASSUME NEW m \in Nat, NEW i \in 1 .. N
  PROVE  /\ N - i \in 0 .. N /\ m \div Place[N - i] \in Nat
         /\ ByteOf(m, i) \in 0 .. B - 1
         /\ ByteOf(m, i) \div D \in Digits /\ ByteOf(m, i) % D \in Digits
         /\ ByteOf(m, i) = (ByteOf(m, i) \div D) * D + (ByteOf(m, i) % D)
<1>1. N - i \in 0 .. N /\ Place[N - i] \in Nat \ {0}
  <2>1. N - i \in 0 .. N  BY Base
  <2> QED  BY <2>1, Places
<1>2. m \div Place[N - i] \in Nat  BY <1>1, Euclid
<1>3. ByteOf(m, i) \in 0 .. B - 1  BY <1>2, Base, Euclid DEF ByteOf
<1> DEFINE b == ByteOf(m, i)
<1> HIDE DEF b
<1>4. b \in 0 .. D * D - 1  BY <1>3 DEF b, B
<1>5. D \in Nat \ {0} /\ b \in Nat
  <2>1. D * D \in Nat  BY Base
  <2> QED  BY <1>4, <2>1, Base
<1>6. b \div D \in Nat /\ b % D \in 0 .. D - 1 /\ b = (b \div D) * D + (b % D)
  BY <1>5, Euclid
<1>7. b \div D < D
  <2> DEFINE q == b \div D
             r == b % D
  <2>1. q \in Nat /\ r \in Nat /\ b = q * D + r  BY <1>5, <1>6
  <2> HIDE DEF q, r
  <2>2. ASSUME q >= D PROVE FALSE
    <3>1. q * D >= D * D  BY <1>5, <2>1, <2>2
    <3>2. q * D \in Nat /\ D * D \in Nat  BY <1>5, <2>1
    <3> QED  BY <1>4, <2>1, <3>1, <3>2
  <2>3. q < D  BY <1>5, <2>1, <2>2
  <2> QED  BY <2>3 DEF q
<1>8. b \div D \in Digits /\ b % D \in Digits  BY <1>5, <1>6, <1>7 DEF Digits
<1> QED  BY <1>1, <1>2, <1>3, <1>6, <1>8 DEF b

LEMMA BytesShape ==
  ASSUME NEW bytes \in Bytes
  PROVE  /\ bytes \in Seq(Nat) /\ Len(bytes) = N /\ bytes \in Seq(0 .. B - 1)
         /\ \A i \in 1 .. N : bytes[i] \in 0 .. B - 1
<1>1. bytes \in [1 .. N -> 0 .. B - 1] /\ N \in Nat /\ B \in Nat  BY Base DEF Bytes
<1>2. bytes \in [1 .. N -> Nat]  BY <1>1
<1> QED  BY <1>1, <1>2

\* The number that bytes make has those bytes.
LEMMA ReadBytes ==
  ASSUME NEW bytes \in Bytes
  PROVE  /\ OfBytes(bytes) \in 0 .. Place[N] - 1
         /\ GetBytes(OfBytes(bytes)) = bytes
<1> DEFINE m == OfBytes(bytes)
<1>1. /\ bytes \in Seq(Nat) /\ Len(bytes) = N /\ N \in Nat \ {0} /\ B \in Nat \ {0}
      /\ \A i \in 1 .. N : bytes[i] \in 0 .. B - 1
  BY BytesShape, Base
<1>2. PICK f : /\ f[0] = 0 /\ \A n \in 1 .. N : f[n] = f[n - 1] * B + bytes[n]
               /\ \A n \in 0 .. N : f[n] \in Nat
               /\ m = f[N]
  BY <1>1, NumberLoop DEF OfBytes
<1> HIDE DEF m
<1>3. m \in Nat  BY <1>1, <1>2
<1>4. \A n \in 0 .. N : f[n] <= Place[n] - 1
  <2> DEFINE S == {n \in Nat : n <= N => f[n] <= Place[n] - 1}
  <2>1. 0 \in S  BY <1>2, Places
  <2>2. ASSUME NEW n \in S PROVE n + 1 \in S
    <3> SUFFICES ASSUME n + 1 <= N PROVE f[n + 1] <= Place[n + 1] - 1
      OBVIOUS
    <3>1. n \in 0 .. N /\ n + 1 \in 1 .. N /\ (n + 1) - 1 = n /\ f[n] <= Place[n] - 1
      BY <1>1
    <3>2. /\ f[n + 1] = f[n] * B + bytes[n + 1] /\ bytes[n + 1] \in 0 .. B - 1
          /\ f[n] \in Nat /\ Place[n] \in Nat \ {0} /\ Place[n + 1] = B * Place[n]
      BY <1>1, <1>2, <3>1, Places
    <3>3. f[n] * B + bytes[n + 1] <= B * Place[n] - 1  BY <1>1, <3>1, <3>2, NextPlace
    <3> QED  BY <3>2, <3>3
  <2> HIDE DEF S
  <2>3. \A n \in Nat : n \in S
    <3>1. S \subseteq Nat  BY DEF S
    <3> QED  BY <2>1, <2>2, <3>1, Induction
  <2> QED  BY <1>1, <2>3 DEF S
<1>5. \A k \in 0 .. N : f[N - k] = m \div Place[k]
  <2> DEFINE S == {k \in Nat : k <= N => f[N - k] = m \div Place[k]}
  <2>1. 0 \in S
    <3>1. N - 0 = N /\ Place[0] = 1 /\ m \div 1 = m  BY <1>1, <1>3, Places
    <3> QED  BY <1>2, <3>1
  <2>2. ASSUME NEW k \in S PROVE k + 1 \in S
    <3> SUFFICES ASSUME k + 1 <= N PROVE f[N - (k + 1)] = m \div Place[k + 1]
      OBVIOUS
    <3>1. /\ k \in 0 .. N /\ k + 1 \in 1 .. N /\ (k + 1) - 1 = k /\ N - k \in 1 .. N
          /\ (N - k) - 1 = N - (k + 1) /\ N - (k + 1) \in 0 .. N
          /\ f[N - k] = m \div Place[k]
      BY <1>1
    <3>2. f[N - k] = f[N - (k + 1)] * B + bytes[N - k]  BY <1>2, <3>1
    <3>3. f[N - (k + 1)] \in Nat /\ bytes[N - k] \in 0 .. B - 1  BY <1>1, <1>2, <3>1
    <3>4. f[N - k] \div B = f[N - (k + 1)]  BY <3>2, <3>3, LastByte
    <3>5. Place[k] \in Nat \ {0} /\ Place[k + 1] = B * Place[k]  BY <3>1, Places
    <3>6. m \div Place[k + 1] = (m \div Place[k]) \div B  BY <1>1, <1>3, <3>5, DivDiv
    <3> QED  BY <3>1, <3>4, <3>6
  <2> HIDE DEF S
  <2>3. \A n \in Nat : n \in S
    <3>1. S \subseteq Nat  BY DEF S
    <3> QED  BY <2>1, <2>2, <3>1, Induction
  <2> QED  BY <1>1, <2>3 DEF S
<1>6. ASSUME NEW i \in 1 .. N PROVE ByteOf(m, i) = bytes[i]
  <2>1. N - i \in 0 .. N /\ N - (N - i) = i /\ i - 1 \in 0 .. N  BY <1>1
  <2>2. m \div Place[N - i] = f[i]  BY <1>5, <2>1
  <2>3. f[i] = f[i - 1] * B + bytes[i] /\ f[i - 1] \in Nat /\ bytes[i] \in 0 .. B - 1
    BY <1>1, <1>2, <2>1
  <2>4. f[i] % B = bytes[i]  BY <2>3, LastByte
  <2> QED  BY <2>2, <2>4 DEF ByteOf
<1>7. GetBytes(m) = bytes
  <2>1. bytes \in [1 .. N -> 0 .. B - 1]  BY DEF Bytes
  <2> QED  BY <1>6, <2>1 DEF GetBytes
<1>8. m \in 0 .. Place[N] - 1
  <2>1. N \in 0 .. N /\ Place[N] \in Nat  BY <1>1, Places
  <2> QED  BY <1>2, <1>3, <1>4, <2>1
<1> QED  BY <1>7, <1>8 DEF m

\* A number is made of its own bytes.
LEMMA WrittenBytes ==
  ASSUME NEW m \in 0 .. Place[N] - 1
  PROVE  GetBytes(m) \in Bytes /\ OfBytes(GetBytes(m)) = m
<1> DEFINE bytes == GetBytes(m)
<1>1. N \in Nat \ {0} /\ B \in Nat \ {0} /\ Place[N] \in Nat \ {0} /\ m \in Nat /\ m < Place[N]
  <2>1. N \in Nat \ {0} /\ B \in Nat \ {0} /\ N \in 0 .. N  BY Base
  <2> QED  BY <2>1, Places
<1>2. \A i \in 1 .. N : bytes[i] = ByteOf(m, i) /\ ByteOf(m, i) \in 0 .. B - 1
  BY <1>1, ByteShape DEF GetBytes
<1>3. bytes \in Bytes  BY <1>1, ByteShape DEF GetBytes, Bytes
<1> HIDE DEF bytes
<1>4. bytes \in Seq(Nat) /\ Len(bytes) = N  BY <1>3, BytesShape
<1>5. PICK f : /\ f[0] = 0 /\ \A n \in 1 .. N : f[n] = f[n - 1] * B + bytes[n]
               /\ \A n \in 0 .. N : f[n] \in Nat
               /\ OfBytes(bytes) = f[N]
  BY <1>1, <1>4, NumberLoop DEF OfBytes
<1>6. \A n \in 0 .. N : f[n] = m \div Place[N - n]
  <2> DEFINE S == {n \in Nat : n <= N => f[n] = m \div Place[N - n]}
  <2>1. 0 \in S
    <3>1. m = 0 * Place[N] + m /\ m \in 0 .. Place[N] - 1  BY <1>1
    <3>2. m \div Place[N] = 0  BY <1>1, <3>1, Quotient
    <3>3. N - 0 = N  BY <1>1
    <3> QED  BY <1>5, <3>2, <3>3
  <2>2. ASSUME NEW n \in S PROVE n + 1 \in S
    <3> SUFFICES ASSUME n + 1 <= N PROVE f[n + 1] = m \div Place[N - (n + 1)]
      OBVIOUS
    <3> DEFINE j == N - (n + 1)
               q == m \div Place[j]
    <3>1. /\ n + 1 \in 1 .. N /\ (n + 1) - 1 = n /\ j \in 0 .. N /\ N - n \in 1 .. N
          /\ (N - n) - 1 = j /\ f[n] = m \div Place[N - n]
      BY <1>1
    <3> HIDE DEF j
    <3>2. Place[j] \in Nat \ {0} /\ Place[N - n] = B * Place[j]  BY <3>1, Places
    <3>3. f[n] = q \div B  BY <1>1, <3>1, <3>2, DivDiv
    <3>4. bytes[n + 1] = q % B  BY <1>2, <3>1 DEF ByteOf, j
    <3>5. q \in Nat  BY <1>1, <3>2, Euclid
    <3> HIDE DEF q
    <3>6. f[n + 1] = (q \div B) * B + (q % B)  BY <1>5, <3>1, <3>3, <3>4
    <3>7. f[n + 1] = q  BY <1>1, <3>5, <3>6, Euclid
    <3> QED  BY <3>7 DEF q, j
  <2> HIDE DEF S
  <2>3. \A n \in Nat : n \in S
    <3>1. S \subseteq Nat  BY DEF S
    <3> QED  BY <2>1, <2>2, <3>1, Induction
  <2> QED  BY <1>1, <2>3 DEF S
<1>7. f[N] = m
  <2>1. N \in 0 .. N /\ N - N = 0 /\ Place[0] = 1 /\ m \div 1 = m  BY <1>1, Places
  <2> QED  BY <1>6, <2>1
<1> QED  BY <1>3, <1>5, <1>7 DEF bytes
-----------------------------------------------------------------------------
(* Texts *)

\* The digits that a text of m has when its colons are erased: two of each byte.
DigitsOf(m) ==
  [k \in 1 .. 2 * N |->
     IF k % 2 = 1 THEN ByteOf(m, (k + 1) \div 2) \div D ELSE ByteOf(m, (k + 1) \div 2) % D]

LEMMA TwoDigits ==
  ASSUME NEW x \in 0 .. D - 1, NEW y \in 0 .. D - 1
  PROVE  x * D + y \in 0 .. B - 1
<1>1. D \in Nat \ {0} /\ x \in Nat /\ x <= D - 1  BY Base
<1>2. x * D + y <= D * D - 1  BY <1>1, NextPlace
<1>3. x * D \in Nat /\ D * D \in Nat  BY <1>1
<1> QED  BY <1>1, <1>2, <1>3 DEF B

LEMMA Doubled ==
  ASSUME NEW n \in Nat, NEW last \in Nat, n + 1 <= last
  PROVE  /\ n \in 0 .. last /\ n + 1 \in 1 .. last /\ (n + 1) - 1 = n
         /\ 2 * (n + 1) \in 1 .. 2 * last /\ 2 * (n + 1) - 1 \in 1 .. 2 * last
         /\ (2 * (n + 1) - 1) - 1 = 2 * n
OBVIOUS

\* Two digits to the base D are a byte.
LEMMA Paired ==
  ASSUME NEW v \in [1 .. 2 * N -> Digits], NEW bytes \in [1 .. N -> Nat],
         \A i \in 1 .. N : bytes[i] = v[2 * i - 1] * D + v[2 * i]
  PROVE  bytes \in Bytes /\ Number(v, D) = OfBytes(bytes)
<1>1. D \in Nat \ {0} /\ N \in Nat /\ B = D * D /\ B \in Nat /\ 2 * N \in Nat  BY Base DEF B
<1>2. \A k \in 1 .. 2 * N : v[k] \in 0 .. D - 1 /\ v[k] \in Nat  BY <1>1 DEF Digits
<1>3. \A i \in 1 .. N : 2 * i - 1 \in 1 .. 2 * N /\ 2 * i \in 1 .. 2 * N  BY <1>1
<1>4. \A i \in 1 .. N : bytes[i] = v[2 * i - 1] * D + v[2 * i]  OBVIOUS
<1>5. ASSUME NEW i \in 1 .. N PROVE bytes[i] \in 0 .. B - 1
  <2>1. v[2 * i - 1] \in 0 .. D - 1 /\ v[2 * i] \in 0 .. D - 1  BY <1>2, <1>3
  <2>2. v[2 * i - 1] * D + v[2 * i] \in 0 .. B - 1  BY <2>1, TwoDigits
  <2> QED  BY <1>4, <2>2
<1>6. bytes \in Bytes  BY <1>5 DEF Bytes
<1> DEFINE M == 2 * N
<1>7. v \in Seq(Nat) /\ Len(v) = M
  <2>1. v \in [1 .. M -> Nat] /\ M \in Nat  BY <1>1, <1>2
  <2> HIDE DEF M
  <2> QED  BY <2>1
<1>8. bytes \in Seq(Nat) /\ Len(bytes) = N  BY <1>6, BytesShape
<1>9. PICK f : /\ f[0] = 0 /\ \A n \in 1 .. M : f[n] = f[n - 1] * D + v[n]
               /\ \A n \in 0 .. M : f[n] \in Nat
               /\ Number(v, D) = f[M]
  <2>1. D \in Nat  BY <1>1
  <2> HIDE DEF M
  <2> QED  BY <1>7, <2>1, NumberLoop
<1>10. PICK g : /\ g[0] = 0 /\ \A n \in 1 .. N : g[n] = g[n - 1] * B + bytes[n]
                /\ \A n \in 0 .. N : g[n] \in Nat
                /\ OfBytes(bytes) = g[N]
  <2>1. B \in Nat  BY <1>1
  <2> QED  BY <1>8, <2>1, NumberLoop DEF OfBytes
<1>11. \A n \in 0 .. N : f[2 * n] = g[n]
  <2> DEFINE S == {n \in Nat : n <= N => f[2 * n] = g[n]}
  <2>1. 0 \in S  BY <1>9, <1>10
  <2>2. ASSUME NEW n \in S PROVE n + 1 \in S
    <3> SUFFICES ASSUME n + 1 <= N PROVE f[2 * (n + 1)] = g[n + 1]
      OBVIOUS
    <3>1. /\ n \in 0 .. N /\ n + 1 \in 1 .. N /\ (n + 1) - 1 = n /\ f[2 * n] = g[n]
          /\ 2 * (n + 1) \in 1 .. 2 * N /\ 2 * (n + 1) - 1 \in 1 .. 2 * N
          /\ (2 * (n + 1) - 1) - 1 = 2 * n
      <4>1. n \in Nat /\ N \in Nat  BY <1>1
      <4>2. n <= N  BY <4>1
      <4>3. f[2 * n] = g[n]  BY <4>2
      <4> QED  BY <4>1, <4>3, Doubled
    <3>2. f[2 * (n + 1)] = f[2 * (n + 1) - 1] * D + v[2 * (n + 1)]  BY <1>9, <3>1
    <3>3. f[2 * (n + 1) - 1] = g[n] * D + v[2 * (n + 1) - 1]  BY <1>9, <3>1
    <3>4. g[n + 1] = g[n] * B + (v[2 * (n + 1) - 1] * D + v[2 * (n + 1)])
      BY <1>4, <1>10, <3>1
    <3>5. ASSUME NEW x \in Nat, NEW y \in Nat, NEW z \in Nat
          PROVE  (x * D + y) * D + z = x * B + (y * D + z)
      <4>1. (x * D + y) * D = (x * D) * D + y * D  BY <1>1
      <4>2. (x * D) * D = x * B  BY <1>1
      <4>3. y * D \in Nat /\ x * B \in Nat  BY <1>1
      <4> QED  BY <4>1, <4>2, <4>3
    <3>6. g[n] \in Nat /\ v[2 * (n + 1) - 1] \in Nat /\ v[2 * (n + 1)] \in Nat
      BY <1>2, <1>10, <3>1
    <3> QED  BY <3>2, <3>3, <3>4, <3>5, <3>6
  <2> HIDE DEF S
  <2>3. \A n \in Nat : n \in S
    <3>1. S \subseteq Nat  BY DEF S
    <3> QED  BY <2>1, <2>2, <3>1, Induction
  <2> QED  BY <1>1, <2>3 DEF S
<1>12. f[2 * N] = g[N]  BY <1>1, <1>11
<1> QED  BY <1>6, <1>9, <1>10, <1>12

LEMMA DigitsShape ==
  ASSUME NEW m \in Nat
  PROVE  DigitsOf(m) \in [1 .. 2 * N -> Digits]
<1>1. \A k \in 1 .. 2 * N : (k + 1) \div 2 \in 1 .. N  BY Base
<1> QED  BY <1>1, ByteShape DEF DigitsOf

LEMMA TextShape ==
  ASSUME NEW m \in Nat
  PROVE  /\ ToText(m) \in [1 .. 3 * N - 1 -> Digits \cup {Colon}]
         /\ ToText(m) \in Seq(Digits \cup {Colon}) /\ Len(ToText(m)) = 3 * N - 1
         /\ ToText(m) # <<>>
         /\ \A k \in 1 .. 3 * N - 1 :
              /\ k % 3 = 1 => ToText(m)[k] = ByteOf(m, (k + 2) \div 3) \div D
              /\ k % 3 = 2 => ToText(m)[k] = ByteOf(m, (k + 2) \div 3) % D
              /\ k % 3 = 0 => ToText(m)[k] = Colon
<1>1. 3 * N - 1 \in Nat /\ 3 * N - 1 >= 2  BY Base
<1>2. \A k \in 1 .. 3 * N - 1 : (k + 2) \div 3 \in 1 .. N  BY Base
<1>3. ASSUME NEW k \in 1 .. 3 * N - 1
      PROVE  /\ k % 3 = 1 => ToText(m)[k] = ByteOf(m, (k + 2) \div 3) \div D
             /\ k % 3 = 2 => ToText(m)[k] = ByteOf(m, (k + 2) \div 3) % D
             /\ k % 3 = 0 => ToText(m)[k] = Colon
             /\ ToText(m)[k] \in Digits \cup {Colon}
  <2> DEFINE b == ByteOf(m, (k + 2) \div 3)
  <2>1. b \div D \in Digits /\ b % D \in Digits  BY <1>2, ByteShape
  <2>2. ToText(m)[k] = CASE k % 3 = 1 -> b \div D [] k % 3 = 2 -> b % D [] OTHER -> Colon
    BY DEF ToText
  <2> HIDE DEF b
  <2>3. k % 3 \in 0 .. 2  BY <1>1
  <2> QED  BY <2>1, <2>2, <2>3 DEF b
<1>4. ToText(m) \in [1 .. 3 * N - 1 -> Digits \cup {Colon}]
  <2>1. DOMAIN ToText(m) = 1 .. 3 * N - 1 /\ ToText(m) = [k \in DOMAIN ToText(m) |-> ToText(m)[k]]
    BY DEF ToText
  <2> QED  BY <1>3, <2>1
<1>5. ToText(m) \in Seq(Digits \cup {Colon}) /\ Len(ToText(m)) = 3 * N - 1  BY <1>1, <1>4
<1>6. ToText(m) # <<>>  BY <1>1, <1>5
<1> QED  BY <1>3, <1>4, <1>5, <1>6

\* Erasing the colons of a printed address leaves its digits.
LEMMA StrippedShown ==
  ASSUME NEW m \in Nat
  PROVE  Stripped(ToText(m)) = DigitsOf(m)
<1> DEFINE text == ToText(m)
           L == 3 * N - 1
           C == Digits \cup {Colon}
           digits == DigitsOf(m)
<1>1. N \in Nat \ {0} /\ L \in Nat /\ D \in Nat  BY Base
<1>2. text \in Seq(C) /\ Len(text) = L  BY TextShape
<1>3. PICK f : /\ f[0] = <<>>
               /\ \A n \in 1 .. L : f[n] = Erased(f[n - 1], text[n])
               /\ \A n \in 0 .. L : f[n] \in Seq(C \ {Colon})
               /\ Stripped(text) = f[L]
  <2> HIDE DEF text, L, C
  <2> QED  BY <1>2, StrippedLoop
<1>4. digits \in [1 .. 2 * N -> Digits]  BY DigitsShape
<1> DEFINE Left2(n) == n - (n \div 3)
<1>5. \A n \in 0 .. L : Len(f[n]) = Left2(n) /\ \A j \in 1 .. Left2(n) : f[n][j] = digits[j]
  <2> DEFINE S == {n \in Nat : n <= L =>
                     Len(f[n]) = Left2(n) /\ \A j \in 1 .. Left2(n) : f[n][j] = digits[j]}
  <2>1. 0 \in S
    <3>1. Len(f[0]) = 0 /\ Left2(0) = 0  BY <1>3
    <3> QED  BY <3>1
  <2>2. ASSUME NEW n \in S PROVE n + 1 \in S
    <3> SUFFICES ASSUME n + 1 <= L
                 PROVE  /\ Len(f[n + 1]) = Left2(n + 1)
                        /\ \A j \in 1 .. Left2(n + 1) : f[n + 1][j] = digits[j]
      OBVIOUS
    <3>1. /\ n \in 0 .. L /\ n + 1 \in 1 .. L /\ (n + 1) - 1 = n
          /\ Len(f[n]) = Left2(n) /\ Left2(n) \in Nat
          /\ \A j \in 1 .. Left2(n) : f[n][j] = digits[j]
      <4>1. /\ n \in Nat /\ Len(f[n]) = Left2(n)
            /\ \A j \in 1 .. Left2(n) : f[n][j] = digits[j]
        <5>1. n \in Nat /\ n <= L  BY <1>1
        <5> HIDE DEF Left2, digits, L
        <5> QED  BY <5>1
      <4>2. Left2(n) \in Nat  BY <4>1
      <4> HIDE DEF Left2, digits
      <4> QED  BY <1>1, <4>1, <4>2
    <3>2. f[n + 1] = Erased(f[n], text[n + 1]) /\ f[n] \in Seq(C \ {Colon})  BY <1>3, <3>1
    <3>3. CASE (n + 1) % 3 = 0
      <4>1. text[n + 1] = Colon  BY <3>1, <3>3, TextShape
      <4>2. f[n + 1] = f[n]  BY <3>2, <4>1 DEF Erased
      <4>3. Left2(n + 1) = Left2(n)  BY <3>3
      <4> QED  BY <3>1, <4>2, <4>3
    <3>4. CASE (n + 1) % 3 # 0
      <4>1. /\ Left2(n + 1) = Left2(n) + 1 /\ Left2(n + 1) \in 1 .. 2 * N
            /\ (Left2(n + 1) + 1) \div 2 = (n + 3) \div 3 /\ (n + 3) \div 3 \in 1 .. N
            /\ (n + 1) + 2 = n + 3
            /\ (n + 1) % 3 = 1 <=> Left2(n + 1) % 2 = 1
            /\ (n + 1) % 3 \in {1, 2}
        BY <1>1, <3>1, <3>4
      <4>2. text[n + 1] = digits[Left2(n + 1)]
        <5> DEFINE b == ByteOf(m, (n + 3) \div 3)
        <5>1. /\ (n + 1) % 3 = 1 => text[n + 1] = b \div D
              /\ (n + 1) % 3 = 2 => text[n + 1] = b % D
          BY <3>1, <4>1, TextShape
        <5>2. digits[Left2(n + 1)] = IF Left2(n + 1) % 2 = 1 THEN b \div D ELSE b % D
          BY <4>1 DEF DigitsOf
        <5> HIDE DEF b, text, digits, Left2
        <5> QED  BY <4>1, <5>1, <5>2
      <4>3. text[n + 1] # Colon /\ text[n + 1] \in C \ {Colon}
        BY <1>1, <1>4, <4>1, <4>2 DEF Digits, Colon
      <4>4. f[n + 1] = Append(f[n], text[n + 1])  BY <3>2, <4>3 DEF Erased
      <4>5. /\ Len(f[n + 1]) = Left2(n) + 1
            /\ \A j \in 1 .. Left2(n) : f[n + 1][j] = f[n][j]
            /\ f[n + 1][Left2(n) + 1] = text[n + 1]
        <5> HIDE DEF Left2, text, C
        <5> QED  BY <3>1, <3>2, <4>3, <4>4
      <4>6. \A j \in 1 .. Left2(n + 1) : j \in 1 .. Left2(n) \/ j = Left2(n) + 1
        <5> HIDE DEF Left2
        <5> QED  BY <3>1, <4>1
      <4> HIDE DEF Left2, text, digits
      <4> QED  BY <3>1, <4>1, <4>2, <4>5, <4>6
    <3> QED  BY <3>3, <3>4
  <2> HIDE DEF S
  <2>3. \A n \in Nat : n \in S
    <3>1. S \subseteq Nat  BY DEF S
    <3> QED  BY <2>1, <2>2, <3>1, Induction
  <2> HIDE DEF L, Left2, digits
  <2> QED  BY <1>1, <2>3 DEF S
<1>6. L \in 0 .. L /\ Left2(L) = 2 * N  BY <1>1
<1>7. f[L] \in Seq(C \ {Colon}) /\ Len(f[L]) = 2 * N /\ \A j \in 1 .. 2 * N : f[L][j] = digits[j]
  <2> HIDE DEF L, Left2, digits, C
  <2> QED  BY <1>3, <1>5, <1>6
<1>8. f[L] = digits
  <2>1. DOMAIN f[L] = 1 .. 2 * N /\ f[L] = [j \in 1 .. 2 * N |-> f[L][j]]
    <3> HIDE DEF L, C, digits
    <3> QED  BY <1>7
  <2> HIDE DEF L, C, digits
  <2> QED  BY <1>4, <1>7, <2>1
<1> QED  BY <1>3, <1>8

\* The number that a valid text denotes has the text's digits.
LEMMA ReadText ==
  ASSUME NEW text \in Texts, Valid(text)
  PROVE  /\ OfText(text) \in 0 .. Place[N] - 1
         /\ DigitsOf(OfText(text)) = [k \in DOMAIN Stripped(text) |-> ValueOf(Stripped(text)[k])]
<1> DEFINE s == Stripped(text)
           v == [k \in DOMAIN s |-> ValueOf(s[k])]
           M == 2 * N
           C == Digits \cup Lower \cup {Colon, Other}
<1>1. N \in Nat \ {0} /\ M \in Nat /\ D \in Nat \ {0}  BY Base
<1>2. text \in Seq(C)
  <2>1. PICK n \in 0 .. MaxText : text \in [1 .. n -> C]  BY DEF Texts
  <2>2. n \in Nat  BY MacAddressAssumption
  <2> HIDE DEF C
  <2> QED  BY <2>1, <2>2
<1>3. s \in Seq(C \ {Colon})
  <2>1. Len(text) \in 0 .. Len(text)
    <3> HIDE DEF C
    <3> QED  BY <1>2
  <2> HIDE DEF C
  <2> QED  BY <1>2, <2>1, StrippedLoop
<1>4. Len(s) = M /\ ToSet(s) \subseteq Digits \cup Lower
  BY DEF Valid, RightLength
<1>5. DOMAIN s = 1 .. M
  <2> HIDE DEF s, C, M
  <2> QED  BY <1>3, <1>4
<1>6. \A k \in 1 .. M : s[k] \in Digits \cup Lower
  <2> HIDE DEF s, M
  <2> QED  BY <1>4, <1>5 DEF ToSet
<1>7. \A c \in Digits \cup Lower : ValueOf(c) \in Digits
  <2>1. \A d \in Letters : d \in 0 .. D - 1 /\ (D + d) - D = d
    BY MacAddressAssumption
  <2> QED  BY <1>1, <2>1 DEF ValueOf, Lower, Digits
<1>8. v \in [1 .. M -> Digits] /\ v = [k \in DOMAIN s |-> ValueOf(s[k])]
  <2> HIDE DEF s, M
  <2> QED  BY <1>5, <1>6, <1>7
<1>9. OfText(text) = Number(v, D)  BY DEF OfText
<1> HIDE DEF s, v
<1> DEFINE bytes == [i \in 1 .. N |-> v[2 * i - 1] * D + v[2 * i]]
<1>10. ASSUME NEW i \in 1 .. N
       PROVE  /\ 2 * i - 1 \in 1 .. M /\ 2 * i \in 1 .. M
              /\ v[2 * i - 1] \in 0 .. D - 1 /\ v[2 * i] \in 0 .. D - 1
              /\ v[2 * i - 1] * D + v[2 * i] \in Nat
  <2>1. 2 * i - 1 \in 1 .. M /\ 2 * i \in 1 .. M  BY <1>1
  <2>2. v[2 * i - 1] \in 0 .. D - 1 /\ v[2 * i] \in 0 .. D - 1  BY <1>8, <2>1 DEF Digits
  <2>3. v[2 * i - 1] * D + v[2 * i] \in Nat
    <3>1. v[2 * i - 1] * D + v[2 * i] \in 0 .. B - 1  BY <2>2, TwoDigits
    <3> QED  BY <3>1
  <2> QED  BY <2>1, <2>2, <2>3
<1>11. /\ bytes \in [1 .. N -> Nat]
       /\ \A i \in 1 .. N : bytes[i] = v[2 * i - 1] * D + v[2 * i]
  BY <1>10
<1> HIDE DEF bytes
<1>12. bytes \in Bytes /\ OfText(text) = OfBytes(bytes)  BY <1>8, <1>9, <1>11, Paired
<1> DEFINE m == OfText(text)
<1>13. m \in 0 .. Place[N] - 1 /\ GetBytes(m) = bytes  BY <1>12, ReadBytes
<1> HIDE DEF m
<1>14. m \in Nat
  <2>1. Place[N] \in Nat  BY <1>1, Places
  <2> QED  BY <1>13, <2>1
<1>15. ASSUME NEW k \in 1 .. M
       PROVE  DigitsOf(m)[k] = v[k]
  <2> DEFINE i == (k + 1) \div 2
  <2>1. /\ i \in 1 .. N
        /\ k % 2 = 1 => k = 2 * i - 1
        /\ k % 2 # 1 => k = 2 * i
    BY <1>1
  <2>2. DigitsOf(m)[k] = IF k % 2 = 1 THEN ByteOf(m, i) \div D ELSE ByteOf(m, i) % D
    BY DEF DigitsOf
  <2> HIDE DEF i
  <2>3. ByteOf(m, i) = v[2 * i - 1] * D + v[2 * i]
    BY <1>11, <1>13, <2>1 DEF GetBytes
  <2>4. v[2 * i - 1] \in 0 .. D - 1 /\ v[2 * i] \in 0 .. D - 1  BY <1>10, <2>1
  <2>5. ByteOf(m, i) \div D = v[2 * i - 1] /\ ByteOf(m, i) % D = v[2 * i]
    <3>1. ASSUME NEW x \in 0 .. D - 1, NEW y \in 0 .. D - 1
          PROVE  (x * D + y) \div D = x /\ (x * D + y) % D = y
      BY <1>1, Quotient
    <3> QED  BY <2>3, <2>4, <3>1
  <2> QED  BY <2>1, <2>2, <2>5
<1>16. DigitsOf(m) = v
  <2>1. DigitsOf(m) \in [1 .. M -> Digits]  BY <1>14, DigitsShape
  <2> HIDE DEF M
  <2> QED  BY <1>8, <1>15, <2>1
<1> QED  BY <1>8, <1>13, <1>16 DEF s, m

\* What is printed is a valid text of the same number.
LEMMA ReadShown ==
  ASSUME NEW m \in 0 .. Place[N] - 1
  PROVE  Valid(ToText(m)) /\ OfText(ToText(m)) = m
<1> DEFINE s == DigitsOf(m)
           M == 2 * N
           bytes == GetBytes(m)
<1>1. N \in Nat \ {0} /\ M \in Nat /\ D \in Nat \ {0} /\ m \in Nat
  <2>1. N \in 0 .. N  BY Base
  <2> QED  BY <2>1, Base, Places
<1>2. Stripped(ToText(m)) = s  BY <1>1, StrippedShown
<1>3. s \in [1 .. M -> Digits]  BY <1>1, DigitsShape
<1>4. \A k \in 1 .. M : s[k] = IF k % 2 = 1 THEN ByteOf(m, (k + 1) \div 2) \div D
                               ELSE ByteOf(m, (k + 1) \div 2) % D
  BY DEF DigitsOf
<1> HIDE DEF s
<1>5. Len(s) = M /\ DOMAIN s = 1 .. M
  <2> HIDE DEF M
  <2> QED  BY <1>1, <1>3
<1>6. Valid(ToText(m))
  <2>1. ToSet(s) \subseteq Digits  BY <1>3, <1>5 DEF ToSet
  <2> QED  BY <1>2, <1>5, <2>1 DEF Valid, RightLength
<1>7. [k \in DOMAIN s |-> ValueOf(s[k])] = s
  <2>1. \A d \in Digits : d \notin Lower
    BY <1>1, MacAddressAssumption DEF Digits, Lower
  <2>2. \A k \in 1 .. M : ValueOf(s[k]) = s[k]  BY <1>3, <2>1 DEF ValueOf
  <2> HIDE DEF M
  <2> QED  BY <1>3, <1>5, <2>2
<1>8. OfText(ToText(m)) = Number(s, D)  BY <1>2, <1>7 DEF OfText
<1>9. bytes \in Bytes /\ OfBytes(bytes) = m  BY WrittenBytes
<1>10. ASSUME NEW i \in 1 .. N PROVE bytes[i] = s[2 * i - 1] * D + s[2 * i]
  <2>1. /\ 2 * i - 1 \in 1 .. M /\ (2 * i - 1) % 2 = 1 /\ ((2 * i - 1) + 1) \div 2 = i
        /\ 2 * i \in 1 .. M /\ (2 * i) % 2 # 1 /\ (2 * i + 1) \div 2 = i
    BY <1>1
  <2>2. s[2 * i - 1] = ByteOf(m, i) \div D /\ s[2 * i] = ByteOf(m, i) % D  BY <1>4, <2>1
  <2>3. bytes[i] = ByteOf(m, i)  BY DEF GetBytes
  <2>4. ByteOf(m, i) = (ByteOf(m, i) \div D) * D + (ByteOf(m, i) % D)  BY <1>1, ByteShape
  <2> QED  BY <2>2, <2>3, <2>4
<1> HIDE DEF bytes
<1>11. bytes \in [1 .. N -> Nat]
  <2>1. bytes \in [1 .. N -> 0 .. B - 1] /\ B \in Nat  BY <1>9, Base DEF Bytes
  <2> QED  BY <2>1
<1>12. Number(s, D) = OfBytes(bytes)  BY <1>3, <1>10, <1>11, Paired
<1> QED  BY <1>6, <1>8, <1>9, <1>12
-----------------------------------------------------------------------------
(* The invariant and the theorems *)

\* An object has the value of what it was built from, and a text of it is that
\* of its value.
MacInv ==
  /\ TypeOK
  /\ from = "text" /\ mac >= 0 => given \in Texts /\ Valid(given) /\ mac = OfText(given)
  /\ from \in {"bytes", "attribute"} =>
       \E bytes \in Bytes, len \in 1 .. N : mac = OfBytes(bytes) /\ given = SubSeq(bytes, 1, len)
  /\ shown # <<>> => mac >= 0 /\ shown = ToText(mac)

LEMMA MacSteps ==
  ASSUME MacInv, [Next]_vars
  PROVE  MacInv'
<1>1. /\ TypeOK /\ N \in Nat \ {0} /\ Place[N] \in Nat \ {0}
      /\ shown # <<>> => mac >= 0 /\ shown = ToText(mac)
  <2>1. N \in Nat \ {0} /\ N \in 0 .. N  BY Base
  <2> QED  BY <2>1, Places DEF MacInv
<1>3. CASE FromText
  <2>1. PICK text \in Texts :
          /\ from' = "text" /\ given' = text /\ shown' = <<>>
          /\ mac' = IF Valid(text) THEN OfText(text) ELSE -1
    BY <1>3 DEF FromText, Build
  <2>2. \/ mac' = -1
        \/ Valid(text) /\ mac' = OfText(text) /\ mac' \in 0 .. Place[N] - 1
    <3>1. CASE Valid(text)
      <4>1. OfText(text) \in 0 .. Place[N] - 1  BY <3>1, ReadText
      <4> QED  BY <2>1, <3>1, <4>1
    <3>2. CASE ~ Valid(text)
      <4>1. mac' = -1  BY <2>1, <3>2, Zenon
      <4> QED  BY <4>1
    <3> QED  BY <3>1, <3>2
  <2>3. shown' = <<>>  BY <2>1
  <2>4. TypeOK'  BY <1>1, <2>1, <2>2, <2>3 DEF TypeOK
  <2>5. mac' >= 0 => given' \in Texts /\ Valid(given)' /\ mac' = OfText(given)'
    BY <2>1, <2>2
  <2> QED  BY <2>1, <2>3, <2>4, <2>5 DEF MacInv
<1>4. CASE FromBytes
  <2>1. PICK bytes \in Bytes :
          from' = "bytes" /\ given' = bytes /\ mac' = OfBytes(bytes) /\ shown' = <<>>
    BY <1>4 DEF FromBytes, Build
  <2>2. mac' \in 0 .. Place[N] - 1  BY <2>1, ReadBytes
  <2>3. shown' = <<>>  BY <2>1
  <2>4. TypeOK'  BY <1>1, <2>1, <2>2, <2>3 DEF TypeOK
  <2>5. N \in 1 .. N /\ SubSeq(bytes, 1, N) = bytes
    <3>1. bytes \in Seq(Nat) /\ Len(bytes) = N  BY BytesShape
    <3> QED  BY <1>1, <3>1
  <2> QED  BY <2>1, <2>3, <2>4, <2>5 DEF MacInv
<1>5. CASE FromAttribute
  <2>1. PICK bytes \in Bytes, behind \in Bytes, len \in 1 .. N :
          /\ from' = "attribute" /\ given' = SubSeq(bytes, 1, len) /\ shown' = <<>>
          /\ mac' = OfBytes(Read(SubSeq(bytes, 1, len), behind))
    BY <1>5 DEF FromAttribute, Build
  <2> DEFINE payload == SubSeq(bytes, 1, len)
             read == Read(payload, behind)
  <2>2. /\ bytes \in Seq(0 .. B - 1) /\ Len(bytes) = N
        /\ \A i \in 1 .. N : bytes[i] \in 0 .. B - 1 /\ behind[i] \in 0 .. B - 1
    BY BytesShape
  <2>3. payload \in Seq(0 .. B - 1) /\ Len(payload) = len /\ \A i \in 1 .. len : payload[i] = bytes[i]
    BY <1>1, <2>2
  <2> HIDE DEF payload
  <2>4. read \in Bytes /\ \A i \in 1 .. len : read[i] = payload[i]
    BY <1>1, <2>2, <2>3 DEF Read, Bytes
  <2> HIDE DEF read
  <2>5. SubSeq(read, 1, len) = payload
    <3> DEFINE V == 0 .. B - 1
    <3>1. read \in Seq(V) /\ Len(read) = N  BY <2>4, BytesShape
    <3> HIDE DEF V
    <3>2. /\ SubSeq(read, 1, len) \in Seq(V) /\ Len(SubSeq(read, 1, len)) = len
          /\ \A i \in 1 .. len : SubSeq(read, 1, len)[i] = read[i]
      BY <1>1, <3>1
    <3>3. payload \in Seq(V)  BY <2>3 DEF V
    <3> QED  BY <2>3, <2>4, <3>2, <3>3
  <2>6. mac' = OfBytes(read) /\ given' = payload  BY <2>1 DEF read, payload
  <2>7. mac' \in 0 .. Place[N] - 1  BY <2>4, <2>6, ReadBytes
  <2>8. shown' = <<>>  BY <2>1
  <2>9. TypeOK'  BY <1>1, <2>1, <2>7, <2>8 DEF TypeOK
  <2>10. \E b \in Bytes, l \in 1 .. N : mac' = OfBytes(b) /\ given' = SubSeq(b, 1, l)
    BY <2>4, <2>5, <2>6
  <2> QED  BY <2>1, <2>8, <2>9, <2>10 DEF MacInv
<1>6. CASE Show
  <2>1. /\ mac >= 0 /\ shown' = ToText(mac) /\ UNCHANGED <<from, given, mac>>
    BY <1>6 DEF Show
  <2>2. mac \in Nat  BY <1>1, <2>1 DEF TypeOK
  <2>3. shown' \in [1 .. 3 * N - 1 -> Digits \cup {Colon}]  BY <2>1, <2>2, TextShape
  <2>4. TypeOK'  BY <1>1, <2>1, <2>3 DEF TypeOK
  <2> QED  BY <2>1, <2>4 DEF MacInv
<1>7. CASE UNCHANGED vars
  BY <1>7 DEF vars, MacInv, TypeOK
<1> QED  BY <1>3, <1>4, <1>5, <1>6, <1>7 DEF Next

LEMMA MacInvariant == Spec => []MacInv
<1>1. Init => MacInv
  <2>1. N \in 0 .. N /\ Place[N] \in Nat \ {0}
    <3>1. N \in 0 .. N  BY Base
    <3> QED  BY <3>1, Places
  <2> QED  BY <2>1 DEF Init, MacInv, TypeOK
<1> QED  BY <1>1, MacSteps, PTL DEF Spec

\* Every object that a constructor leaves has a value of IFHWADDRLEN bytes, and
\* its text has their length.
THEOREM MacTypes == Spec => []TypeOK
<1>1. MacInv => TypeOK  BY DEF MacInv
<1> QED  BY <1>1, MacInvariant, PTL

\* to_string() of an address that was read from a text shows the text's digits,
\* in order, whatever its letters' case and wherever its colons were.
THEOREM PrintedAsRead == Spec => []PrintsWhatWasRead
<1>1. ASSUME MacInv, from = "text", shown # <<>>
      PROVE  Stripped(shown) = [k \in DOMAIN Stripped(given) |-> ValueOf(Stripped(given)[k])]
  <2>1. mac >= 0 /\ mac \in Nat /\ shown = ToText(mac)  BY <1>1 DEF MacInv, TypeOK
  <2>2. given \in Texts /\ Valid(given) /\ mac = OfText(given)  BY <1>1, <2>1 DEF MacInv
  <2>3. Stripped(shown) = DigitsOf(mac)  BY <2>1, StrippedShown
  <2> QED  BY <2>2, <2>3, ReadText
<1>2. MacInv => PrintsWhatWasRead  BY <1>1 DEF PrintsWhatWasRead
<1> QED  BY <1>2, MacInvariant, PTL

\* The constructors take back what to_string() and get_bytes() give.
THEOREM ReadAgain == Spec => []RoundTrip
<1>1. ASSUME MacInv, shown # <<>>
      PROVE  /\ Valid(shown) /\ OfText(shown) = mac
             /\ OfBytes(GetBytes(mac)) = mac
             /\ EqualsText(mac, shown)
  <2>1. mac >= 0 /\ mac \in 0 .. Place[N] - 1 /\ shown = ToText(mac)
    <3>1. mac >= 0 /\ mac \in -1 .. Place[N] - 1 /\ shown = ToText(mac)
      BY <1>1 DEF MacInv, TypeOK
    <3> QED  BY <3>1
  <2> QED  BY <2>1, ReadShown, WrittenBytes DEF EqualsText
<1>2. MacInv => RoundTrip  BY <1>1 DEF RoundTrip
<1> QED  BY <1>2, MacInvariant, PTL

\* get_bytes() of an object gives the bytes that it was built from; of an
\* attribute that is too short, those that it had.
THEOREM GivenBytesKept == Spec => []BytesKept
<1>1. ASSUME MacInv, from \in {"bytes", "attribute"}
      PROVE  SubSeq(GetBytes(mac), 1, Len(given)) = given
  <2>1. PICK bytes \in Bytes, len \in 1 .. N : mac = OfBytes(bytes) /\ given = SubSeq(bytes, 1, len)
    BY <1>1 DEF MacInv
  <2>2. GetBytes(mac) = bytes  BY <2>1, ReadBytes
  <2>3. bytes \in Seq(Nat) /\ Len(bytes) = N  BY BytesShape
  <2>4. Len(given) = len  BY <2>1, <2>3, Base
  <2> QED  BY <2>1, <2>2, <2>4
<1>2. MacInv => BytesKept  BY <1>1 DEF BytesKept
<1> QED  BY <1>2, MacInvariant, PTL
=============================================================================
