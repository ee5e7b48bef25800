----------------------------- MODULE MacAddress -----------------------------
(***************************************************************************)
(* mac_address.cpp: a hardware address, built from text, from bytes or     *)
(* from an attribute of a netlink message, printed and compared.  A text   *)
(* is a sequence of characters: a digit stands for itself, or D more if it *)
(* is a lower-case letter.                                                 *)
(*                                                                         *)
(* operator!= is left out: it calls itself and never returns.              *)
(***************************************************************************)
EXTENDS Integers, SequencesExt

CONSTANTS D,          \* digits: 16
          Letters,    \* those that are letters: 10 to 15
          N,          \* IFHWADDRLEN: 6 bytes
          MaxText     \* bound: length of the texts

ASSUME MacAddressAssumption ==
  /\ D \in Nat \ {0, 1} /\ N \in Nat \ {0}
  /\ Letters \subseteq 0 .. D - 1
  /\ MaxText \in Nat

B == D * D
Bytes == [1 .. N -> 0 .. B - 1]

Colon == -1
Other == -2
Digits == 0 .. D - 1
Lower == {D + d : d \in Letters}
ValueOf(c) == IF c \in Lower THEN c - D ELSE c
Texts == UNION {[1 .. n -> Digits \cup Lower \cup {Colon, Other}] : n \in 0 .. MaxText}

VARIABLES
  from,    \* what the object was built from: "nothing" (the default constructor),
           \* "text", "bytes" or "attribute"
  given,   \* the text, bytes or payload
  mac,     \* address_, or -1: no object, the constructor threw
  shown    \* what to_string() returned, or <<>>

vars == <<from, given, mac, shown>>
-----------------------------------------------------------------------------
Little(digits, base) == FoldRight(LAMBDA d, acc : acc * base + d, digits, 0)    \* mutant
Number(digits, base) ==
  LET upTo[n \in 0 .. Len(digits)] == IF n = 0 THEN 0 ELSE upTo[n - 1] * base + digits[n]
  IN upTo[Len(digits)]

\* mac_address(uint8_t*)
OfBytes(bytes) == Number(bytes, B)

\* mac_address(const std::string&): the colons go, wherever they are.
Erased(mac12, c) == IF c = Colon THEN mac12 ELSE Append(mac12, c)
Stripped(text) ==
  LET upTo[n \in 0 .. Len(text)] == IF n = 0 THEN <<>> ELSE Erased(upTo[n - 1], text[n])
  IN upTo[Len(text)]
LongEnough(mac12) == Len(mac12) >= 2 * N      \* mutant
RightLength(mac12) == Len(mac12) = 2 * N
Valid(text) ==
  /\ RightLength(Stripped(text))
  /\ ToSet(Stripped(text)) \subseteq Digits \cup Lower
OfText(text) ==
  LET mac12 == Stripped(text)
  IN Number([k \in DOMAIN mac12 |-> ValueOf(mac12[k])], D)

\* get_bytes(): what lies n bytes from the right is worth Place[n].
Place[n \in 0 .. N] == IF n = 0 THEN 1 ELSE B * Place[n - 1]
ByteOf(m, i) == (m \div Place[N - i]) % B
GetBytes(m) == [i \in 1 .. N |-> ByteOf(m, i)]

\* to_string(): two upper-case digits of each byte, colons between them.
ToText(m) ==
  [k \in 1 .. 3 * N - 1 |->
     LET byte == ByteOf(m, (k + 2) \div 3)
     IN CASE k % 3 = 1 -> byte \div D [] k % 3 = 2 -> byte % D [] OTHER -> Colon]

\* operator==(const std::string&), which is false of any other spelling.
EqualsText(m, text) == ToText(m) = text
-----------------------------------------------------------------------------
Init == from = "nothing" /\ given = <<>> /\ mac = 0 /\ shown = <<>>

\* A new object, which may be assigned to the default one; nothing has been
\* printed of it.
Build(kind, data, value) ==
  from' = kind /\ given' = data /\ mac' = value /\ shown' = <<>>

FromText ==
  /\ from = "nothing"
  /\ \E text \in Texts : Build("text", text, IF Valid(text) THEN OfText(text) ELSE -1)

FromBytes ==
  /\ from = "nothing"
  /\ \E bytes \in Bytes : Build("bytes", bytes, OfBytes(bytes))

\* get_mac_address(): N bytes are read from where the payload of IFLA_ADDRESS
\* begins.  Behind a shorter one is what comes next in the message.
Read(payload, behind) == [i \in 1 .. N |-> IF i <= Len(payload) THEN payload[i] ELSE behind[i]]
FromAttribute ==
  /\ from = "nothing"
  /\ \E bytes, behind \in Bytes, len \in 1 .. N :
       LET payload == SubSeq(bytes, 1, len)
       IN Build("attribute", payload, OfBytes(Read(payload, behind)))

Show ==
  /\ mac >= 0 /\ shown = <<>>
  /\ shown' = ToText(mac)
  /\ UNCHANGED <<from, given, mac>>

Next == FromText \/ FromBytes \/ FromAttribute \/ Show

Spec == Init /\ [][Next]_vars
-----------------------------------------------------------------------------
(* Properties *)

\* An object has a value of N bytes.
TypeOK ==
  /\ from \in {"nothing", "text", "bytes", "attribute"}
  /\ mac \in -1 .. Place[N] - 1
  /\ shown = <<>> \/ shown \in [1 .. 3 * N - 1 -> Digits \cup {Colon}]

\* What is printed of an address says what was read, but for the case of its
\* letters and the places of its colons: no digit is lost, added or moved.
PrintsWhatWasRead ==
  from = "text" /\ shown # <<>> =>
    Stripped(shown) = [k \in DOMAIN Stripped(given) |-> ValueOf(Stripped(given)[k])]

\* An address that was printed is read again as the same, from its text as from
\* its bytes, and is equal to its own text.
RoundTrip ==
  shown # <<>> =>
    /\ Valid(shown) /\ OfText(shown) = mac
    /\ OfBytes(GetBytes(mac)) = mac
    /\ EqualsText(mac, shown)

\* The bytes of the object are those that were given, as far as they go.
BytesKept ==
  from \in {"bytes", "attribute"} => SubSeq(GetBytes(mac), 1, Len(given)) = given
=============================================================================
