------------------------------ MODULE IpAddress ------------------------------
(***************************************************************************)
(* ip_address.cpp: the value type of the library.  A value is an address,  *)
(* a prefix length and a scope; the address itself (boost's class) is a    *)
(* model value, for all the code asks of it is its family and whether it   *)
(* is a loopback address.                                                  *)
(***************************************************************************)
EXTENDS Integers

CONSTANTS V4, V6,      \* the addresses of the two families
          Loopbacks    \* those for which is_loopback() holds

ASSUME IpAddressAssumption ==
  /\ V4 \cap V6 = {}
  /\ Loopbacks \subseteq V4 \cup V6

Raw == V4 \cup V6
IsV4(a) == a.raw \in V4
IsV6(a) == a.raw \in V6

\* A value without a prefix length has not got the scope of its address either.
ScopeOf(raw) == IF raw \in Loopbacks THEN "host" ELSE "global"
IpAddr ==
  {a \in [raw : Raw, prefix : Nat \cup {-1}, scope : {"global", "host"}] :
     a.scope = IF a.prefix >= 0 THEN ScopeOf(a.raw) ELSE "global"}

DefaultPrefix(raw) == IF raw \in V4 THEN 32 ELSE 64

\* ip_address(const std::string&, int): the other constructors with a prefix
\* end here.  A text that is no address makes no value: the constructor throws
\* illegal_argument, for which neither the literals of main.cpp nor what
\* inet_ntop() writes gives it a reason.
FromString(raw, prefix) ==
  [raw |-> raw,
   prefix |-> IF prefix < 0 THEN DefaultPrefix(raw) ELSE prefix,
   scope |-> ScopeOf(raw)]

\* The constructors inherited from boost, which build LOOPBACK, ANY and the
\* other constants: the members keep their initial values.
FromBoost(raw) == [raw |-> raw, prefix |-> -1, scope |-> "global"]

WithoutPrefix(a) == FromString(a.raw, -1)

\* to_string(): the address, and its prefix length where that is not implied.
Unshown(a) == IsV4(a)      \* mutant: the default of IPv4 hides every prefix length
Implied(a) == IsV4(a) /\ a.prefix = 32
Text(a) ==
  [raw |-> a.raw, plen |-> IF a.prefix > 0 /\ ~ Implied(a) THEN a.prefix ELSE -1]
=============================================================================
