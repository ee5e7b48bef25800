# FreeNetConfig: TLA+ models and proofs

FreeNetConfig (`fnc`) is a C++ library that reads and changes the configuration
of Linux network interfaces over rtnetlink, with a small command line program.
This directory models the library's behaviour in TLA+, model-checks it with TLC
and proves some of its properties with TLAPS.

## Inventory

| component | source | state | operations |
|---|---|---|---|
| netlink | `netlink.cpp`, `netlink.hpp` | `session_` (one counter for all threads); per object `pid_`, `nl_sock_`, `seq_` | constructor, `init_message`, `send_message_*`, `handle_response_async`, destructor |
| netiface | `netiface.cpp`, `netiface.hpp` | `name_` | `get_iface_names`, constructor, `get_name`, `get_index`, `get_mtu`, `set_mtu`, `get_mac_address`, `get_ip_addresses`, `set_ip_address`, `del_ip_address` |
| ip_address | `ip_address.cpp`, `ip_address.hpp` | an address, `prefix_`, `scope_` | constructors, `==`, `to_string`, `to_sockaddr*`, `without_prefix` |
| mac_address | `mac_address.cpp`, `mac_address.hpp` | 48 bits | constructors, conversions, comparison |
| retry_wait | `util/retry_wait.hpp` | none | `WaitFor`, `RetryFor` |
| exceptions | `exceptions.hpp` | a message | five classes, `what()`, the THROW macros |
| container_util | `util/container_util.hpp` | none | `contains`, `join` |
| program | `main.cpp` | none | a fixed sequence of calls and the handlers around it |
| logging, bitmask_operators, scope_exit, mac_helper, util | `logging.*`, `util/` | the logger | output, operators of an enumeration, unused helpers |
| vendored | `libs/` | | Catch2, CLI11, spdlog |

**How they interact.** Every query is one transaction: a `netlink` object on the
stack, one request, callbacks for the parts of the answer, destruction. A
`netiface` keeps a name only, so nearly every method first asks for the index
and then sends a request with that index. The methods that change something
keep their object while `WaitFor` polls the kernel with objects of its own, so
objects nest two deep. Threads share the session counter, the process's file
descriptors and the port space of netlink; callers of any process share the
kernel's tables with each other and with every other program.

**What is hard.** Ports that clash; a constructor that throws after `socket()`;
exceptions that unwind nested objects; answers in several datagrams, late or
never; requests whose effect is unknown because the answer was lost; a test, a
look-up and a request in three transactions while others add and delete
addresses or rename and remove links; values left uninitialized when an
interface is gone; polling with a time out. `PROJECT.json` lists each with its
line under "hazards".

**What makes each part correct.**

* netlink: sockets are neither lost (but by a constructor that throws) nor shared, an object never meets a port of
  its own thread, a result says the truth about the effect, no request blocks
  for ever, exceptions leave nothing behind.
* netiface: success means that the goal held; failure bounds what was done;
  only the named link is changed or reported; undisturbed calls are exactly
  right; every call ends.
* ip_address: an address built by the caller equals the one read back for the
  same prefix length, and addresses that differ print differently.
* mac_address: bytes, text and integer are the same address, and what is no
  address is refused.
* retry_wait: a time out is reported after the timeout and not before, the
  condition is tested at the pace asked for, and the loop ends.
* program: only a denied request outside the guarded call passes the handlers by, every
  run ends, and a run after a failed or killed one gets further.

## Modules

| module | what it is |
|---|---|
| `Transaction` | abstract specification of one netlink object's promise |
| `Netlink` | `netlink.cpp`: the objects of all threads, descriptors, ports, datagrams, exceptions |
| `NetlinkProofs` | type correctness, the safety invariants and their inductive strengthening, proved |
| `NetlinkRefinement` | proof that `Netlink` implements `Transaction` |
| `MCNetlink` | values for TLC |
| `IpAddress` | the value type, as records over model values |
| `Rtnl` | external: what the kernel answers and does |
| `NetIface` | `netiface.cpp`: all methods, several callers, other programs |
| `NetIfaceDocs` | statements of the documentation that the code does not keep |
| `IfaceApi` | abstract specification: what a call promises, whoever else is at work |
| `NetIfaceProofs` | the inductive invariant of `NetIface`, its safety and action properties and the refinement of `IfaceApi`, proved |
| `NetIfaceQuietProofs` | the proof that the answer to an undisturbed call is right |
| `MCNetIface` | values for TLC |
| `AddrDump`, `MCAddrDump` | `get_ip_addresses_impl` over several datagrams, while others change the table |
| `AddrDumpProofs` | what the vector can lack or repeat, and that an undisturbed dump is one step, proved |
| `MacAddress` | `mac_address.cpp`: texts, bytes and integers, and the address that is read |
| `MacAddressProofs` | that its conversions are inverse to each other, proved for every base and length |
| `Program`, `MCProgram` | `main.cpp`: the calls, the handlers, kills and further runs, composed with `NetIface` |
| `ProgramProofs` | the proofs of what passes the handlers of `main()` by, that an undisturbed run does what it says, and why it may fail |
| `RetryWait` | `util/retry_wait.hpp`: one call of `WaitFor` or `RetryFor`, and the clock |
| `RetryWaitProofs` | its inductive invariant and safety properties, proved |
| `MCRetryWait` | values for TLC |

`Netlink` and `NetIface` are two levels of the same system. A step of `NetIface`
is one whole transaction of `Netlink`: what `OutcomeHonest` says of a transaction
(a result is true of the effect, a failure says nothing of it) is what the
actions `Act`, `Refused` and `AnswerLost` of `NetIface` take for granted, and
`TransactionEnds` justifies its fairness. `Program` extends `NetIface` with one
caller, the thread of `main()`, and each of its calls is one of `NetIface`, step
by step. `AddrDump` takes one step of `NetIface` apart, the dump of addresses,
where `NetIface` takes the table to fit in one datagram.

### Netlink

`obj[<<t, l>>]` is thread `t`'s object at nesting level `l`: 1 for the method,
2 for `WaitFor`'s condition. Its `st` follows the code: `ctor` after line 31 of
`netlink.cpp`, `opened` after line 42, `bound` when the constructor has returned,
`sent` after `send`, then `done` or `failed`. `fds`, `ports` are the process's
open sockets and bound ports, `foreign` the ports of other programs. `exc[t]` is
the exception propagating in `t`. `leaked` is history: descriptors of objects
whose constructor threw, which the destructor never closes (line 56 is not
reached). Errors of `setsockopt` on a valid socket and of `socket` other than
for lack of descriptors are left out. `session_` is unbounded here (the code's
`atomic_int` wraps after 2^31 requests). Attributes of messages, and `seq_`, which is 1 in every
request because an object sends only one, are left out too.

The kernel executes a request within `send`; its answer is then `dump` (with
`left` parts still to read, cut into datagrams of at most `PerDatagram`, and
`NLMSG_DONE` behind the last part or alone), `error` (0 is the ACK) or `lost`.
`got` counts parts handed to the callback; `executed` is whether the kernel did it.
A dump may be broken off: `NLMSG_DONE` then comes before the last part, with an
error code that lines 169 to 172 do not look at (`broken`). `OutcomeHonest` excepts
such a dump, which the caller takes for complete. `FdsAccounted` likewise records in `leaked` what the
constructor loses; it excludes every other loss.

### NetIface

`call[p]` is the method in progress at caller `p`: its `stage` says which
transaction comes next, and `idx = 0` that `get_index()` precedes it.
`set_mtu` is index, act, then verify until satisfied or late; `set_ip_address`
begins with check and goes on the same way; `del_ip_address` begins with a dump it does not
use (line 356). Every poll of the verification asks for the index again.
`late` is whether `WaitFor`'s 500 ms have passed. `out[p]` is what the last call
returned or threw (`val` carries the kernel's error). `hist[p]` is history for
the properties: whether anyone else changed anything during the call (`quiet`),
whether its goal held at the beginning (`first`) or at any time (`held`), which links
have borne the name during it (`named`), how often it changed the kernel (`changes`).

`get_mtu` of a missing index yields any MTU: the code returns an uninitialized
variable (line 123). The callers of `get_index` do not test for -1; the kernel
refuses it. `contains` is set membership. A family is a set of bits, and
`get_ip_addresses` selects by them as `operator&` does; its vector is a set, for
nothing depends on its order. `ifa_prefixlen` has eight bits and the prefix
length of a caller is an `int`: `Entry` is what remains of it (280 becomes 24).
`Failures` are the errnos with which the kernel may refuse any request of a call,
the dumps and the polls of `WaitFor` included (`Refused`), 0 standing for a failure of the socket
before or after the execution (`AnswerLost`); `Thrown` makes `EACCES` the `permission_denied` of
`netlink.cpp`, lines 183 to 188. These come besides the answers that `Rtnl` gives
to the requests of a change.
The constructor (`Open`) calls `get_iface_names()` and throws if that fails or
does not list the name. A failed constructor leaves no object: `Begin` needs one.

### IfaceApi

A call is `busy` and then has one of four answers. It changes the configuration
at most once; `achieved` requires that its goal was met during the call, `refused`
(with an errno that only the request of the change can meet, so none of `Failures`) and `answered`
(of a call that reads) that it changed nothing, `failed` says nothing: a poll of the
verification may be denied after the change was made. `NetIface!Api` maps `Phase(p)`, `hist[p].held` and
`hist[p].changes` to it; an early return, a check or a poll is a stutter.

### Program

`Script` is the sequence of calls of lines 44 to 62 with the defaults of the
options, `at` the position in it. `ListNames` and `OpenInterface` come first. An
exception goes to the handlers in the order of the code: those of the
inner `try` guard the last call only. `Classes` gives the bases that a handler can name:
`permission_denied` derives privately from `fnc_exception`, so that
`std::exception` does not take it: from any place but the guarded call it terminates the program (`Uncaught`), whichever
request was denied. `Kill` may come between any two steps,
also while a change is being verified, and `RunAgain` starts over with whatever
is in the kernel, which is the program's only memory.

### AddrDump

`table` is the kernel's list of all addresses, `passed` how many of them the dump
has gone by: the kernel goes on from that number in the next datagram, whatever was
added or removed before it. `addresses` is the vector of
`get_ip_addresses_impl`, to which `Callback` appends the addresses of the link
`Idx` that are in `Wanted`, those of the families asked for, called for each message of a datagram in turn (`Appended`). The kernel may break the dump off with an error in `NLMSG_DONE`, or mark it
as interrupted; the loop looks at neither. `ever` and `always` are history.

### MacAddress

An address is a number whose digits to the base 256 are the bytes; the model
takes the base and the number of bytes as constants. A text is a sequence of
characters: digits (upper or lower case), colons and others. `OfText` erases every
colon, tests the length and converts (`strtoul`, which stops at the first character that is no digit). The
loops are functions defined by recursion (`Number`, `Stripped`), and `Place[n]` is what a
shift by `n` bytes divides by. The
first object is that of the default constructor, the
actions are the other ways in which an address comes into being, `Read` those bytes that the
kernel delivered. `get_mac_address` takes `IFHWADDRLEN` bytes behind the attribute whatever its
length: of a short one the rest is arbitrary.

### RetryWait

`stage` is where the loop is: `test` (line 40 or 76 of `retry_wait.hpp`), `judge`
(line 42 or 78), `sleep`, or how it ended. `clock` is what `system_clock` reads;
it goes with the time `now` but anybody may set it (`SetClock`), while
`sleep_for` follows a clock that nobody sets. `start` and `retry_count` are the
code's variables, `count` the argument. Time passes between any two steps, so a
test, or the thread between two instructions, may take as long as it likes;
the condition's own body is one step. `forward`, `back` and `tests` are history.
`NetIface` keeps of all this only whether the timeout has come (`Expire`, at any
time during the verification). A `retry_count` of `INT_MIN`, whose decrement
overflows, is left out.

### The kernel in Rtnl

Modelled from what the code's requests ask for. An IPv4 address may be on a link
with several prefix lengths, an IPv6 address once. `NLM_F_EXCL` makes a second
assignment fail with `EEXIST`. A deletion that carries only `IFA_LOCAL`
removes one IPv4 entry whatever its prefix length, an IPv6 entry only with the
same one. `RTM_NEWLINK` sets the flags that `ifi_change` selects to `ifi_flags`;
a link that goes down loses its IPv6 addresses. An MTU above the link's limit, or a
prefix length above 32 or 128, gives `EINVAL`. Assigning an IPv6 address to a
link on which IPv6 is disabled gives `EACCES`, the code's `permission_denied`.

Abstractions: a dump is atomic in `NetIface` and not broken off (`AddrDump` shows what it is if not; so
`OkMeansAchieved`, that no early return and no test is deceived, is said of atomic dumps only); a request with
index -1 gives `ENODEV` whatever its type; indexes are not used again; point-to-point peers,
secondary addresses of a subnet and link-local addresses that the kernel adds
by itself are left out.

## Runs

Passing runs:

| run | configuration | question |
|---|---|---|
| `netlink` | 2 threads with adjacent ids, 2 descriptors, 1 foreign port, 3 sessions, dumps of at most 2 parts, which may be broken off | all invariants of Netlink, its liveness, and that it implements Transaction |
| `iface_alone` | 1 caller, 1 link with every consistent subset of its addresses (one IPv4 address with 3 prefix lengths, a loopback address, an IPv6 address), up or down, IPv6 on or off, present or gone; every call, every family, MTUs and prefix lengths in and out of range | what calls return when nobody interferes, all the reasons to fail, and that printed addresses tell addresses apart |
| `iface_race` | 2 callers set and delete one IPv4 address, which the link may have with 2 prefix lengths; transactions may fail and answers be lost | races between callers; every call ends; `NetIface` implements `IfaceApi` |
| `iface_world` | 1 caller, others rename, create, remove links and change addresses and MTU; 2 links, 2 names; any request may fail, be denied or lose its answer | stale names and indexes |
| `program` | every subset of 7 leftover addresses, the link present or gone, IPv6 on or off, 2 runs, kills, failures and denials anywhere, others rename, create and remove the link | only denials outside the guarded call escape, a run does what it says, a failed run has removed the reason for its failure, every run ends |
| `addr_dump` | up to 4 entries of 2 links, 2 addresses of the families asked for and 1 of the other, datagrams of 2, 2 entries added and 2 removed during the dump | what the vector can lack, repeat or still contain |
| `mac_address` | the default object, every text of up to 6 characters, 2 bytes of base-3 digits | what is accepted and printed, and the round trips |
| `retry_wait` | timeout 5, wait 2, retry counts -1 to 3, the clock set twice by -3, -1 or 2 | when the loops give up, how long they sleep, how often they test, that they end |

Bounds. Netlink: with adjacent thread ids, three sessions are enough for two
threads to reach one port (`10 + 1 = 11 + 0`), for an object to be nested in
another while the other thread has one, and for descriptors to run out: each of
two threads may hold two, of three. A leak or a foreign port makes the
constructors fail as well. Two parts with at most two in a datagram give every
cut: one datagram, two, `NLMSG_DONE` alone, and a dump broken off before or after a part. NetIface: a link with two
prefix lengths of one IPv4 address, an IPv6 address with another prefix
length, and a loopback address covers every case the comparisons of the code tell apart;
two callers are enough for the window between test and request, since a
caller sees of the others only the table; two links with two names let the name
move from one link to the other in the middle of a call. The prefix lengths 0
and 32 of an IPv4 address are those that `to_string()` does not show; 280 is
one that does not fit in eight bits.
Program: two runs show what the second makes of any point at which the first
ended; since the first starts from every configuration, a third adds nothing but a second
failure. The deletion at the beginning fails once for each further copy of
2.2.2.2, of which the configurations have up to three. AddrDump: with four
entries in datagrams of two, and two additions and removals, an entry can move over
the cut in both directions. MacAddress: two bytes of two digits suffice to tell
byte order, leading zeros and the place of colons apart.
RetryWait: the timeout is no multiple of the wait, the clock can be set by
more than a wait and in both directions, and the retry counts lie on both sides
of 1. From `MaxTime` on time passes only in a sleep; 13 is the latest end of a
sleep of `WaitFor` (5 + 2, and 6 set back), so no test is cut off. Time stops
altogether at twice that, which no sleep of the code reaches.

`CHECK_DEADLOCK FALSE` in every configuration: the netlink run may stop when its
sessions are used up, callers may stop calling, and a loop ends.

Fairness. `Netlink!FairSpec`: a thread inside a method is scheduled, and
`recvmsg` comes back, at the latest with `EAGAIN` after `NL_SOCKET_TIMEOUT` (the
constructor sets `SO_RCVTIMEO`, and throws if it cannot); unwinding goes on by
itself. Nothing makes a thread begin a request or makes an answer come.
`NetIface!FairSpec`: a thread inside a method is scheduled and its transactions
end, which is Netlink's `TransactionEnds`; the clock passes 500 ms (`Expire`).
Nothing is assumed of other callers or programs, so `CallsEnd` says that a call
ends even if others undo what it does for ever. `RetryWait!FairSpec`: the thread
is scheduled and time passes. The condition may never hold; `LoopsEnd` rests on
the bound `MaxJumps`, since a clock that is set back again and again keeps
`WaitFor` polling for ever. `Program!FairProgram` is the same of the thread of
`main()`; nothing is assumed of kills, further runs or others.

Runs that TLC finds violated, each against a line of the documentation
(`NetIfaceDocs` states them, "findings" quotes them):

| run | statement | what happens |
|---|---|---|
| `doc_set_mtu` | set_mtu sets the MTU | the link also goes down and loses its IPv6 addresses: every flag is selected by `ifi_change` and `ifi_flags` is 0 |
| `doc_del_v6` | the address is removed | an IPv6 address with another prefix length stays, and the call returns |
| `doc_set_race` | set_ip_address is idempotent | another caller assigns the address between test and request: `EEXIST` |
| `doc_get_mtu` | returns the MTU of the interface | of a removed interface it returns any value |

Seen while modelling, and stated as it is in the models rather than refuted by a run of
its own:

* `del_ip_address` of an IPv4 address that the link has under two prefix lengths
  deletes one of them, waits for the other and times out. `RightTimeout` states
  it as one of the two reasons for a time out; `FailedRunProgressed` says
  that doing it again gets rid of the next one.
* `set_ip_address` with a prefix length of 256 or more assigns it modulo 256 and
  times out, since it looks for the one asked for.
* `to_string()` shows neither the prefix length 0 nor, of IPv4, 32.
* A dump of several datagrams may miss an address that was there all the time, if
  another was removed, or repeat one, if another was added.
* Every `NLMSG_DONE` ends a dump, one with an error code too: a dump that the kernel
  breaks off is returned as if it were complete (`netlink.cpp`, line 169). `OutcomeHonest` and
  `MissesExplained` except it openly.
* A constructor that throws after `socket()` leaks the descriptor (line 50). `FdsAccounted` records
  this in `leaked` and would not flag it.
* `RetryFor` tests `retry_count` times in all, so it retries one time less, where
  `retry_wait.hpp` calls the argument the "Number of times to retry" (line 65) and says of
  `RetryFor(5, ...)` "Try sometest 10 times" (line 57). `RetriesCounted` states what the
  code does.
* A request answered with `EACCES` outside the last call of `main()` terminates the
  program (`Handled` says that nothing else does).
* Exception texts that are built from a message and then formatted again throw
  `fmt::format_error` if the message contains a brace (`THROW_TIMEOUT`), where
  `retry_wait.hpp` promises a `timeout_exception` (line 16). The properties of `RetryWait` bind
  both alike (`GaveUp`) and do not tell which it is.
* `mac_address::operator!=` calls itself, `what()` points into a string that is gone,
  and `to_sockaddr()` reads behind its object. Nothing in the library depends on them.

Every property of a passing run has a mutant: a variant of one definition with a
plausible bug (the destructor closes nothing, the port does not depend on the
session, the reader stops after one datagram, a comparison forgets the prefix
length, the verification repeats the request) under which TLC finds the property
violated.

## Proofs

Proved for every set of threads, thread ids, descriptor limit, foreign ports,
error numbers, datagram size and bounds, from `NetlinkAssumption` alone:

* `TypeCorrect`: `Spec => []TypeOK`;
* `Accounted`: every open descriptor belongs to exactly one live object or was
  lost by a constructor that threw;
* `PortsClashRarely`: two objects of one thread never have one port, and two of different
  threads only if the thread ids are closer than the number of sessions;
* `OutcomesAreHonest`: a dump that returns is complete unless the kernel broke it off, a change
  that returns was executed, `permission_denied` means that nothing was;
* `InductiveInvariant`: the conjunction that carries these, which the `netlink`
  run checks too;
* `ObjectsAreTransactions`: `Spec` implements `Transaction`.

`FdsAccounted` is inductive with `TypeOK`. `PortClashes` is not: it needs `Numbered`
(a live object's port is its thread's id plus a number below `session`, and no
two live objects have the same number) and `PortsOwned` (the bound ports are
those of the constructed objects). `OutcomeHonest` needs `AnswerKnown`, which says for
every progress of an object how its counts and the kernel's effect belong
together, and `Nested` (while an inner object lives, the outer one has returned, its
change acknowledged), without which an exception thrown for one object could
make the other object of its thread look refused. The effect of each action on
the fields of its object is a lemma of its own, so that the proofs of the
invariants do not touch record updates.

Of `RetryWait`, for every timeout, wait, retry count and way of setting the
clock, from `RetryWaitAssumption` alone (the proofs use neither `MaxTime` nor
`MaxJumps`):

* `NeverEarly`: a time out comes only after the timeout, less what the clock was
  set forward;
* `NeverLate`: a sleep ends at most one wait past the timeout, plus what the clock was set
  back;
* `PollsAreBounded`: the tests are a wait apart, and how many `WaitFor` makes is
  bounded accordingly;
* `RetriesAreCounted`: `RetryFor` tests `max(1, retry_count)` times, a wait apart, before it gives up.

The inductive invariant (`RetryWaitInductive`) adds `ClockAccount` (what the clock
shows since the start is the time passed and what it was set by), `Paced` (before
every test but the first lies a wait), `NoTestTooMany` and `Counted` (what the
number of tests is at each stage). The lemma `Steps` reduces every action to what
the properties see of it: a test, a judgement, a wake-up, or a step of the world.

Of `NetIface`, for every set of callers, calls, links, addresses, prefix lengths,
MTUs and limits, with or without failures and interference, from the assumptions of `IpAddress`,
`Rtnl` and `NetIface`:

* `TypeCorrect`, `Achieved`, `Accounted`, `NamedLinkRead`: the invariants of the
  runs (`TypeOK`, `OkMeansAchieved`, `OutcomeAccounts`, `ReadsNamedLink`);
* `NamedLinkChanged`: the action property `ChangesNamedLink`;
* `AddressesToldApart`: `TextTellsApart`;
* `UndisturbedRight`: `UndisturbedCallsAreRight`;
* `Refines`: `NetIface` implements `IfaceApi`.

None of the invariants is inductive. `Inductive`, which the `iface_alone` run
checks too, adds `InCall` for every call in progress: it is in a stage of its method, it has
changed nothing before it verifies (`ChangesOnce`), the index that it holds and
the present bearer of the name are recorded (`NamesRecorded`), and whatever is
true of its goal now is recorded as held (`GoalRecorded`). The last makes
`OkMeansAchieved` follow: the tests of the methods (`SetTest`, `DelTest`) see the
goal itself, of a link that has borne the name. Steps of other callers and programs are one
lemma each (`Bystander`, `OthersKeep`), because `Record` treats whoever moves the
links alike. The proof for the undisturbed call relies on that invariant and adds
`QuietOK`: as long as nobody disturbs it a call holds the index of its link, its
goal is as it was at first until it acts, it acts only if the goal does not hold,
and what it changed is there while it verifies (`InPlace`). Transactions may fail: `QuietFailure` says
that this leaves the answer right, and `RightError` with which errors. `RightRefusal` goes
through the kernel's refusals, `QuietUnseen` through the reasons for a time out.
The refinement follows from `Inductive` and from `StepAnswers`, which says what
each step makes of a call's answer.

Of `Program`, from `ProgramAssumption` and `ScriptAssumption` besides:

* `ProgramTypes`: `ProgramTypeOK`;
* `OnlyDenialsEscape`: `Handled`;
* `StepsHold`: `StepsTakenHold`;
* `FailuresAccounted`: `FailedRunProgressed`.

Each step of a call is one of `NetIface`, so that `Inductive` holds of `Program`
too, which `RunAgain` keeps; `ScriptedCall` adds that the call under way is the one
that the script has there, and that a denied one is about an IPv6 address, of which the
script has one, in the guarded place, unless the kernel has another reason to deny it (`Deniable`,
`ScriptShape`). So `Handled` says two things: a program that terminates was denied a request
outside the guarded call (the run, in which any request may be denied, shows this too), and where
`EACCES` is not in `Failures` it never terminates (the theorem alone says this). For the other two,
`ProgressInv` carries `QuietOK`, `NetIface`'s invariant of an undisturbed
call, through the program, and `Alone`: if nobody has interfered with this run, then nobody
has with the call under way, and the interface is there once it was opened. What
one step of a call does to the goals of others is `GoalKept`: a step on the bearer of the name spoils
a goal only of a call that the one under way overrides, so that a
step of the script keeps what the earlier ones have done (`StepKeepsSteps`), and one that
returns has met its own (`ReturnedIsHolding`, from `UndisturbedCallsAreRight`). `GivenUp` goes
through the reasons for which an undisturbed call throws and excludes those that the
script cannot meet: the prefix lengths of its IPv4 addresses are valid, and such an address is
never denied.

Of `AddrDump`, for every table, datagram size and number of changes, from
`AddrDumpAssumption` alone:

* `DumpTypes`, `NothingInvented`, `MissesBounded`, `RepeatsBounded`: the
  invariants of its run (`TypeOK`, `ReportedWasThere`, `MissesExplained`, `RepeatsExplained`);
* `QuietDumpIsAtomic`: a complete dump during which nothing was added or
  removed returns the link's addresses of the families asked for, each once. That is what `NetIface` takes a dump for.

The invariant `DumpInv` counts positions, not addresses. `Ahead` are those which
the dump has not passed and whose address is in the vector already: each will be a
repetition, and each, like those that have occurred, is paid for by an entry that was
added (the table has none twice). `Unseen` are those which it has passed
although their address is not in the vector: each is paid for by a removal that
moved it over the mark. An insertion or removal shifts the positions behind it, so
each case is a bijection between positions of the two tables (`InsertKeeps`,
`RemoveKeeps`). A datagram is shown message by message (`DatagramKeeps`).

Of `MacAddress`, for every base, set of letters, number of bytes and text, from
`MacAddressAssumption` alone:

* `MacTypes`: `TypeOK`;
* `PrintedAsRead`, `ReadAgain`, `GivenBytesKept`: `PrintsWhatWasRead`,
  `RoundTrip`, `BytesKept`.

The invariant `MacInv` says what an object was built from and what was printed of
it; the rest is arithmetic. `ReadBytes` shows that the number that bytes make, divided
by `Place[N - i]`, is what the constructor had after `i` bytes, `WrittenBytes` the
converse, `Paired` that two digits to the base `D` are one to the base `D * D`, and
`StrippedShown` that erasing the colons of a printed address leaves its digits.

The loops of `AddrDump` and `MacAddress` are recursive functions of the number of rounds.
The library's induction theorems have operators as parameters and cannot be
instantiated; the proofs use an induction rule about sets of numbers instead
(`LeastNat`, `Induction`, from the well-foundedness of `<`), with which the
existence of these functions and what they compute follow (`InTurn`, `Loop`).

Every invariant and action property that a run checks is proved. Only model-checked:
liveness (`TransactionEnds`, `UnwindingCompletes`, `LoopsEnd`,
`CallsEnd`, `ProgramEnds`), which needs fairness and ENABLED and is out of the prover's
reach; and that the documentation's statements are violated.

## Plan

1. *Done:* Netlink with its abstract specification and proofs; IpAddress, Rtnl,
   NetIface and its runs; RetryWait with its proofs.
2. *Done:* IfaceApi, AddrDump, MacAddress, Program; the proofs of NetIface and of
   `Handled`.
3. *Done:* the proofs of `StepsTakenHold` and `FailedRunProgressed`, of `AddrDump` and of
   `MacAddress`.
4. The constructors of `ip_address` from bytes and socket addresses, and their converses, as
   conversions of sequences of bytes, with the proof that they are inverse to each other.

## Not modelled

* Logging, and the texts of messages: no behaviour depends on them. `exceptions.hpp` is modelled
  by which exception is thrown and which handler takes it.
* `scope_exit`, `mac_helper` and what else of `util/` nothing uses; the operators of
  `bitmask_operators` other than `&`.
* The conversions of `ip_address` to bytes and socket addresses: identities on
  the model's addresses. The options of the program, which CLI11 parses.
* Tests, build files and the vendored libraries in `libs/` (Catch2, CLI11,
  spdlog). They are nine tenths of the lines of the repository, are not part of the program's
  own logic, and are not represented here.
