# posnet in TLA+

Specifications of posnet, a C++20 library that builds, views and sends network
frames on Linux, written from its sources; TLC configurations that check them;
and proofs for TLAPS. Paths are relative to the repository (`src/` in the maps
of `PROJECT.json` is its root).

## 1. The system

posnet is a library without threads of its own. Its parts share little: a
program combines them. What makes them hard is not their size but that they are
used by several threads (`StrictMutex`, `StageController`, the static buffers of
`sock_addr_convertor`), against a kernel that others change at the same time
(`IFaceManager`), and through C++ object lifetimes: copies, moves, destructors
and exceptions (`LazyConstructedObject`, the guards, `BaseFrame`, `ScopedLock`).

| component | state | operations | what makes it correct | here |
|---|---|---|---|---|
| `StrictMutex` (`include/utils/strict_mutex.h`) | a mutex, the data, the two pointers of every guard | lock, lockOnRead, lockOnWrite, move, unlock, destructor, access | one writer or many readers; no update lost; every lock is given back | `StrictMutex` |
| `StageController` (`include/utils/stage_controller.h`) | one atomic stage | four ways to change the stage | moves are atomic, report the stage they left, and fail only with a reason | `StageController` |
| `LazyConstructedObject` (`include/utils/lazy.h`) | a buffer, an "empty" flag | construct, copy, move, assign, destruct | the flag says whether an object lives in the buffer; every object is destroyed once | `LazyObject` |
| `IFaceManager` (`src/iface_manager.cpp`) | a socket; the kernel's interfaces | setConfig, promiscuous mode on and off, getConfigs | a call does what it says or throws; the socket is the manager's own and is closed; a configuration is of one interface | `IFaceManager`; `getConfigs` in `IFaceConfigs` |
| `BaseFrame` (`include/base_frame.h`) | the address and size of a header | raw frame, size | the raw frame is the builder's own header | `BaseFrame` |
| `IcmpBuilder`, `IcmpViewer` | an ICMP header | setters; getType, getCode, getId | what was set is what is viewed | `IcmpBuilder` |
| `IpBuilder`, `CalcChecksum` | an IPv4 header | setters; checksum | the checksum is the header's; fields do not run into each other | `IpBuilder` |
| `IpViewer` and the Ethernet, ARP, TCP and UDP viewers | none: an offset into a frame | getters, text output | the getter shows the field, at the place where the header is | `FrameViewers`; `getFragmentOffset` in `IpBuilder` |
| `EthernetBuilder`, `UdpBuilder` | a header | setters of one field each | as `IpBuilder` | the headers that the clients build, in `PacketClient` (partly) |
| `sock_addr_convertor` | static buffers | address conversions | a result is of the caller's own address | `SockAddrConvertor` |
| `ScopedLock` | a callback, or none | construct, unlock, destructor | the callback runs exactly once | `ScopedLock` |
| packet clients (`examples/l2_*`, `l3_*`) | a manager, a frame, a socket behind a `ScopedLock` | read the interfaces, build, send | the frame has the addresses of one interface; every descriptor is closed once, whatever fails | `PacketClient` |
| `frame_sniffer` | a manager, a socket, one buffer | promiscuous mode, receive, print | what is printed is the frame received | `FrameSniffer` |
| `Result` | a variant | construction, access | - | not modelled: no state change after construction |
| `system_error` | none | one `strerror` | - | not modelled |
| `tools/udp_server.cpp` | a socket | a receive loop | - | not modelled |

How they interact: a builder hands its header to `BaseFrame`, whose raw frame the
clients send and the viewers read; `IcmpBuilder::setCode` runs a viewer over its
own raw frame; the clients run `CalcChecksum` over a raw frame and store the
result with a setter; the builders parse addresses with `sock_addr_convertor`;
`IFaceManager` throws the text of `system_error`. The programs tie these
together: a client takes the addresses that `getConfigs` found (as texts that
`sock_addr_convertor` made in static storage) into its builders and sends the
headers through a socket that a `ScopedLock` closes; the sniffer gives what it
receives to the viewers, which print through the same static storage.

`PROJECT.json` lists the hazards of each part at their lines, with the
properties that watch them.

## 2. Modules

Each module is one component; an abstract specification has a module of its own.

| module | role |
|---|---|
| `GuardedData` | what `StrictMutex` promises: sections, exclusive or shared, and increments inside them |
| `StrictMutex` | guards and mutexes; implements `GuardedData` |
| `StrictMutexProofs` | its theorems |
| `AtomicStage` | what `StageController` promises: atomic moves that refuse only with a reason |
| `StageController` | compare-and-swap loops; implements `AtomicStage` |
| `StageControllerProofs` | its theorems |
| `LazyObject`, `LazyObjectProofs` | the flag, the lifetime in the buffer, and the theorems |
| `IFaceManager`, `IFaceManagerProofs` | descriptors, `setConfig` and the promiscuous mode, ioctl by ioctl, and the theorems |
| `BaseFrame` | header and raw-frame address of a builder; extended by the two builders |
| `IcmpBuilder`, `IcmpBuilderProofs` | ICMP setters, the translation tables of builder and viewer, and the theorems |
| `IpBuilder`, `IpBuilderProofs` | IPv4 setters and checksum, and the theorems |
| `Process` | external: processes with threads, and their tables of descriptors |
| `ScopedLock` | a callback that closes a descriptor, run by `unlock()` or the destructor; extends `Process` |
| `SockAddrConvertor` | conversions to text through shared storage; extends `Process` |
| `IFaceConfigs` | `getConfigs`, ioctl by ioctl; extends `SockAddrConvertor` |
| `FrameViewers` | operators: where each viewer begins in a raw frame, and what it reads |
| `Program` | what all programs do; extends `ScopedLock` and `IFaceConfigs` |
| `PacketClient`, `FrameSniffer` | the clients and the sniffer; extend `Program` and `FrameViewers` |
| `PacketPrograms` | composes clients, sniffers and a program with a `ScopedLock` of its own; their properties |
| `PacketProgramsProofs` | its theorems about types and descriptors |
| `PacketFramesProofs` | its theorems about the frames that are sent and printed; extends the former |
| `MC...` | the instances for TLC: constant sets and symmetry |

An operator or action introduced by "Mutant of X" is a plausible bug in X. No
specification uses it; it is there to show that a property can fail.

### StrictMutex

The header holds three guard classes with the same bodies. A guard is an element
of `UniqueGuards` (`MutexGuard`, `UniqueMutexGuard`) or `SharedGuards`
(`SharedMutexGuard`); `SharedGuards = {}` is the primary template. `target[g]` is
`m_mutex` and `m_data`, always assigned together. The constructor is two steps
(`Lock` sets the pointers, `Acquire` is the return of the mutex's lock function)
and so is `unlock()`: `BeginUnlock` releases the mutex while the guard still
points to it, `EndUnlock` clears the pointers; a destructor of a locked guard is
the same with the object gone at the end. `MovePointers` is the body of the move
assignment, which forgets what the target guard had locked; move construction
uses it on a new guard. `BeginIncrement` and `EndIncrement` are the read and the
write of `guard->counter++`, the class comment's example. The mutexes of the
standard library are external (`writer`, `readers`). Relocking a mutex that the
thread owns, `unlock()` on a guard that is not locked and access through one are
excluded by the code's assertions or are undefined, and are not taken.

`Nested` says whether threads hold several locks at once, `OverwriteLocked`
whether they assign to locked guards.

### StageController

One step per access to the atomic. A call is the list of stages that it still has
to try: `{stage}` just loaded (`gotoNextStage`), one stage, or the caller's
`initializer_list`. `TryMove` is one `compare_exchange_strong`, `GiveUp` the
return of false at the end of the list. `seen[t]` is a history variable, the
stages there have been since the call began; it lets `AtomicStage` say when a
refusal has a reason.

### LazyObject

`m_isEmpty` is the flag; `held` is the object whose lifetime has begun in the
buffer, which C++ does not record. Copy and move construction leave the new
flag at "empty"; assignment of a value constructs over what is there; a throwing
constructor leaves the flag at "not empty"; self-assignment copies an object that
was just destroyed (`Wreck`). `risky` and `lost` are history variables that the
properties speak of.

### IFaceManager

Every manager has a descriptor, closed by its destructor and shared by a copy
(`Copy`). The class declares only a destructor, so C++ gives it an assignment,
which overwrites the descriptor and closes nothing (`Assign`); `replaced` has
the descriptors that this left without a manager.
`setConfig` is an ioctl for each field that the configuration has, in the order
of `Fields` (`Comes`), each a step; `todo` is the set of those still to come. So
are the GET and the SET of the flags. Between any two steps other managers and `Administer` (another
process) may act. The kernel is external: an address set makes it derive net
mask and broadcast address again, an interface without address takes neither and
is not listed. Two ioctls under "Set MTU" and "Set Status" read, and are modelled
so (`ReadOnly`). The net mask is parsed from an absent optional: any value
(`Changed`). `inet_pton`'s result is not looked at: a malformed address leaves
what the struct held before (`Parsed`). Of `getConfigs` this module has only the
list that `isIFacePresent` searches, including the size of its buffer;
`IFaceConfigs` has the whole.

### BaseFrame, IcmpBuilder, IpBuilder

A builder lives at a place; `start[p]` is the address that `BaseFrame` was given.
The implicit copy keeps the original's address, so a copy's raw frame is another
builder's header, or whatever is there after that is gone (`Headers`). `want`,
`sealed` and `offset` are history variables: what the caller has asked for.
Headers are records or functions of the fields that matter. A setter of a byte or
of four bits of a word leaves the rest of the word (`PartSet`). `FragmentOffset` is
what `IpViewer` returns for a header, bytes in the network's order.

### The programs: Process to PacketPrograms

A thread runs one program, in a process of its own or together with another
(`at`): the library does not say which, and several threads of one process are
what its static storage and its descriptors are exposed to. `file` is the
process's table of descriptors, with the thread that opened each; `socket()`
takes the lowest free one, so that a descriptor closed twice by one thread may be
another's by then.

*ScopedLock.* `armed` is `m_unlockCallback.has_value()`. `Invoke` is the call of
the callback, which closes the descriptor; `Return` and `Throw` are its two ends.
`reset()` comes after the callback: one that throws, or calls `unlock()`, finds
the lock still set. `calls` has the calls in progress, at most `Depth` inside one
another. From the destructor an exception terminates the process. `BeginScope`
to `EndScope` use a lock in every way that its interface allows; the clients use
it as they do.

*SockAddrConvertor.* A conversion is two steps: the shared buffer is written, the
text is copied out. If another thread of the process writes the same buffer in
between, both find `Torn`, a text of which nothing is known (its own, the other's,
or a mixture). glibc's `inet_ntoa` has a buffer per thread and is no step.

*IFaceConfigs.* `listing[t]` is the loop of `GetConfigs`: the set of interfaces
left, of which the least is asked next, fields left, configurations found, with
the texts of the addresses as they were stored. Each ioctl is a step;
`Administer` changes the interfaces between any two. A field whose ioctl fails is
absent.

*FrameViewers.* A frame is a sequence of cells, one for several bytes, laid out
so that a viewer at a wrong offset reads one header's field for another's as in
the real layout. Viewers of viewers skip the header before them; viewers of raw
bytes take these for their own header, except `TcpViewer`.

*PacketClient.* The steps of `main`: the manager is constructed, the interfaces
are read (`IFaceConfigs`), the first that is not the loopback interface is taken
and the manager destroyed (`TakeConfig`), the headers are built and the Ethernet
header printed, the socket opened, the frame sent, the lock destroyed. Each call
may fail. Both l3 clients send to the address that they took: the kernel's header
is that of the loopback interface while the machine has the address
(`KernelHeaders`). An address that is absent is dereferenced all the same, since
assertions are not in a release build, for which `README.md:14` asks: the client
goes on with an unknown one, or the process ends (`UseGarbage`).

*FrameSniffer.* `buffer` keeps what earlier frames left behind a shorter one.
`recvfrom`'s failure is stored unsigned and not noticed: the buffer is printed
again (`ReceiveFails`). `Dispatch` follows the switches of `PrintFrameInfo` and
`PrintIpFrameInfo`, with the offsets that the viewers really have: the IP header
is read at the start of the Ethernet header. `got`, `wire.by` and `wire.taken`
are history variables.

## 3. Runs

| run | instance | shows |
|---|---|---|
| `strict_mutex` | 2 threads, 2 mutexes, 2 guards of each class, counters to 2, nested locks and overwriting allowed; 62 933 states up to symmetry | types; a locked guard's thread owns the mutex (`GuardOwnsMutex`); locked guards exclude each other (`GuardsExclude`); no increment lost (`NoLostIncrement`); `StrictMutex` implements `GuardedData` |
| `strict_mutex_scopes` | 2 threads, 2 mutexes, 2 + 1 guards, no nesting, no overwriting, fair; 7 128 states | every owned mutex has a guard that will release it (`LockIsGuarded`) and is released (`Released`) |
| `strict_mutex_overwrite` | as the first | **violated**: `LockIsGuarded`, see below |
| `stage_controller` | 2 threads, 3 stages, lists of 0 to 3 stages, one with a repetition, fair; 51 762 states | types; `StageController` implements `AtomicStage`; calls return |
| `lazy_object` | 2 objects, 2 values; 4 857 states | types; an empty object hides a `T` only after copy or move construction; `get()` yields a `T` that does not exist only after an exception; a `T` is lost only by the named uses |
| `lazy_object_flag` | the same | **violated**: `FlagIsTruth` |
| `iface_manager` | 2 managers, 1 interface, descriptors 0 to 2 with 0 open, 1 address, 3 configurations; 836 000 states | types; no manager gets descriptor 0; the socket is the manager's own until a manager is copied; no socket leaks but by an assignment; the addresses and the promiscuous mode are as asked when a call returns that nobody disturbed |
| `iface_manager_mtu` | the same | **violated**: `MtuApplied` |
| `icmp_builder` | 2 builders, 4 types (one without a number), 4 codes, 1-bit numbers; 648 000 states | types; type and code set last are read back by the viewer; a code is never one of another type |
| `icmp_builder_id` | the same | **violated**: `IdReadsBack` |
| `ip_builder` | 2 builders, five words of 4 bits, one of them set in parts, arguments 1 and 31 (too wide); 562 000 states | types; a checksum computed over a zero checksum verifies, copies included; a later change of one word is noticed; flags and offset are read back through the viewer |
| `packet_programs` | 2 threads in one process or in two, one runs an `l2_udp`, `l3_udp` or `l3_icmp` client or uses a `ScopedLock` of its own, the other runs the sniffer or the `l2_icmp` client; 1 interface beside loopback, descriptors 0 to 2, 3 foreign frames; 879 000 states | types; the descriptors that a thread still has to use or close are open and its own (`HeldIsOwn`), and no others are left open (`NothingLeaks`), whichever call failed; a client's frame has the addresses of one interface (`SentIsOwn`) and is read by the viewers as the builders wrote it (`ViewersFollowBuilders`); the sniffer prints the header of the frame received last (`PrintedIsReceived`), and a TCP header from where it is (`TcpShownIsInPlace`) |

Deadlock is checked except where the system may stop: two threads with nested
locks wait for each other (`strict_mutex`); and in `iface_manager` the program
may stop between calls.

**Bounds.** Two threads and two mutexes give every pairwise interleaving and the
moves of a lock between guards of one thread; two guards of a class are needed
for a move and suffice, since a move involves two. A counter of 2 lets each
thread increment once and one of them be overtaken. Three stages are the least
with a list that leaves one out and a stage to which another thread may move
away and back. Two lazy objects are all that one operation involves. Two
managers on one interface interleave their ioctls and reuse each other's
descriptors; a capacity of one interface makes the buffer exactly full (the
overflow needs two interfaces and is not a property). A word of 4 bits has
carries that carry again, as 16 bits do. Two threads are a conversion overtaken
by another and a descriptor reused by another; with a manager and a socket each,
three descriptors are enough for one of them to find none free. `Depth` 2 is a callback
called from itself; the deeper calls repeat that, and the frames deeper than
`Depth` are left out. The two fields `mac` and `ip` stand for all: one fails when
the other does not, and one goes through the shared buffer. Three foreign frames:
TCP behind IP options, an Ethernet header alone (the rest is the last frame's),
ARP. The conditions in the properties (`Careful`, `known`, `Torn`) are needed:
without any one of them TLC finds a violation. The theorems drop the bounds where
there are some.

**Fairness.** `StrictMutex`: weak fairness of the steps that finish a call
(`Acquire`, `EndUnlock`, `EndIncrement`): the scheduler runs threads that can
run, and a mutex lets a waiting thread in if it stays free. Strong fairness of
`EndScope`: a guard is a local variable, and the thread leaves its scope even
though, in between, it moves and uses the guard; a thread that keeps a guard for
ever is outside what the class can promise. Nothing is assumed about starting
calls or about `unlock()`. `StageController`: weak fairness of a thread's next
step within a call. The other specifications state safety only: a program may be
stopped anywhere.

## 4. Findings

1. `strict_mutex_overwrite`: the class comment says that nobody can forget to
   unlock, but move assignment to a locked guard, self-assignment included,
   leaves its mutex locked with no guard (`strict_mutex.h:170`).
2. `lazy_object_flag`: after copy construction the flag that is "to determine that
   this class was initialized" says that it was not (`lazy.h:108`). Move
   construction does the same.
3. `iface_manager_mtu`: under "Set MTU" the code reads the MTU
   (`iface_manager.cpp:198`, `SIOCGIFMTU`).
4. `icmp_builder_id`: `setId` stores into the sequence number
   (`icmp_builder.cpp:132`).

Seen while modelling, and modelled as they are, but contradicted by no comment or
test of the repository, or not clearly:

- `getDefaultCheckSum` sums up the checksum that the header has already (`Seal`),
  so that a second `setCheckSum(getDefaultCheckSum())` stores 0; of its comment
  (`ip_builder.cpp:167-173`) one sentence asks for all words of the header, another
  for those before the checksum;
- the sniffer shows the Ethernet header as an IP, UDP, ICMP or ARP header
  (`frame_sniffer.cpp:33-55`), and never notices that `recvfrom` failed
  (`frame_sniffer.cpp:119`, a comparison of an unsigned number with 0);
- `ArpViewer` prints the sender's MAC address as the target's
  (`arp_viewer.cpp:211`);
- the flag getters of `TcpViewer` mask with 0 and return false always
  (`tcp_viewer.cpp:9`; not in the model, they are not printed);
- a `ScopedLock` callback that throws is run again by the destructor
  (`scoped_lock.h:68`);
- an `IFaceManager` that is assigned to, or moved to, loses its socket without
  closing it, and closes the other's a second time (`iface_manager.h:81`: a
  destructor, and no assignment of its own). `NoSocketLeaks` names this as the
  one way to leak a socket.

## 5. Proofs

`tlapm StrictMutexProofs.tla`, and likewise for the other seven proof modules.
Every safety property and every action property of a passing run is a theorem,
and so are both refinements. The only assumptions are the named ones on the
constants (`StrictMutexAssumption` and so on), which TLC evaluates on its
instances: `None` is none of the values beside which it stands, the kinds of
guard are disjoint, indices and descriptors are naturals, and what the text
below names. No set of threads, managers, interfaces or descriptors is assumed
finite.

**StrictMutex.** `Invariance` proves `IInv`. The four safety properties are not
inductive one by one: that a newly locked guard is alone rests on
`GuardOwnsMutex` (the other locked guard's thread would own the mutex, which was
free), which survives an unlock only because of `GuardsExclude` (no other guard
relied on the released mutex); `NoLostIncrement` rests on `GuardsExclude` and on
the guard of the call in progress (`CallWellFormed`); and `writer` and `readers`
must exclude each other (`GuardWellFormed`). One lemma per action, one step per
conjunct. `TypeCorrect`, `ReleaseByOwner`, `MutualExclusion` and
`NoIncrementIsLost` follow. `NobodyForgetsToUnlock` proves `LockIsGuarded` where
`OverwriteLocked` is false, with `IInv` as the known invariant: the exact
condition under which the class comment is right. `Implementation` proves that
every step is a step of `GuardedData` under the mapping "in a section = has a
locked guard": `Acquire` enters, `BeginUnlock` and overwriting leave,
`EndIncrement` increments, all others stutter; lemmas say how the set of
guard holders changes when one guard becomes or ceases to be locked, or hands
its lock to another.

**StageController.** `IInv` adds to the types what a call has established:
`ReasonToRefuse` (if the stage has been one acceptable stage all the time,
that stage is still on the list to try) and `TriesAccepted`. `Implementation`
maps a successful compare-and-swap to `Move`, the end of the list to `Refuse`
and a failed comparison to a stutter.

**LazyObject.** `IInv` is the three properties, the types and `DeadIsEmpty` (a
place without object is as a new object finds it). `EmptyHidesNothing`,
`NoPhantom` and `NoLeak` follow.

**The programs: descriptors** (`PacketProgramsProofs`). `HeldIsOwn` and
`NothingLeaks` are two halves of one fact, the descriptors that a thread holds
are those of its process's table that bear its name; neither half is inductive
without the other where a descriptor is closed, because what is closed must be
held by one thread only. `PcInv` adds where in a program a manager, a socket and
a lock can be: a lock never beside one of the others, and a manager beside a
socket only in the sniffer's loop, which closes neither. So closing one leaves no
other variable with the same descriptor. And a client's lock has no call in
progress but that of its destructor. `DInv` has the three and the types. There is one lemma
per way of opening, closing or forgetting a descriptor (`OpenKeeps`,
`CloseKeeps`, `TerminateKeeps`, `RiskyKeeps`), from which each program's steps
follow. The types (`TInv`) need two facts about control: a list with interfaces
left has a configuration to fill in (`ListingShape`), and a client past
`TakeConfig` has taken one (`ClientShape`).

**The programs: frames** (`PacketFramesProofs`). `FInv` says of each thread
(`Local`) what is in its hands on the way from the kernel to the wire or the
screen: the addresses stored in a configuration are those of its interface, a MAC
address perhaps torn (`AddressesOK`, `ListOK`); a conversion in progress is of the address at hand, or torn
(`ConvertOK`); what a client took is of one interface if it had all (`ChosenOK`);
the buffer begins with the frame received last, however short
(`BufferOK`); printed and still to print make up the header (`PrintOK`). And
of the frame on the wire that it is the client's headers, one behind the other
(`WireOK`). `AddressesAreOwn`, `HeadersAreFound`, `HeaderIsReceived` and
`TcpIsInPlace` follow. `OthersKeep` is what makes it work for any number of
threads: another thread's step does nothing to a thread but tear its conversion.
Assumed: the fields that `getConfigs` asks for include `mac` and `ip`, the
buffer is longer than an Ethernet and an IP header, and no frame exceeds it.

**IFaceManager.** `TypeCorrect` rests on `CallShape` (which steps a call can have
left). `SocketsAreOwn` and `SocketsAreClosed` are inductive with the types; the
second has the exception that the property names, a manager assigned over.
`SocketsArePositive` has the hypothesis that descriptor 0 is open when the program
starts: of a program started without standard input it is false, and so is the
class's assertion `m_socket > 0`. `AddressesAreApplied` and `PromiscIsApplied`
are about the step in which a call returns, but hold because of what all the steps
before have left: `AddressesSet` (a field done with is set, unless somebody
disturbed the call; and the broadcast address, which a new address undoes, is
still to come while the address is) and `FlagsRead` (the flags that a call has read
are those of the interface, unless disturbed). `ChangeDisturbs` says that no
change of an interface escapes the history variable `disturbed`.

**IcmpBuilder.** The lemmas on the tables come first: no two types have one
number, no two codes of a type have one number, and what the builder writes the
viewer knows. `TypeKept` and `CodeKept` say what is in the header once a type, or a code of
that type, was set. `CodesAreOfType` needs what `setCode` reads through its own
raw frame: of a builder that shows itself it is the type set last.

**IpBuilder.** `OffsetKept` is the word of the offset as `setFragmentOffset` left
it; that swapping the bytes twice and dividing gives flags and offset back is
arithmetic (`SwapsBack`, `Divides`). The theorems about the checksum hold for
every width of a word, every finite set of words (a sum needs that) and all
contents. `EndAround` is a recursive function and `SumOfWords` a fold: that they are
defined, and what they compute, needs induction. The induction theorems of
the library take an operator as parameter, which is out of the provers' reach;
`SetInduction` is the same for a *set* of naturals, from the minimal counterexample that
`WFMin` gives. With it, `EndAround` leaves a number below `Word` that is the
sum's residue modulo `Word - 1`, and 0 only of 0 (`EndAroundLeaves`); the
sum does not depend on the order of the words (`SumSplits`) and changes by what
one word changes by (`SumChanges`). A header verifies if its sum is a multiple of
`Word - 1` and not 0 (`VerifiesMeans`). `SealsVerify` and `StaleSealsAreSeen`
follow. The sum is a natural number here; the code's has 32 bits, which 65537
words cannot overflow, and a header has at most 30.

The least free descriptor, and the first configuration that `find_if` accepts,
are minima: that they exist follows in the same way (`LowestIsFree`, `MinInSet`).

**Only model-checked.** The two liveness properties, `Released` of `StrictMutex`
and `CallsReturn` of `StageController`: liveness under fairness is out of the
provers' reach. The properties of the runs that expect a violation are false, and
so have no theorem.

## 6. Running it

    tlc -config MCStrictMutexSafety.cfg MCStrictMutex
    tlapm StrictMutexProofs.tla

and so for each run: `PROJECT.json` names module and configuration. The longest
takes about two minutes.

## 7. Plan

Done: `StrictMutex` (with its abstract specification), `StageController`
(likewise), `LazyObject`, `IFaceManager`, `BaseFrame` under `IcmpBuilder` and
`IpBuilder`, and the programs with what they use: `ScopedLock`,
`SockAddrConvertor`, `IFaceConfigs`, the viewers. The safety of all of them is
proved.

Next: an abstract specification of what managers and programs promise about
descriptors (one that is opened is used by the thread that opened it, and closed
once), with `IFaceManager` and `PacketPrograms` shown to implement it.

Not modelled, and not planned: `Result` (a `std::variant` behind accessors, which
nothing in the repository uses; its copies and moves are the standard library's),
`system_error` (one call), `udp_server` (a loop that receives and prints, and
returns on every failure), text output but for the order and the storage of the
address conversions in it, and the setters of `EthernetBuilder` and `UdpBuilder`
beyond what the clients make of them (each stores one field).
