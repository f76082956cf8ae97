# LANScan: models, checks and proofs

TLA+ models of LANScan for iOS (`src/LANScan`) and of the part of ReactiveCocoa it
stands on, the TLC runs that check them and proofs of the properties that matter most.
Line numbers refer to `src/LANScan` unless a path is given. `PROJECT.json` maps every
definition to the lines it stands for.

## The system

LANScan finds the hosts of the local subnet. One touch starts a scan: 254
`PingWrapper`s ping the addresses `.1` to `.254`, the hosts that answered are
given a name, a MAC address and a manufacturer, and the list is shown. A touch on
a row opens a screen that scans 100 TCP ports of that host and types the result
into a terminal.

| part | files | state it keeps | operations |
|---|---|---|---|
| SimplePing | SimplePing.m, SimplePing.h | CFHost, CFSocket, address, next sequence number, wrapped flag | start, resolution callback, send, socket callback, stop |
| packets | SimplePing.m | the packet in the buffer | build, find the header, check, hand up |
| PingWrapper | PingWrapper.swift | the SimplePing, the 1.5 s timer, the completion | startPing, timeout, six delegate methods, stopPing |
| pipeline | LANScanner.swift, Extensions.swift, APIManager.swift, MacFinder.m, HostnameResolver.m | the values each join has so far | subscribe, ping reports, names, requests, answers |
| scan screen | ScanViewController.swift, ScanView.swift, TopView.swift | two buttons, spinner, rows, hosts, what is presented | initial scan, scan, select a row, show hosts |
| address and Wi-Fi | IPAddress.swift, WiFiCheck.swift, Reachability.m | none | two questions asked of the system |
| port scan | PortScanner.swift, SwiftSocket | one client at a time | connect, report, close |
| terminal | HackerTerminal.swift | buffer, isTyping, text | insertText, the writer |
| device screen | DeviceViewController.swift | the turn of the main thread | load, deliver the services |
| joins | ReactiveCocoa (`src/Pods`) | last values, completion flags | combineLatestWith, subscribeOn, deliverOnMainThread |
| tuples, macros | RACTuple.m, RACStream.m, RACmetamacros.h | none | pack, index, unwrap the layers of a join |
| disposables | RACCompoundDisposable.m, RACDisposable.m | slots, array, block, disposed flag | addDisposable, removeDisposable, dispose |

How they interact. `SimplePing` calls its delegate synchronously, and the
delegate calls back into the object from inside the callback. `PingWrapper` calls
one completion, which feeds a signal; the signals of a scan are joined by
`combineLatest`, and the last value of a join runs the next stage on the thread
that sent it. Pings report on the main run loop, names are resolved on the global
queue, requests are made on background schedulers and answered on the main queue.
The scan screen subscribes on the main thread and is updated in the turn that
delivers. The device screen inserts its header, subscribes to the port scan in the
same turn, and inserts one text per service in the turn that delivers, while the writer
of the terminal runs on a background queue. Every subscription holds a compound
disposable, and the one of a port closes its socket.

What is hard:

* four things can end a probe (a reply, a failed send, a read error, the timer),
  in any order, and nothing in `hostFound` guards against a second report;
* `sendPingWithData` and the resolution callback go on after the delegate stopped
  or restarted the object under them;
* all ICMP sockets receive all ICMP messages, so replies are told apart by a
  random identifier and a sequence number that wraps;
* the length of an IPv4 header comes from the packet, the checksum is cleared in place
  while it is computed, in the wrong byte order and on a signed accumulator;
* only `next` crosses from the inner signals of the pipeline to the outer one, so
  a stage that ends without a value leaves a scan that never ends;
* the check of the scan button and the address of the scan are answers to two different
  questions, and the address is the last one of `en0` in a list;
* nothing but a disabled button keeps two scans apart, and the rows of the list
  and the array they index are two variables;
* a join of 254 signals is a chain of 253 locked pairs fed from several threads, and
  each pair calls the one above with its lock held; the values come out of as many
  nested tuples, in which a nil or a tuple that was sent could pass for a layer;
* a compound disposable has a lock that is not recursive, disposables with blocks that
  call it again, and callers that add to it while others dispose of it;
* the terminal's buffer is shared by two threads without a lock, and the port
  scan closes a socket through a disposable made after its signal completed.

What makes each part correct: a probe reports once and then is silent; a reply of ours
is recognised and nothing else is; a join sends once, when the last value is in, the
values in the order of the signals; a scan delivers the hosts that answered, complete;
the screen runs one scan at a time and its rows agree with the array they index; a
port scan closes each socket before it opens the next; a block of a disposable runs once;
the terminal has one writer and types whole texts, and the display tells the port scan;
the checksum is the one of RFC 1071.

## Modules

`SimplePingObject` is a SimplePing instance as a value: a record with the
object's properties, and its private methods as operators on that record. The
methods run to completion on one run-loop thread, so they are functions. A CFHost
or CFSocket is a number, 0 is NULL, and the field `sources` is what the run loop
holds for the object. It is separate from the fields `host` and `socket`, so the
model can tell an object that has forgotten a socket from one that has closed it.

`SimplePing` puts one object under any client that keeps the rules of
SimplePing.h. An action is one turn of the run loop. In every callback the client
may return, stop the object, or stop and restart it. `calls` records what the
delegate saw in the last turn, and `sent` counts pings, so that the real numbers
of the last pings are known.

`ICMPPacket` has the same object once it is started, with whole packets: the fields of
ICMPHeader, the word the payload adds up to, and the lengths of the message and the IPv4
header in front of it. `sendPingWithData` builds a request, `readData` validates what was
read and hands it to the delegate; `Reply`, `DamagedReply` and `OtherPacket` are the
network. `Touched` is the set of bytes the validation reads or writes. The checksum is
that of `Checksum`, in closed form.

`Checksum` is `in_cksum`, one action per statement, over bytes of any base.

`HostProbe` is what the rest of the program relies on: each probe that begins is
reported once, found or not.

`PingWrapper` has one wrapper per host on the main run loop, and the network.
State: the object, `timer` (nil, scheduled, fired), `reports` (the calls of the
completion), `started`, `identifier`; and `wire`, `inbox`, `answered`, `foreign` for
the network. `startPing`, `ResolveFails`, `ResolveSucceeds`, `ReadFails`, `ReadPacket`
and `timeout` are the turns, each with every nested call: a resolution that
succeeds creates the socket, schedules the timer, sends, and on a failed send
reports and stops, and then advances the sequence number of the stopped object.
A one-shot timer may or may not be valid inside its own callback; both are
modelled. `Reply` and `OtherTraffic` are the network: a request stays on the wire
and may be answered never, late or often; each answer reaches any subset of the
open sockets. `OtherTraffic` is every ICMP message these pingers did not cause: the
replies to the pings of other programs and of an earlier scan, which the kernel hands to
each ICMP socket (SimplePing.h:213-217), with any identifier and any number, and messages
of other types. `foreign` remembers the identifiers of those replies. A socket holds
`SocketBuffer` packets and drops the next.

`WiFi` is the pair of questions: `networkStatusForFlags` of Reachability, `getWiFiAddress`
over a list of interfaces with up to `Entries` addresses, and `getIPPrefix`. They are
operators without a state. `Ascending` is the order of a joined list after a filter: hosts
and ports are numbered in the order of their signals, so what is left of a list is a set in
ascending order.

`LANScanner` extends `WiFi` and has one pipeline per subscription. `stage` is the join the
scan waits for; `prefix` is what the addresses of its hosts begin with; `ping`, `named` and
`vendor` are the values that have arrived. `wifi` remembers which families `en0` had an
address of when the scan began. A ping reports what HostProbe says it may, found or not,
whatever its name is: nothing is assumed of what the resolver makes of a name without a
subnet. `signalForPing` sends a value and completes at once, so a second call of the
completion would find the subscription disposed of; `Listens` is that the subscription is
still there (RACPassthroughSubscriber.m:67-95). A
scan with no address or no host that answered is "dead": nothing is queued and the
subscriber is never called.

`ScanScreen` extends it with the screen. Each action is a turn of the main thread,
guarded by what UIKit lets the user touch; the pipeline step that delivers also
updates the screen. Which part of the screen may be touched (not hidden, disabled,
faded or covered) is UIKit's, modelled from how the code uses it.

`Join` is what LANScanner relies on when it takes a join as one step: when all
values are in they are handed on, once. `CombineLatest` is how ReactiveCocoa does it:
pair p of the chain joins pair p - 1 with signal p. A `carrier` is a thread that
brings the value or the completion of one signal into the chain. Taking the lock of a pair
and storing into it is one step, since nothing is visible in between; `lock`, `value` and
`completed` are what the pair keeps. The maps at the ends of the chain subscribe to an
inner signal, which on a thread without a RACScheduler is done by the background scheduler,
carrier 0. Each signal may send inside its subscription, from a thread with a scheduler, or
from one without, as ports, pings and names do; what it sends may be nil or a tuple.
`delivered` holds the nested tuples the top pair sent, and `unwrap` is what the last map
of the join makes of them: `peel` is one round of its loop, which takes the last value off
a layer, and a join of N signals has N `rounds`. Every signal may complete here
and none has to: those of the manufacturers never do. A join of one signal has no pair and is
not in this model.

`RACTuple` has the tuples (an array in which RACTupleNil stands for nil) and what packs and
indexes them, and `Metamacros` the tables of macros they are packed with, each row defined
from the row before.

`CompoundDisposable` has any number of threads in the calls of one compound disposable and
of the disposables in it. What a thread does under the spin lock is one step, the lock being
a variable; disposing of what was taken out happens afterwards, one disposable at a time,
and each is a load, a compare and swap, and the run of the block, which may call the
compound disposable again, to remove or add a disposable or to dispose of it.
`DisposableSet` is what RACCompoundDisposable.h promises: each call takes effect at once,
and what is owed its disposal gets it.

`PortScanner` is one scan of a host's ports. One thread subscribes to them in order;
`connect` and `select` are the two halves of `ytcpsocket_connect`, `send`, `complete`
and `return` the rest of `signalForPort`. `fd` is the client's descriptor and `open`
what the kernel has open, so a socket that nobody can close would show.

`HackerTerminal` has the main thread and the writers at the grain of one read or write
of `buffer` and `isTyping`. An append and a removal are a load and a store each; two
that overlap are a data race, remembered in `raced`. Texts are numbered by the call of
`insertText`.

`DeviceScreen` extends both. `turn` is what the main thread has left to do in its present
turn and `said` what each text says: `viewDidLoad` types the header and then starts the
scan, `subscribeNext` and `insertService` type the services in the turn that delivers, and
`pressKey` is a keyboard. Blocks of the main queue run between turns only, the scan and
the writer at any time.

How the modules meet: SimplePing, ICMPPacket and PingWrapper use `SimplePingObject`;
PingWrapper implements HostProbe, and LANScanner takes the report of a ping as HostProbe
promises it; ScanScreen extends LANScanner, and that extends WiFi; ScanScreen and DeviceScreen list
what was found with Ascending; CombineLatest implements Join and extends RACTuple, which
extends Metamacros; CompoundDisposable implements DisposableSet; DeviceScreen extends
PortScanner and HackerTerminal.

`SimplePingProofs`, `PingWrapperProofs`, `ICMPPacketProofs`, `ChecksumProofs`,
`ScanScreenProofs` (with LANScanner and WiFi), `CombineLatestProofs`,
`CompoundDisposableProofs` and `DeviceScreenProofs` (with PortScanner and HackerTerminal)
hold the proofs. `MCPingWrapper` adds the symmetry of hosts, used in a
safety run only; the other modules are checked as they are.

## Runs

| run | question | bounds |
|---|---|---|
| simple_ping | does the object keep its contract with every client | 3 starts, 8 pings, modulus 5, window 3 |
| simple_ping_window (violation) | is an accepted number among the last ones sent | 1 start, 6 pings |
| ping_wrapper | does a probe report once, then fall silent, in the end always | 2 hosts, 2 identifiers, modulus 2, window 1, 2 packets in a socket (`SocketBuffer`) |
| ping_wrapper_collision (violation) | does a found host answer, whatever the identifiers of the scan | the same |
| scan_screen | is a delivered scan complete and an answered one shown; one scan at a time; rows and array agree | 3 hosts, 2 scans, 2 addresses of interfaces (`Entries`) |
| lan_scanner_test (violation) | is every subscription sent its hosts | 2 hosts |
| combine_latest | do the locked pairs join like Join, in order, on whatever threads | 4 signals (one sends nil, one a tuple), 5 threads |
| compound_disposable | is it a set whose calls take effect at once, and does a block run once | 2 threads, 3 disposables, 2 slots, 5 calls |
| device_screen | one socket, one writer, whole texts, and the display tells the scan | 2 ports, 1 key, 4 texts of 2 characters |
| checksum | is the result the checksum of RFC 1071, and does the sum fit | bytes of base 3, up to 8 of them |
| icmp_packet | are replies recognised and damage refused, inside the packet | 3 pings from number 65534, the code's modulus and window, 9 lengths |
| icmp_packet_unexpected (violation) | is an unexpected packet without its IP header | the same |

Why the bounds are enough. A modulus of 5 with a window of 3 wraps within 8 pings and leaves
numbers outside the window on both sides; 3 starts let a stale CFHost or CFSocket of one run
meet two later ones; the proofs cover any number of both. Probes of different hosts meet
only through the replies that reach the wrong socket, which takes two. A probe sends one
ping, number 0, so modulus 2 with window 1 has one number that may be accepted and one
that never is; two identifiers give another pinger, another program or an earlier scan
the same one or a different one; two packets in a socket put the one that is read next to
one that stays or is lost. The proofs cover any number of each, and any modulus and
window. The joins treat all hosts alike, so three hosts give none, some and all found, with
one that is neither first nor last. Scans meet on the screen in pairs: an older scan and a
newer one. Two interface entries put an address of `en0` before or after another one, or
leave it out; the proofs cover any number of hosts, scans and entries. Four signals make a
chain with a bottom, a middle and a top pair, and a longer chain has more middle ones; the
proofs cover any number from two. Three disposables fill both slots and the array, two
threads race for the block of one, and five calls let one add while the other has disposed;
the proofs cover any number. Two ports make the delivery that inserts a text while the text
before is being removed, and a key may come between any two turns; a text of two characters
has an inside; the proofs cover any number of ports, keys and texts, of any length. Eight
bytes of base 3 (a word is 9, the signed limit 39) sum to 32, enough to carry out of both
folds; the proofs cover bytes of 2^8 and 65535 of them. Three pings from 65534 straddle the
wrap, and the lengths are those at each test of a length and one below. Deadlock is checked
in combine_latest, whose locks could cause one; elsewhere it is not checked: every other
model stops once the user does nothing more or the bound on starts, pings, scans or calls is
reached. A thread that waited for ever for the lock of a compound disposable would leave
disposables it owes undone, which `ImplementsDisposableSet` forbids.

What the runs show:

* `SourcesAreCurrent`, `PhaseAgreed`, `CallbackContract`: stops and restarts inside
  callbacks never leave a CFHost or CFSocket scheduled that the object forgot, so the
  assertions of SimplePing.m (142, 143, 240, 568, 589, 718, 734, 735) hold. `StartAnswered`:
  every CFHost is given up in the end.
* `RecentAccepted`: no reply to one of the last 119 pings is refused, across the wrap.
  `AcceptedAreLastSent` fails: the comment at 354-357 says 120, and the code takes the
  number about to be sent in exchange for the oldest (line 362).
* `AtMostOneReport`, `ReportedIsQuiet`, `PendingHasWakeup`, `EventuallyReported`,
  `ImplementsHostProbe`: one report per probe, then silence, and always a report.
* `FoundIsAnsweredIfDistinct`: a host is found only if it answered, as long as nobody else
  uses its identifier: no other pinger of the scan (`Distinct`), and no other program or
  earlier scan whose replies arrive (`NoForeigner`). Both conditions are needed. The code
  looks at the type, the code, the checksum, the identifier and the number
  (SimplePing.m:389-404) and never at the source, so a reply of anybody with an equal
  identifier and number 0 is taken for the host's. `FoundIsAnsweredAlways` drops `Distinct`
  and fails with no foreign reply at all. 254 random 16-bit numbers hold two equal ones in
  about 39% of scans.
* `OwnReplyIsRecognised`, `DamagedIsRefused`: a reply is recognised behind any IPv4 header
  and with its own number, in either family and across the wrap, and a reply with one bit
  changed is not. `StaysInPacket`: no header length leads out of the packet.
  `HandedUpIntact`: the checksum is put back, accepted or not.
  `UnexpectedHasNoIPHeader` fails: SimplePing.h:227-228 promises
  `didReceiveUnexpectedPacket` a packet without IP headers, and `readData` passes the
  IPv4 header of every packet it did not accept (SimplePing.m:530).
* `DeliveredIsComplete`: a scan delivers the hosts that answered, all and only them.
* `PingsStayOnWiFi`: a scan pings if and only if `en0` had an address when it began, and
  then the names of the IPv4 subnet of `en0`, or, when an IPv6 address of `en0` came last
  in the list, names without a subnet (".1" to ".254",
  LANScanner.swift:33-37, 62-69): never the subnet of another interface. What the
  resolver makes of a name without a subnet is left open.
* `EveryScanDelivers` fails, which is what `testLanScanSignalForNil` waits for.
* `AtMostOneScan`, `ButtonTracksScan`, `RowsAreLatest`, `ScanningIsShown`,
  `AnsweredScanIsShown`: the disabled button is enough to keep scans apart, a scan that
  was answered is shown and the button comes back. The button stays disabled for ever
  after a dead scan.
* `ImplementsJoin`, `ValueBeforeCompletion`, `DeliveredInOrder`: the locks of the chain make
  the last value be sent once, the locks are taken in one order so no ring can form, no
  completion overtakes a value, although maps may hop to the background scheduler, and the
  values come out in the order of the signals with nils and tuples as they were sent.
* `BlockRunsOnce`, `ImplementsDisposableSet`: the compare and swap gives each block to one
  thread; what is added while another thread disposes, or after, is disposed of.
* `OneDescriptor`: the compound disposable that has ended disposes of the
  client handed to it late (RACCompoundDisposable.m:133-161), so a scan of a hundred ports
  needs one descriptor.
* `TypingIsOneWriter`, `RemoveIsSafe`, `TextsAreWhole`: two unlocked variables are enough for
  one writer, no trap in `remove(at: 0)` and whole texts, even after a race.
  `NothingLostIfNotRaced`: nothing is lost unless an append overlaps a removal.
* `DisplayTellsScan`, `ServicesAreShown`: the display has the header first and then the
  services in the order of their ports, each once, whatever a keyboard puts in between, and
  in the end every text that started a writer is shown with all the texts before it. Both
  hold as long as no append overlapped a removal.
* `AnswerIsNetworkChecksum`, `AccumulatorFits`: two folds are enough, and the order of bytes
  does not matter (SimplePing.m:223-224).

A text can be stranded: inserted after the writer's last test of the buffer and before
line 57 clears `isTyping`, it starts no writer and waits for the next `insertText`. The
code promises nothing else, so no run calls it wrong; `ServicesAreShown` says how far the
promise goes.

The spinner can be left on: when the first scan delivers before the 0.7 s animation
of `ScanView.initScanView` completes, the completion (line 80) shows the spinner over
the finished list. Nothing in the repository says otherwise, so no run calls it wrong.

## Fairness

SimplePing and PingWrapper: weak fairness of the resolver's callback (CFHost always answers,
with an error if need be) and of the timer's. Both are sources of the main run loop in its
default mode, so it is assumed to come back to that mode. Nothing is assumed of the network.
LANScanner: a pending ping reports, which is what PingWrapper's `EventuallyReported` gives;
blocks on queues run; Alamofire calls each response handler, with a timeout error at the
latest. ScanScreen: the work of each scan goes on, by the same reasons, and animations
complete. CombineLatest: the steps of the threads inside the chain and those of the
background scheduler, taken together, do not stop while one of them can be taken; that a
signal sends at all, or completes after it did, is not assumed. CompoundDisposable: a thread
inside a call runs; calls are few and the lock is held for a moment, so weak fairness is
enough for a thread that spins. DeviceScreen: the main thread gets on with its turn and runs
the blocks of its queue, the writers run, the background queue runs the scan, and connect
returns, since the socket does not block and select has a timeout of a second. The user is
never assumed to touch anything or to press a key. ICMPPacket and Checksum have safety
properties only.

## Proofs

`PingWrapperProofs` proves, for every set of hosts and identifiers and every modulus
and window with `SequenceAssumption`:

* `PhasesInvariant`: the inductive invariant `IInv`. None of the properties is inductive
  alone: "at most one report" needs that a reported probe has no source left,
  which needs to know which sources an unreported one has. `IInv` says which of
  four phases a probe is in: idle, resolving (only the CFHost can call), waiting (only
  the CFSocket and a scheduled timer can) or reported (nothing can). It has one lemma
  per action, over lemmas about the object's and the wrapper's methods.
* `TypeCorrect`, `OneReport`, `ReportEndsProbe`, `PendingIsWoken` follow from it.
* `ImplementsProbe`: Safety implies the safety part of HostProbe. `startPing` is `Begin`
  of its host, a callback is `Report` or a stutter; that it comes to a probe without a
  report is what `IInv` is needed for.
* `FoundAnswered`: `FoundIsAnsweredIfDistinct`. The extra invariant `Matched` follows an
  identifier from the request over the reply to the report. A request leads back to a host
  that drew its identifier; the identifier of a reply, and of a host that was found, is
  `Accounted` for by a host that drew it and answered or by a foreign reply that carried it.

`SimplePingProofs` does the same for any client of SimplePing.h, and any number of starts
and pings: `NoStaleSource`, `PhasesAgree`, `ContractKept`, `RepliesAccepted`. The invariant
says that the object and the client are "settled" between any two methods of a turn: what
is scheduled is what the fields name, both agree on the phase, the callbacks made so far
found what SimplePing.h promises, and the next number is the number of pings modulo the
modulus, with the flag set exactly when that has wrapped. Every method and every reaction
inside a callback keeps it, so a turn keeps it, however the calls are nested.
`RepliesAccepted` then rests on two lemmas about remainders.

`ICMPPacketProofs` proves `RepliesRecognised`, `DamageDetected`, `ReadsInside` and
`HandsUpIntact` for every identifier, first number and payload. The core is arithmetic
of one's complement sums: a bit changed anywhere changes the sum by a power of two, which is
less than 65535, and sums that differ by less than that fold to different words.

`ChecksumProofs` proves `ChecksumTypes` and `NoOverflow` for every base and any buffer
shorter than a word: the sum is at most a full word for every two bytes added, and a
word and a half after the first fold. `AnswersForTheNetwork` is that the answer is the
checksum of RFC 1071. The reference adds the words most significant byte first and folds
after each; the code adds them in the order of the host and folds twice at the end.
The invariant `Networked` relates the two sums after every word: modulo Word - 1 the one
is the other multiplied by the base (which is what swapping two bytes is), they are zero
together, and a fold changes neither fact. A word is determined by that residue except
for 0 and Word - 1, which the zeroes tell apart.

`ScanScreenProofs` proves, for every finite set of hosts, any scans and lists of
interfaces of any length, every safety property of the run scan_screen. The inductive
invariant has three parts. `StageTells` says what the stage of a scan tells of its
pings, names and requests: while a join waits, a value is missing, and nothing of a later
stage has begun. `WholeDelivered` (`DeliveredIsComplete`) is its case of a delivered scan.
`OnWiFi` carries the families of `en0`'s addresses from the start of a scan to its pings,
for `PingsOnWiFi` (`PingsStayOnWiFi`). `OnlyLatestRuns` and `StartIsFirst` say that scans begin in
order and all but the latest are delivered, which the buttons guarantee: the initial
button is gone after the first scan, and the other one is enabled by a delivery. From these
follow `OneScan`, `ButtonTells`, `RowsOfLatest`, `ScanShown` and `ScreenTypes`; that only the
latest scan can still deliver is what the buttons and the rows depend on, and the rows need
`InOrder` of a set to be a list with every element at its place.

`CombineLatestProofs` proves, for two signals or more, whatever they send and on whatever
threads:

* `JoinInvariant`: the inductive invariant. `Locks`: a carrier keeps the locks of the pairs
  it has come through and no others. `SendsOnce`: a signal brings one value, the first one
  itself or through the background scheduler. `NotYet` and `HasEntered`: what a carrier
  brings is not in yet, and what it leaves behind is. `Chain`: a pair that has both its
  sides has passed its value up, or one carrier is on its way with it; what was passed
  up had both sides at every pair below. `Maps`: an inner signal leaves when it has sent.
* `NoCompletionOvertakes` (`ValueBeforeCompletion`): a completion needs the lock of the
  pair, which the carrier of the value keeps until the pair above has it.
* `TakesTheStepsOfJoin`: the safety part of `ImplementsJoin`. A store at the first pair of
  a carrier is the arrival of its value, the last map's is the delivery, and every other
  step is a stutter.
* `LayersInOrder`, `ValuesInOrder` (`DeliveredInOrder`): each side of a pair holds
  what its signal sent or what the pair below packed, so the delivered tuple is a layer per
  pair. That the loop takes off one value in each round, the n-th round that of the signal
  N + 1 - n, is shown along the rounds; a nil is packed as RACTupleNil and a tuple
  that was sent sits at the end of its layer, where the loop does not look into it.
* `NobodyWaitsInARing`: whenever carriers are inside the chain, one is about to test its
  pair or waits for a lock that is free. A carrier keeps only locks below the one it waits
  for, so the one at the highest pair waits for nobody.

`CompoundDisposableProofs` proves, for any number of threads, disposables and slots, that
each block runs at most once (`BlocksRunOnce`) and that every step is a step of
`DisposableSet` or a stutter (`ImplementsSet`). The invariant: a block that is still there
has not run and nobody is about to run it, and at most one thread is about to run one that
is gone. What a thread has taken upon itself to dispose of is what DisposableSet calls owed.

`DeviceScreenProofs` proves, for any number of ports, keys and texts, and texts of any
length, every safety property of the run device_screen:

* The terminal: `NeverTwoWriters` and `NeverRemovesFromEmpty`. `isTyping` is set exactly
  while one writer runs, so the only store of another thread between a writer's test and its
  removal is that of an append, which leaves a text in the buffer. `TextsStayWhole` adds
  that what is typed next goes on with the last text on the display or begins one,
  races or not. `NothingIsLost` needs the order: until an append overlaps a removal, some k
  texts were taken, in order, their characters are on the display up to the one in hand,
  the buffer is the texts after them, and a loaded array is the buffer as it is.
* The scan: `DescriptorIsReused`. Where the thread is in `signalForPort` tells which
  descriptors there are.
* The screen: each step of it is a step of the scan or leaves it alone, and the same for the
  terminal, so the invariants of both hold there: `ScreenDescriptors`, `ScreenOneWriter`,
  `ScreenRemovals`, `ScreenTextsStayWhole`, `ScreenNothingIsLost`. `DisplayTells`
  (`DisplayTellsScan`) combines them with `Telling`: what was said of the services so far,
  and what the turn has left to say, is their list in order.

Assumptions: those on the constants, named in each module (`SequenceAssumption`,
`SimplePingAssumption`, `PingWrapperAssumption`, `PacketAssumption`, `ChecksumAssumption`,
`CompoundAssumption`, `TerminalAssumption`, `PortAssumption`, `SignalsAssumption`,
`EntriesAssumption`, and `ScreenAssumption` of DeviceScreen and ScanScreen).
`TupleAssumption` and `MetamacrosAssumption` are used in no proof: they state what
RACTuple.h and RACmetamacros.h document of the operators, over small arguments, which TLC
evaluates in the run combine_latest.

Recursive definitions that proofs are about (`networkSum`, `rounds`) are functions on an
interval of numbers. That such a function exists and satisfies its equation, and what
follows from it at every argument, is proved with the least number at which it would fail,
taken from the set of those numbers (`WFMin`); the induction theorems of the library have an
operator as a parameter, which no installed prover can instantiate.

Every invariant and every action property of a passing run is proved. Only model-checked
are the properties with fairness, because the provers have no ENABLED: `StartAnswered`,
`EventuallyReported`, `AnsweredScanIsShown`, `ServicesAreShown`, and the fairness parts of
`ImplementsHostProbe`, `ImplementsJoin` and `ImplementsDisposableSet`, whose safety parts
are `ImplementsProbe`, `TakesTheStepsOfJoin` and `ImplementsSet`. The properties of the
violation runs are false of the code.

## Plan

Done, in this order: SimplePingObject and SimplePing, PingWrapper over HostProbe,
LANScanner, ScanScreen, CombineLatest over Join, HackerTerminal, PortScanner, Checksum;
then ICMPPacket, WiFi, DeviceScreen, CompoundDisposable over DisposableSet, RACTuple and
Metamacros, each with its proofs. To come:

1. PortScanner over CompoundDisposable, in place of the one case of `addDisposable`
   it needs, with the theorem that the client of a port is disposed of once.
2. Theorems that join two models: that the joins LANScanner takes as one step are those of
   `Join` for each stage of a scan, and that the terminal implements an abstract one, a
   queue of texts, until an append meets a removal.
3. The steps behind the liveness properties that need no ENABLED: for each of them
   a measure, with the theorem that no step raises it and that the fair ones lower it.

## Not modelled

Layout and appearance (HostCell, Utils, the constraints, SnapKit, SpinKit), the
application delegate, Alamofire's and UIKit's insides, what the user deletes in the
terminal, memory management, and the wording of log messages. Some code takes part in no
behaviour of the program and has no model for that reason:

* `MacFinder.ipToMac` returns a constant; its ARP lookup is commented out, and with it
  every use of the BSD headers copied into the project (route.h, if_types.h, if_arp.h,
  if_ether.h).
* Of SwiftSocket, the UDP client, the TCP server, and `pull` and `send` of the TCP client:
  the port scan connects and closes.
* The ReactiveCocoa operators and classes the program never calls (sequences, commands,
  channels, key paths, scoped disposables, `RACTupleUnpack`). Their headers hold declarations
  and documentation; the behaviour of those the program does call is modelled from the
  implementation, and the promises their headers make are among the properties.
