# Acacian in TLA+

Acacian is a C implementation of ACN (ANSI E1.17): a root layer over UDP, the
session data transport SDT, the device management protocol DMP on top of it, a
parser for the device description language DDL, and discovery by SLP. This
directory holds TLA+ modules that model it, the TLC configurations that
check them on small instances, and TLAPS proofs of the invariants that matter
most. `src/` below means the root of the repository.

The modules follow the build the demonstrations use: one local component
(`CF_MULTI_COMPONENT` 0), one client protocol
(`CF_SDT_MAX_CLIENT_PROTOCOLS` 1), `CF_SDTRX_AUTOCALL` 1 and
`CF_SDT_CHECK_ASSOC` 0. RlpSockets takes the root layer built for several
protocols, where its counts mean something. The process is single threaded: every handler, callback
or timer action runs to its end before the next (`evl_wait`), so one action of a
module is one such call with everything it calls. Where a call is split, as
`processtimers`, `discover` and `dmp_openpdu` are, it is because callbacks run
inside it, and the module keeps everything else out until it is done.

## The system

| Component | Source | State | Operations | Hard part |
|---|---|---|---|---|
| SDT sessions | `csrc/sdt.c` | `member_s` (halves `rem` and `loc`, `connect`, timers), lists of channels | `addMember`, `rx_join` ... `rx_ack`, `killMember`, timer actions, client add and drop | two ends, lost and late level 1 messages, restarts |
| SDT receiver | `csrc/sdt.c` | `Rchannel_s`: Tseq, Rseq, aheadQ, NAK timer and state | `rx_wrapper`, NAK timers, `rx_outboundNAK` | loss, duplication and reordering |
| SDT owner | `csrc/sdt.c` | `Lchannel_s`: Rseq, ackcount, back wrappers, NAK blanking | `_flushWrapper`, `updateRmembSeq`, `rx_ack`, `rx_ownerNAK` | members come and go while wrappers wait for them |
| SDT members | `csrc/sdt.c` | table of members, himid, lastackmid, maktries | `linkRmemb`, `unlinkRmemb`, `setMAKs`, `makTimeoutAction`, autoack | any sequence of joins and leaves, silence |
| Wrapper construction | `csrc/sdt.c` | a `txwrap_s` a caller holds, with the fields of its last PDU | `addProtoMsg`, `startProtoMsg`, `endProtoMsg`, `rptProtoMsg`, flushing | fields that PDUs leave out, wrappers that fill up in the middle of a call |
| Event loop, timers | `csrc/evloop.c` | sorted timer queue | `set_timer`, `cancel_timer`, `processtimers`, `evl_wait` | timers changed by actions, a clock that wraps |
| Components | `csrc/component.c`, `component.h` | set of remote components, usecount | find, add, release | references from SDT, discovery and the application |
| Root layer | `csrc/rlp_bsd.c` | sockets, groups, handlers, each counted | `rlpSubscribe`, `rlpUnsubscribe`, `rlp_packetRx` | sharing, failure half way |
| Discovery | `csrc/discovery.c` | registration state, components found | `slp_register`, `slp_refresh`, `discover` and its callbacks | callbacks that add and free components |
| DMP | `csrc/dmp.c` | transmit context, open PDU | `dmp_openpdu` ... `dmp_flushpdus`, `rx_devvec`, `rx_ctlvec` | packing, addresses relative to the last, access |
| DMP map | `csrc/dmpmap.c` | sorted map of regions | `mapprop`, `addr_to_prop`, `propmatch`, `xformtoindx` | interleaved arrays |
| UUID sets | `csrc/uuid.c` | a tree on bit positions | find, add, unlink, iterate | removal |
| DDL parser | `csrc/ddlparse.c` | element depth, property tree, queue of modules, tasks | expat callbacks | arrays in arrays, included devices, errors skipped |
| Keys | `csrc/keys.c` | hash table | find, add, grow | growth |
| Demonstrations | `demo/` | the device's bars, the controller's list | get, set, subscribe, print | ranges of addresses, stale pointers |
| E1.31, multicast addresses | `csrc/e131rx.c`, `csrc/mcastalloc.c` | sources, a counter | | not built, no interaction |

How they interact: the event loop calls `udpnetxRx` for a packet, which calls
`rlp_packetRx`, which calls the SDT handler registered for the socket
(`sdtRxAdhoc`, `sdtRxLchan`, `sdtRxRchan`); level 1 messages are handled at once,
a wrapper goes through `rx_wrapper`, its SDT messages to the `rx_` handlers and
its client messages to the queue that `readrxqueue` hands to DMP. Both ends of a
session send in wrappers of their own channel, which carry the ACKs for the
other's. Timers call back through the loop. The application is told of members by
`membevent` and adds or drops members from within that callback.

## Modules

**SdtSession** is the life of a session between a leader, which calls
`addMember`, and a follower, which answers a cold Join with a reciprocal channel.
`memb[c]` is the `member_s` each keeps for the other: `rem` and `loc` are its two
`mstate`s, `connect` the CX flags, `timer` the action of `rem.stateTimer`, `pos`
the Tseq of the remote channel. `net` is the set of all level 1 messages ever sent
(a delivery does not consume one: loss, delay, repetition and reordering in one),
`log[ch]` the wrappers of a channel. Every handler of level 1 messages and every
SDT message in wrappers is an action, as are the timer actions, the
application's calls, failing sends, and processes that stop or restart.
That wrappers are taken in order, with reliable ones not skipped, is assumed
here and shown by SdtReceiver.

**SdtReceiver** is the receiving end of one channel: `rx_wrapper` with its queue
of wrappers ahead of sequence, NAK holdoff, retry and suppression, `NAKcheck`.
The network delivers any wrapper ever sent. **SdtReliable** is what a channel
promises a member: it takes the stream in order, skips unreliable wrappers
only, and leaves when a reliable one cannot be had. SdtReceiver implements it; the
refinement is the identity on `sent`, `base`, `taken` and `state`.

**SdtOwner** is the sending end: back wrappers with the acks each still waits
for (`acks`, `oldest`), `ackcount`, the position `rem.Rseq` of each member, NAK
blanking and resending. The members' own ends are the environment (`peer`): they
follow the channel from the Join, take every wrapper from their first ACK on,
acknowledge and NAK.

**SdtMembers** is the table of members (`chan`), with pointers to freed members
and memory that was never initialised kept apart as "junk", the ACKs a wrapper
carries for its members in turn (`lastackmid`), and the priority MAKs with
`maktries`.

**SdtWrapper** is one wrapper handle: what the four functions that put messages
into it keep between calls (`pdus`, `left`, `prev`, `open`), and what receivers make of
the packet, who give a PDU's missing fields the values they had last. **SdtMailbox** is
the promise: messages that are accepted go out whole, in order, to those they were
for. The refinement maps the PDUs to what they say (`Unpack`). **DmpSender** extends
it with the transmit context of DMP: blocks inside a message, with addresses that
may be differences to the last one; `Reached` is the receivers' own account.

**TimerSet** is a set of deadlines; **EvlTimers** the sorted queue, the walk over it
that calls actions which set and cancel timers themselves, and the wait for events
or the next deadline, with a clock that counts modulo `Width`. EvlTimers implements
TimerSet by reading the deadlines off the queue.

**RlpSockets** has the shared socket of each port with its groups, dummy sockets and
handlers (`rlpsocks`), the kernel's account of descriptors and memberships (`open`,
`polled`), and the clients' account of what they subscribed (`subs`, a set in which
equal subscriptions are numbered). System calls fail. `rlp_packetRx` is a function of
the handlers and the packet.

**UuidSet** is the Patricia tree, as operators on a set with its nodes; **Discovery**
uses it for the set of remote components. Its other half, **SlpAgent**, is the
registration of local components: which are advertised, the handle they share and the
timers that refresh them. SLP calls back while `discover` runs, so a discovery is a few steps that
nothing else comes between. `heap` is what is allocated, `members` what SDT points to,
`remlist` what the controller does.

**DdlParse** is the parser. The document is whatever elements the callbacks bring;
`props` is the property tree, `nest`, `skip` and `cur` the parser's place in it,
`total` the running product of array sizes, `queue` the modules that wait, and
`ids` the table of **Keys**. The fields `rule`, `setp`, `at`, `id` and `ownId` of a
property keep what the document said, for the properties, which compute addresses
from them along the tree and not as the parser does. **DmpMap** is the address map
`propref_start` enters properties into. **DmpDevice** extends both: once the
document is parsed, a controller and a device that share it exchange property
messages, on the device's arrays (`held`) and the controller's print (`shown`).

**SdtSessionProofs**, **SdtReceiverProofs**, **SdtOwnerProofs**, **SdtMembersProofs**,
**DmpSenderProofs** (SdtWrapper with DmpSender), **RlpSocketsProofs** and
**ServiceProofs** (EvlTimers, SlpAgent) hold the theorems; **IndexLemmas** has two that
several share.

The SDT modules split one program: SdtSession has one member and abstracts the
sequence numbers to positions; SdtReceiver and SdtOwner have the sequence numbers
of one channel from either end and abstract the handshake to "joins", "counts"
and "is gone"; SdtMembers has several members and abstracts both; SdtWrapper has the
contents of packets and leaves out their numbers. Above and below them the seams
are the same: RlpSockets hands packets on, Discovery gives out components, DmpSender
makes messages that SdtReceiver's channel delivers in order, and DmpDevice starts
from messages that have arrived.

## Runs

| Run | Module | Result | Question |
|---|---|---|---|
| session | SdtSession | pass | Do the two halves advance in step, is each member timed, is a reciprocal channel open exactly while it has its member, and do both ends agree on the client connection? |
| session_faults | SdtSession | pass | Added a second time while old messages are in flight, with Joins repeated, a leader that stops and a follower that restarts: is each end that thinks the session up on the channel the other owns? |
| session_live | SdtSession | pass | With sends that fail, processes that stop and applications that drop the client: is every join decided, and every member dropped whose peer has no such session? |
| receiver | SdtReceiver | pass | Is the stream taken in order with no reliable gap, is every gap pursued and in the end closed or given up, and is the promise of the channel kept? |
| owner | SdtOwner | pass | Is no wrapper freed that a member lacks, is the count of acks exact, and is every wrapper freed in the end? |
| members | SdtMembers | pass | Is the table a directory of the members after any joins and leaves, do its loops end, are a member's tries used up by silence only, is each member acknowledged in turn? |
| packing | MCDmpSender | pass | Does each message accepted reach those it was for, and each DMP address arrive as the one that was meant, whatever PDUs leave out? |
| loop | EvlTimers | pass | Does the queue keep its timers' deadlines, and does each timer go off? |
| rlp | RlpSockets | pass | Does each subscriber have its socket, group and handler, is nothing kept of those that are gone, and is each PDU of a packet handed to its handler, with the source and data it means? |
| discovery | MCDiscovery | pass | Is the service agent open while something is advertised, is the component set a set, does each member point to a component in it, is a wrong attribute list refused? |
| ddl | MCDdlParse | pass | Is each address found to belong to the property the document puts there, is the tree as the document has it, do pointers and values lead where they say, and does each value that is set or asked for belong to the element at its address? |
| ddl_abort | MCDdlParse | violation | `ddlparse.c:3513` asserts that `arraytotal` is not 0 after each `</device>`; for a device that is included as an array it is: `pprop_end` (2893) divides by the array at `</includedev>` and again at `</device>`. |

What the violation shows is in PROJECT.json under "findings". Each mutant
listed there changes one definition the way a slip in the code would, and breaks
the property it is listed with.

### Bounds

* SdtSession: one or two `addMember` calls, two or three channels, up to three
  wrappers that get through on a channel (first ACK, Connect, Connect Accept; later
  ones are lost, as in a partition, which is what makes the MAK timeouts happen),
  one Join retry or none, one call of an application. Retries and MAK tries repeat
  the same step; the constants keep their place in the guards. session_faults
  leaves the client out (`MaxWrap` 1), since its property is about the ACK that
  completes a session. PeersAgree speaks of two calls, which is no bound of the run
  but the limit of what the code ensures, see below. A second follower would add nothing: members of a
  channel meet only in SdtOwner and SdtMembers.
* SdtReceiver: five wrappers. Two gaps, a queue of three and a wrapper that
  fills the middle of a gap all occur; `NAK_MAX_RETRIES` has its real value 2.
* SdtOwner: two members, three reliable wrappers. A Leave and a Connect are
  wrappers too; two members are enough for a count to be wrong while the other
  is right.
* SdtMembers: three components and a first table of two, so that the table grows,
  has a hole in the middle and shrinks across a hole; two MAK tries instead of
  three; room for one ACK, the hardest case for taking turns.

* SdtWrapper and DmpSender: three members on two channels, so that neither the MID
  nor the channel alone names one; a wrapper of 34 bytes, which two or three
  messages fill; addresses of five bits in fields of one, two or four bytes.
  `MaxPackets` is 2, and `FirstAndNext` explores short beginnings of the second only,
  since what a packet leaves behind in the handle shows in the first messages of
  the next. `RptFull` and `RptNoFlush` leave out two ways to use `rptProtoMsg` that
  are wrong, see below.
* EvlTimers: three timers, so that one is armed between two others; a clock of
  eight ticks and delays of 0 and 1, so that it wraps and timers tie. `MaxLate`: no
  call takes more than two ticks, far less than half the clock.
* RlpSockets: three groups in structures of two, four descriptors, three
  subscriptions of two protocols. A subscription is made while descriptors are
  left (`Fds`), since running out of them is one more way for `newSkt` to fail.
  `SpareMain` leaves out one failure, see below.
* Discovery: UUIDs of two bits, three of the four used: every shape of a tree of
  three. `Copies` structures for each CID, `MaxUrls` URLs in one discovery. The
  constraint `Apart` keeps one half where it started while the other moves, since
  they share no variable. `Events` and `OneEach` leave out what is wrong, see below.
* DdlParse: documents up to a weight of 4 (`MaxWeight`; `Weight` counts what few
  properties have), five properties, 17 addresses, about one of three subjects at a
  time (`Small`); and, of any weight, up to four network properties side by side
  (`MaxBeside`), which meet in the address map in every order, with arrays of 2. An array of
  3, an array of 2 in an array of 2, an include in an array, addresses that are
  absolute, and all ways through `mapprop` occur: a region of its own, a packed property that splits a region, a
  sparse one joined to one region or across the parts of a split one, and one that
  ends above a packed property and gets a new region there. `Layouts` is the set of
  layouts (`Mishap`) that are let in although `mapprop` or `propmatch` get them wrong: none in
  the runs; each is named under "What the code does" below. Elements within a
  skipped element nest no deeper than one (`SkippedStart`). The table of ids starts
  with two slots (the code's with 64), and all hashes want the same one (`MChash`), so
  that it grows and entries move.
* DmpDevice: the ranges are those of `MCRanges`, which step inside an array, from
  one property to the next, and past the end. The values set are new ones, ones over
  the maximum, which `setbar` cuts, and ones held already, of which it tells nobody.
  `Ready2Serve`: one message, and one behind a subscription, to a device of at most two
  properties beside its root (`MaxServed`), one of them an array. `OuterSteps` and
  `CommonData` FALSE leave out what is wrong, see below: ranges in which two or more
  elements in a row step along an array with another inside it, and set-properties that
  carry one value for such a row, of any array, or for elements of different sizes.

Deadlock is not checked: a bounded model stops when its bounds are used up, and
the real system stops when a session has ended and nobody starts another.

### Fairness

Only what the event loop guarantees: a timer that runs fires (`EachGoesOff`, checked
in EvlTimers, of a loop that goes round and a clock that runs on), so the timer
actions are weakly fair. Nothing is assumed of the network in
SdtSession and SdtReceiver: the liveness properties there hold because the timers
alone decide. `BackDrains` in SdtOwner needs the members: that one which is not
gone takes a wrapper in the end (resends after NAKs) and acknowledges it (its
keepalives carry ACKs; it is asked by MAKs). `EveryoneAcked` in SdtMembers needs
wrappers with room for an ACK to be sent again and again; the keepalive timer
sends one unless the application's own wrapper rearms it, so the assumption is
that the application does not fill every wrapper for ever.

## Proofs

All are checked by tlapm to the last leaf, for every value of the constants that
satisfies the module's named assumption.

* `SdtSessionProofs`: `Typed` (TypeOK), `Ordered` (HandshakeOrder) and
  `AlwaysTimed` (NeverUntimed). `IInv` is the type invariant with, for each member, the conjunction
  `Sound` of the two: what timer runs is determined by `rem`, and
  `rem` and `loc` restrict each other; neither is inductive without the other,
  since the handlers test one and set both.
* Also in `SdtSessionProofs`, about both ends and the messages between them:
  `PeersAlwaysAgree` (PeersAgree) and `ChannelsAreOwned` (RecipChannelOwned). The
  invariant `PeersInv` adds three parts to the session's: `Wired`, whose channel each
  member and each Join in flight names; `Heard`, that a reciprocal channel carries
  wrappers only once the leader has accepted it, so that an ACK in it proves an
  acceptance; `Attempts`, that one `addMember` accepts one channel at most, and that of
  two the leader's, when it has carried an ACK, is the later. PeersAgree alone says
  nothing of the messages that a later step may take. A handler is followed from the
  context it starts with to the one it commits (`Follows`). ChannelsAreOwned has the hypothesis `~ SendFail`: with it
  the property is false, see below.
* In the same module: `ClientsAlwaysAgree`, that `adds <= 2 => ClientAgree`, when no
  client handler is removed. ClientAgree speaks of ends that have read everything; a step
  on the way there is taken by ends that have not, so the invariant `ClientInv` says what
  one end's flags mean while the other's wrappers are still to be read. `Owned`: a
  wrapper on a channel is borne out by its sender's member as it is now, or a Leave of
  the same member follows it. `Met`: a follower that is joined has the leader that it
  knows. `AcceptReaches`: a Connect Accept that was sent has been taken by the peer or
  is ahead of where the peer has read. `AcceptMeant`: one that was taken was meant for the
  member that took it. Each has the same way out, `Doomed`: an end that cannot take all
  that its peer sends has a Leave before it, or a channel that is full (`MaxWrap`), and
  ClientAgree says nothing of it. The lemmas follow a handler twice, for what it says
  (`Worded`, `Told`) and for what it does to its own member; a Leave that is last
  in what a handler sends ends everything before it. With a handler removed the property
  is false (session.cfg with `AppCalls` `{"addClient", "dropClient"}`, `MaxApp` 2 and
  `MaxWrap` 5): after a Disconnecting, `rx_disconnecting` keeps the half that only it
  can clear.
* `SdtReceiverProofs`: `Typed`, `InOrderAlways` (TakenInOrder), `AssertionHolds`
  (NeverBehind), `GapsPursued` (GapIsPursued), and `Implements`: every behaviour
  of SdtReceiver is one of SdtReliable. The inductive invariant `IInv` adds to
  the properties what ties the parts together: `SentOK`, the Rseq of a wrapper
  counts the reliable ones before it; `ChannelOK`, the queue is sorted, its
  entries are wrappers of the stream and ahead of the sequence; `TakenOK`, Tseq and
  Rseq of the channel are those of the last wrapper taken. TakenInOrder alone is
  not inductive: a step from a state whose Rseq is not that of the last wrapper
  taken could skip a reliable one. The lemmas on `rx_wrapper` follow its cases:
  repeat, in order (with the loop that empties the queue), ahead. The loop is
  stated as the longest prefix of the queue that can be taken, not by
  recursion, which keeps it within the provers' reach.
* `SdtOwnerProofs`: `TypesKept` (TypeOK), and under `~ Late /\ ~ Reorder`
  `LedgerStaysExact` (LedgerExact) and `WrappersAreKept` (KeptUntilVerified), for any
  number of members and wrappers. These are the constants of the run `owner`, and
  either one makes both properties false (see below). The count of acks is a
  cardinality, and the walk over the back wrappers is stated by what it leaves
  (`UpdateFacts`). `LedgerInv` adds `PeersBehind`, that no report is ahead of what was sent, and
  `Placed`: a member's position is that of its last report and no more than it has,
  and one that is joining lacks nothing.
* `SdtMembersProofs`: `OnlySilence` (TriesAreSilence). Its `IInv` adds types for
  `maktries` and the history `asked`; the MID is left untyped (`MembOver(S)` for
  some S), which keeps the table of members out of the argument.
  In the same module, with an invariant of its own: `DirectoryAlways` (Directory),
  `LoopsAlwaysEnd` (LoopsEnd) and `TypesKept` (TypeOK), for any number of members and any
  first size of the table.
  The invariant `Table` is about the table and the MIDs as values, so that each
  operation is a lemma of its own; it adds that a member's slot is its MID and that
  `membercount` is the number of members that have one.
* `DmpSenderProofs`: `MailIsKept` and `DmpMailIsKept`, that SdtWrapper, alone and with
  a DMP context on it, implements SdtMailbox (SameMail), under `~ RptFull /\
  ~ RptNoFlush`, without which it does not (see below); and `AddressesAreMeant`
  (AddressesMeant), without that hypothesis, since a DMP context repeats no message.
  The lemmas on `Unpack` come first: a PDU more is a message more (`UnpackAppend`), and
  ACKs behind the PDUs change nothing before them (`SentIs`). The invariant
  `HandleInv` says that prev is what the last PDU says, that PDUs in hand have a
  wrapper and a channel, and that what startProtoMsg has begun still fits prev. It
  has the set of the messages' data as a parameter; `DmpInv` takes the blocks each of whose PDUs,
  resolved after the one before it, is what was meant, and so carries DMP's promise through
  SDT's proof into the packet. `ReachedIs` is the one statement about a recursive
  function: two solutions of its equation cannot differ first anywhere.

* `RlpSocketsProofs`: `EveryoneServed` (Served) and `NothingIsKept` (NothingKept), for
  any number of protocols, groups, memberships of a descriptor, descriptors and
  subscriptions, under `Multi /\ SpareMain`, the constants of the run `rlp`; without
  SpareMain Served is false, and without Multi the counts are (see below). `RlpInv`
  says of each socket that its groups are on descriptors of their own with the
  memberships the kernel has (`GroupsOK`), and that each count is the number of
  subscriptions it stands for and no slot or entry is there twice (`Tallied`,
  `Handled`); and of all sockets together that their descriptors are disjoint and all that
  are open (`Owners`). Neither property is inductive: an entry that was there twice would be
  counted once, and the first of two would be dropped. Groups are lemmas about
  values (`AddGroup`, `DropGroup`: one more or one less of a group, and nothing else changed),
  counts are lemmas about sets (`OneMore`), and `OneSocket` says that a step which
  concerns one port leaves the others what they have.
* `ServiceProofs`, about SlpAgent: `HandleIsOpen` (AgentOpen), for any set of local
  components. The registrations are counted by cookies that SLP hands back and
  AgentOpen compares them with a set, so what it needs besides is that the set is finite.
  Discovery's other steps leave all variables of SlpAgent as they are.
* Also in `ServiceProofs`: `DeadlinesAreKept`, that EvlTimers implements TimerSet
  (KeepsDeadlines), for any number of timers and any width of the clock. The lemmas on
  the clock replace differences modulo `Width` by signed ones (`Signed`): times that
  are near enough to now compare as their signed differences do (`OrderIs`), the clock
  moves all of them by one (`TickIs`), and a pass that began a little earlier
  recognises only what has expired since (`ExpiredIs`). `QueueInv` says that all times of
  the queue are near now and in order; the order alone is not inductive, since a time
  half the clock away changes sides. That they are near rests on `MaxLate`.

Only model-checked: the dispatch of packets in RlpSockets (PackedReceived), a fold over
the PDUs; the invariants of Discovery's remote components, of the DDL parser and of the
device, whose modules are built on the recursive operators of UuidSet, DmpMap and
DdlParse; and all liveness. Out of the provers' reach are liveness under
fairness and ENABLED, induction over data, and recursive operators: what a tree, a
map of regions or a packet amounts to is checked on instances only.

## What the code does that its comments do not say

`ddl_abort` is one. The rest are kept out of the passing runs by a constant or by the
property that is checked; where one can be seen, the change to a `.cfg` that shows it
comes first.

### SDT

* session.cfg with INVARIANT OneVerdict: a Refuse for a member that is joined is
  reported as EV_JOINFAIL after EV_JOINSUCCESS (`sdt.c:2089`; one or the other, says
  `sdt.h:653`). PROPERTY EarlyAckCounts: an ACK that comes before the Join Accept is
  only logged (`sdt.c:2510`), where the comment at 2492 says that it may come first.
  With `MaxChan` 3, INVARIANT RefusalIsHarmless: a Join that is refused reaches
  joinAbort with no channel, which `unlinkRchan` reads through (1954); 1860 says
  "de-allocate only what we have just allocated".
* session.cfg with `SendFail` TRUE: a send that fails in a cold Join leaves the reciprocal
  channel open, with nobody to close it (`joinAbort`, 1940-1966; RecipChannelOwned).
* session_faults.cfg with `MaxAdds` 3 and PeersAgree without `adds <= 2`:
  the first attempt leaves a Join, a Join Accept and an ACK of the follower's channel 2
  in flight. The follower restarts, the second attempt has channel 3 accepted, and the
  third takes what is left of the first: `rx_joinAccept` (1984-2050) compares no more
  than MID, CID and the reciprocal channel, `rx_ack` (2479-2520) no more than that,
  and the leader holds a session on channel 2 that the follower has on 3. With `Mids`
  `{1, 2}`, `MaxChan` 4 and two calls, the follower may also hold the MID of the first
  call where the leader has that of the second: a Join of one and an Accept of the
  other put them together (memb[Ldr].mid = memb[Flw].rmid is false).
* receiver.cfg with INVARIANT QueuedHasBuffer: a wrapper that is already queued
  releases the queued one's buffer in place of its own (`sdt.c:4925`).
* owner.cfg with `Late` or `Reorder` TRUE: LedgerExact and KeptUntilVerified fail,
  where `sdt.h:488` says that wrappers are kept until verified. A NAK that comes after
  a later ACK sets the member's position back (`rx_ownerNAK`, 2203) and wrappers are
  counted down twice.
* `lastmak` (`sdt.h:336`) is never assigned: background MAKs always ask the first
  `makspan` members. Others are reached by priority MAKs when their timer runs out.
* `ka_t_ms` is halved for each priority MAK. Ten members that time out within a moment
  bring one second to zero, and doubling zero leaves zero.
* `nakfirst` is reset to 0, so the blanking range after a resend reaches down to 0 and
  covers wrappers that were not sent again.
* A gap met before any wrapper was taken in sequence is NAKed once: `NAKtries` starts
  at 0 and only a wrapper in sequence sets it (4886), where `acnstd.h` says "3 tries
  total" of `NAK_MAX_RETRIES`.
* `expireAction` does nothing; `connectAll` tests `connect && CX_LOCINIT` where `&` is
  meant; `disconnectAll` repeats the Disconnect to a member that is connected both
  ways, which never gets a Disconnecting, and reports EV_LOCDISCONNECT for that too.

### Wrappers and DMP

* packing.cfg with `RptFull` TRUE: `rptProtoMsg` with a full wrapper starts one that
  has no channel, and `_flushWrapper` reads through the NULL (ChannelKnown). With
  `RptNoFlush` TRUE and `Room` 32: the MID of a message that did not fit is taken for
  the previous one, against the comment at `sdt.c:3553` (SameMail).
* `startProtoMsg` gives back sizes that count the header in one case and not in the
  others (3311, 3329, 3350); its test `(sizep || *sizep >= 0)` (3341) reads through a
  NULL.
* `dmp_openpdu` compares the space with less than the PDU may need (its assertion at
  `dmp.c:251`) and changes the address of its caller's `ads`; `dmp_abortblock` forgets
  earlier PDUs of the block; `dmp_closeblock` does not close an open PDU, which
  `dmp.h:404` says it does.

### Sockets, discovery and components

* rlp.cfg with `SpareMain` FALSE: a group that cannot be joined closes the main socket
  of others that have no group (`rlp_bsd.c:533`; Served). With `Multi` FALSE and one
  protocol: only the first PDU of a packet is delivered (the break at 884;
  PackedReceived), and the subscribers of a socket are not counted right (713-719).
* sdt.c never ends the subscription of a remote channel. The batch of events may hold
  a socket that an earlier event of it freed (`evloop.c:97`).
* discovery.cfg with `Events` `{"unlinkFirst"}` or `{"attsFail"}`: a component is
  freed while in the set (Known, `discovery.c:974`). `{"refused"}`, `{"staleList"}`,
  or `OneEach` FALSE: a member points to a component that is gone (MemberKnown:
  `sdt.c:1612`, `controller.c:613`; 1944).
* A failed refresh leaves `Lc_advert` set and no timer. `slp_deregister` leaves the
  timer. `matchatt` takes a prefix for the name. The first pass over the attributes
  tests `ep` where `sp` is meant.
* The indexes the controller keeps with its members (`ctlmbrs`) are those of the
  discovery before the last.

### DDL and the property map

* `mapprop` (`ddlparse.c:3369` to 3440) joins a sparse property to the regions it
  reaches, and loses addresses in five layouts. With `Layouts` in ddl.cfg set to one
  of these names Found fails:
  `"startsPacked"`: the first region reached is packed, where 3374 says it must be sparse;
  the property gets no region below it, and one above it for which no room was made.
  `"gapPacked"`: the region made for the gap between two packed ones (3433) is written
  over by the next, since `af` does not move on.
  `"endsPacked"`: the last region reached is packed, and behind another sparse one, whose place
  in the map then holds another region's `af->p` (3410), or below a sparse one, so that the
  region counted at 3391 is not filled.
  `"endsOnRegion"`: the last address is the first of a region, which `adlo < ulim` (3383)
  and `base < ulim` (3402) do not count as reached.
  `"sameAddresses"`, which is none of Join's: an increment of 0 gives the elements of an
  array the same addresses, and the check of the span does not see it when another dimension
  is wide enough.
* `"sharedTable"`: the two parts of a region that a packed property split share the table
  of its properties (3358 to 3367). What is joined to one part and then to the other takes
  the same place of the table (3420), and the first is lost. It takes more properties than
  the run has, for example these in order: {2, 5, 8}, {6, 9, 12}, then 4, which splits them,
  {7, 10} above it and {1, 3} below. At the end the table is freed twice.
* `dimmatch` (`dmpmap.c:161`) starts its loop at an offset that need not be a multiple
  of the increment, so it misses elements of arrays that interleave with themselves,
  which `dmpmap.c:112` says are handled. For example, 2 by 3 elements with
  increments 3 and 2. Offset 7 is an element; `b` is 2, and from there the loop tries
  2 and not 3 (`"interleavesItself"`).
* ddl.cfg with `OuterSteps` TRUE: a range of two or more elements along an array with another
  inside it lands on other elements (`demo_utils.c:150` compares a dimension's place
  in the document with its place by increment; ElementsAgree). So it does with
  `CommonData` TRUE: the device reads a value for each element where the message has
  one for all.
* `assert(arraytotal = dcxp->arraytotal)` (`ddlparse.c:3312`) assigns. An unknown
  value type leaves `curprop` at a freed property, which its end tag then skips.
  Immediate values in an included array are checked against too small a total.
  `addpropID` ignores KEY_ALREADY.
* An array with an increment of 0 walks `arrayprop` to NULL. A missing module, a wrong
  type or UUID is `exit()`.
* The demonstrations' `readprop` does not check the indexes it is given, `ofs2addr`
  leaves `inc` unset for a single property, and neither `device.c` nor `rx_devvec`
  looks whether `dmp_openpdu` found space. A repeated subscription is an error to
  `addMember`, and what follows it in the message is dropped. `ctlcxt->dest` may be a
  member that is gone.

## Not modelled

* In SDT: wrap-around of sequence numbers and of channel numbers (`sdt.c:4015`),
  `rx_chparams`, `rx_getSessions`, the batch in `rxqueue`, and builds with several
  components in one process.
* In DMP: unsubscribing, properties of variable size, `dmp_truncatepdu` (which nothing
  calls).
* In DDL: language sets, labels and strings, and behaviors, which name what properties
  mean and decide nothing that the parser does; increments below 0, which `goodint` lets
  pass, and attributes that are missing or no numbers, which count as 0 and for an
  array's `inc` as 1.
* In Keys: `findornewkey`'s create and replace variants and the string pool. In
  UuidSet: the variant with a hash table.
* In RlpSockets: the build for a single protocol in full (`Multi` FALSE is its
  delivery).
* E1.31: `e131rx.c` calls functions the repository does not define and is in no build.
* Allocation of multicast addresses, interface addresses, random numbers, the print of
  the property tree, the map generator, and the terminals and files of the
  demonstrations: input, output or pure arithmetic, with no state another part depends
  on.

## Plan

1. *Done*: the four modules of SDT with SdtReliable; the event loop; sockets; UUID
   sets, keys and the property map; wrappers with DMP; discovery; the DDL parser with
   the device and its controller.
2. *Done*: theorems of SdtSession (all its safety), SdtReceiver,
   SdtOwner and SdtMembers; SdtWrapper implements SdtMailbox, and DMP's addresses;
   EvlTimers implements TimerSet; RlpSockets' sockets and counts; SlpAgent.
3. Compositions left: receiver and owner over a small modulus of sequence numbers; the
   queue between SDT and its clients with `killMember`.
4. Behaviors and language sets.
