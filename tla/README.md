# A verification of the USI host: TLA+ models, TLC runs and TLAPS proofs

The repository holds the host side of Microchip's power line modems: the G3
coordinator, the PRIME base node, the serial link (USI) to the modem, and the
programs around them. This directory models the parts that hold state and have
to keep it right while threads interleave, messages are lost and answers come
late: the bootstrap server that decides who is a member of a G3 network, the
coordinator application around it, the serial link, the DLMS gateway and the
firmware upgrade of a PRIME network. TLC checks them on small instances; TLAPS
proves their most important invariants for all.

Paths are relative to the repository; `BS/` is
`src/g3coordd_linux/g3/bootstrap/source/`.

## 1. Inventory

| Component | State | Operations | Interacts with | Module |
|---|---|---|---|---|
| **Table of registered devices** (`BS/bs_functions.c`) | `g_lbds_list`, `g_lbds_list_size`, first short address | new address, add, remove, searches by short and by extended address, count | every operation of the bootstrap server | `LbdList` |
| **Bootstrap server** (`BS/bs_main.c`, `BS/bs_functions.c`) | five slots (state, device, address, two handles, pending confirms, attempts, timer, buffer), blacklist, rekeying phase and index, key index | LBP indication, LBP confirm, `bs_process`, launch rekeying, kick, set parameters | ADP (callbacks in the usi thread), application (calls in the main thread) | `LbpBootstrap` |
| **LBP and EAP-PSK codecs** (`BS/ProtoLbp.c`, `BS/ProtoEapPsk.c`) | a context per slot | encode, decode | bootstrap server | not modelled |
| **Coordinator application** (`src/g3coordd_linux/main.c`, `app_adp_mng.c`) | network status, write-buffer flag, blocking file, node list file | start-up, main loop, IPv6 to and from the TUN device | ADP, bootstrap server | `CoordApp` |
| **Synchronous ADP requests** (`src/src/ifaceG3Adp.c`, `addUsi.c`) | one pending request: attribute, flags, results | get, set, wait at most 3 s | both threads of the coordinator | `AdpSync` |
| **USI serial link** (`src/src/Usi.c`) | receive state machine, transmit ring | send a frame, receive and transmit steps | every protocol above it | `UsiFrame`, `UsiTx`, `UsiRx`, `UsiLink` |
| **DLMS over TCP gateway** (`src/dlmsotcp/`) | session, connected nodes with auto-close counters, queue of messages that await a confirm | join, leave, list, data confirm, reboot, TCP receive | 4-32 layer of the base node, TCP client | `DlmsGateway` |
| **DLMS over TCP in the base node** (`src/primeBN_linux/base_node_dlmsotcp.c`) | the same over the registry, with a mutex | the same, in two threads | PRIME registry | `BnDlms` (queue) |
| **PRIME registry** (`src/primeBN_linux/base_node_network.c`, `prime_bmng_network_events.c`) | service nodes with their connections | event indications, searches, printing | firmware upgrade, DLMS, command line | not modelled |
| **PRIME firmware upgrade** (`base_node_mng_fw_upgrade.c`) | options, global status, file position | download, start, status callbacks | modem, PRIME registry | `FwUpgrade` |
| **Management, command line** (`base_node_mng.c`, `base_node_manager*.c`, `cli_core/`) | logging levels, sessions | parse, print, synchronous requests | all of the base node | not modelled |
| **Serializers and proxy** (`src/g3_proxy`, `src/src/iface*.c`) | none of their own | primitives to bytes and back | USI | not modelled |
| **I/O, cryptography** | | TUN, sockets, LEDs, sniffers, mbed-tls | | not modelled |

What is hard, and what makes each part correct:

* *Bootstrap server.* Two threads without a lock: the usi thread runs the ADP
  callbacks, the main thread `bs_process` and the calls of `bs_api.h`. Messages,
  replies and acknowledgements are lost; replies overtake confirms; timers race
  both; `AdpGetRequestSync` waits in the middle of a rekeying and of a kick.
  Correct means: a device is in the table exactly when it has joined, at the
  address it uses; no two devices use one address; a confirm moves the exchange
  it belongs to; every exchange ends; a rekeying gives every registered device
  the new key before the coordinator switches to it.
* *Synchronous requests and application.* There is one pending request for two
  threads, and a confirm is matched by the attribute alone. A set must not be
  answered by the late confirm of another one; `bs_process` must be called
  whatever the ADP answers; the application must stop sending when the modem
  says so, and start the network again when a start fails.
* *USI.* The ring must hold whole frames, whatever does not fit; the receiver
  must find the next frame after a broken one; a message is handed on once, as
  it was sent, in order.
* *DLMS over TCP.* Confirms are taken in the order of the queue, though they may
  be lost, late or of another message: each message must go out once. The
  concentrator's list of nodes must be the gateway's; connections it marked must
  be closed with the session.
* *Firmware upgrade.* Requests and acks are lost; frames are sent again, and the
  transfer starts over with smaller ones. SUCCESS must mean that the modem has
  the image, and every operation must end.

`PROJECT.json` lists the hazards one by one, each at its line, with the
properties that would catch it, or the reason why none does.

## 2. The modules

| Module | Contents |
|---|---|
| `LbdList` | the table of registered devices as a record, one operator per function of the code |
| `LbpBootstrap` | EXTENDS `LbdList`: the bootstrap server, its two threads, and its environment; the properties |
| `UsiFrame` | marks, escapes, checksum: the frame of a message, and what the receiver takes for a message |
| `UsiTx`, `UsiRx` | EXTEND `UsiFrame`: the transmit ring; the receive state machine |
| `UsiChannel` | abstract: an ordered channel that hands each message on at most once, and loses at most two per damaged byte |
| `UsiQueue` | abstract: a queue of bytes that takes frames whole and gives its bytes to the line in order |
| `UsiLink` | EXTENDS `UsiTx`, `UsiRx`: both with a serial line between them; its transmit side implements `UsiQueue`, the whole `UsiChannel` |
| `AdpSync` | the synchronous requests, as operators and actions |
| `CoordApp` | EXTENDS `AdpSync`: the coordinator application that makes them |
| `DlmsGateway` | the gateway with its session, nodes and messages |
| `BnDlms` | the message list of the base node's server, with its mutex and two threads |
| `FwUpgrade` | the download and the start of a firmware upgrade, with link and modem |
| `MCLbp`, `MCUsi`, `MCCoord` | instances for TLC: sets, symmetry, initial states |
| `MCTrouble` | EXTENDS `MCLbp`: a history variable that tells for which devices something has gone wrong since they last asked to join, and the two properties that speak of it |
| `LbdListProofs`, `LbpBootstrapProofs`, `LbpExchangeProofs`, `DlmsGatewayProofs`, `CoordAppProofs`, `UsiLinkProofs`, `FwUpgradeProofs` | lemmas and theorems |
| `BasicLemmas` | lemmas they share: the smallest element of a set of naturals; what `FlattenSeq` returns; the elements of a concatenation |

In most modules an operator with "Mistake" in its comment stands before the one it
imitates: a plausible bug, used to see that a property notices it (`mutants` in
`PROJECT.json`), and by nothing else.

### The bootstrap server: state

| Variable | In the code |
|---|---|
| `slots` | `bootstrap_slots`: `state` is `e_state` (`free` is `BS_STATE_WAITING_JOINNING`), `addr` is `m_LbdAddress`, `short` is `us_assigned_short_address`, `randS`, `msg` is `auc_data` (`NoMsg` where `us_data_length` is 0), `tx` and `ptx` are `uc_tx_handle` and `uc_pending_tx_handler`, `pending` is `uc_pending_confirms`, `attempts` is `uc_tx_attemps` |
| `list` | `g_lbds_list` (`ext`), `g_lbds_list_size`, `g_current_context.initialShortAddr`. `ext` has one cell more than the array: position `MaxLbds` is the memory behind it, which `_is_valid_address` lets through |
| `blacklist` | `puc_blacklist` |
| `rekey` | `m_bRekey`, `us_rekey_phase`, `us_rekey_idx` |
| `keyIndex` | `g_au8CurrKeyIndex` |
| `sent` | the number of requests sent; `uc_nsdu_handle` is `sent % 256` |
| `rands` | the number of `randS` values drawn: each is new |
| `thread` | what each thread is in the middle of: between a test of `bs_process` and its effect, or in the wait of `AdpGetRequestSync` |
| `reqs`, `up`, `dev` | environment: requests the ADP has not confirmed, messages of the devices on their way, what the devices know |
| `stimuli` | counts what is bounded (below) |

### The bootstrap server: actions

| Action | In the code |
|---|---|
| `JoiningNoSlot`, `JoiningDeclined`, `JoiningNew`, `JoiningRepeated` | the branches of `ProcessLBPMessage` for a joining request without data, with `Process_Joining0` and the sending at its end |
| `HandleT1`, `HandleT3`, `HandleBadRandS`, `HandleUnexpected` | the branches for the replies of a device. `HandleUnexpected` is every way an exchange is aborted without an answer; `HandleBadRandS` the one in which an answer is sent all the same, since its length has been set before the RandS is compared (`BS/bs_functions.c:887-896`, `1189-1217`) |
| `KickFromLbd` | `AdpNotification_LbpIndication` for a device that leaves |
| `ConfirmProgress`, `ConfirmJoin`, `ConfirmRekeyNext`, `ConfirmRekeyPhase`, `ConfirmRekeyEnd` | `AdpNotification_LbpConfirm`, by what it does after the slots have been gone through |
| `CheckSlot`, then `ResendSlot` or `ResetSlot` | `update_bootstrap_slots` for one slot: the test, and its effect |
| `LaunchRekeying` | `bs_lbp_launch_rekeying` with `_rekeying_process` up to its wait |
| `RekeySend` | `_rekeying_process` after its wait, in the thread it runs in |
| `KickDevice`, `KickSend` | `bs_lbp_kick_device` before and after its wait |
| `SetDeviceList`, `SetInitialShortAddress`, `AddDeviceToBlacklist` | the cases of `bs_lbp_set_param` that touch this state |
| `Deliver`, `LoseReply`, `DelayT3`, `LoseConfirm`, `Leave` | environment |

A callback is one step, since the usi thread is the only one that runs
callbacks. Where the main thread may come in between is modelled: each wait of
`AdpGetRequestSync` ends in an action of its own, with the other thread running
in between. The other way round, with `"preempt"` the usi thread may also run
between a test of `bs_process` and its effect.

### The bootstrap server: environment

`Env` says what the ADP, the line and the devices may do: confirms that are late
(`late`) or lost on the serial link (`drop`), replies that are slow (`slow`) or
precede the confirm of their request (`early`) or of the requests before it
(`overrun`), losses of messages, replies and acknowledgements (`loss`), messages
and confirms, and a reply and that to a later message, out of order (`reorder`),
devices that start over (`restart`), draw the RandP of an earlier attempt again
(`randp`: then a reply of that attempt decodes, with a RandS that is not the one
awaited) or leave (`leave`), and `preempt`. Each run names what it allows, and each theorem what it
excludes, if anything. `Api` names the calls the application makes. Time is not
modelled: a timer may be past at any moment, except where a run's `Env` excludes
it (without `late` the ADP answers within ten message timeouts, 400 s by default;
without `slow` a device answers within one, 40 s) and during the 3 s wait of a
rekeying whose confirm has just started the timer.

### The bootstrap server: what is left out

The contents of the EAP messages beyond what they carry and which exchange they
prove to belong to; malformed frames, and replies of a device that fail its
authentication (they take the abort of `HandleUnexpected`); the hop counts, the
medium, the nonce and the destination address of the requests; the building of
the network by levels (`BS_LEVEL_STRATEGY_ENABLED` is not defined);
`remove_from_blacklist`, which nothing calls; setting PSK, GMK, IDS and the
message timeout. `bGetShortAddressFromExtended` is the constant `ShortFromExt`:
it is set before the network starts. `SetInitialShortAddress` tries the
addresses 1 and 2.

### The serial link

A byte is a number below 8, of which 2 is the mark and 1 the escape, so that a header or a
length may need to be escaped like any byte of data; the two header bytes are one symbol, and so
is the checksum, which tells all contents apart and is never escaped. `usi_SendCmd` is three steps: the check
and the copy (`SendCopy`), the writing of the frame into the ring or its being
given up (`SendFill`), and `count += putChars`, read (`SendLoad`) and written
(`SendStore`). `usi_TxProcess` likewise: `TxWrite`, `TxLoad`, `TxStore`.
`usi_RxProcess` is one action per branch of its switch, for one byte; `RxCall` and
`RxReturn` are its beginning and end, which matter because the place in the buffer
(`rxAt`) is worked out once in a call and the index (`rxIdx`) started over within.
So a second escape leaves the place ahead of the index; the check of the size looks at the index
(`src/src/Usi.c:954-960`), and the code then writes behind the buffer. `RxStore` does, too, and sets
`rxSpilt`; what lies there is up to the linker (`rxbuf` and `txbuf` are static arrays of
`src/src/UsiCfg.c`), so the model ends there, and its other properties are about the time before.
`ProcessMsg` is the handing on at the beginning of `usi_TxProcess`. `Damage` changes
or removes the next byte of the line. Left out: the choice of the callback by the
protocol's type, several ports, the 10-bit length beyond being taken modulo `LenMod`.

### Synchronous requests and the application

`sync` is `g_adp_sync_mgmt`: `req` and `res` are its two flags, `attr` the attribute;
`got` remembers, for each of the four confirm structures, which request the confirm
in it answers. A call is `CallSync` (the assignments before the second one that
matters), `AskModem` (the rest, and the request), and `ReturnSync` (the end of
`addUsi_WaitProcessing` and what follows). A get clears the result before it names
its attribute, a set after: that order is kept. The usi thread runs the confirms
(`GetConfirm`, `SetConfirm`, `MacGetConfirm`, `MacSetConfirm`), and none while it is
itself in a call, which it makes from within the callback of an LBP confirm
(`RekeyCall`). `coordd` itself launches no rekeying and makes no synchronous call in its main loop;
`RekeyCall` is there for the rekeyings that another program asks for behind the proxy, once the
network runs. That two calls overlap is therefore not reached.

`CoordApp` walks the main thread through `adp_init` (`SetMib` ... `RemoveFile`) and the
loop of `main` (`LoopTop`, `Poll`, `SendPacket`, and `adp_process` from `JoinNetwork` to
`BsProcess`); `main.pass` says which of its two calls of `adp_process` it is in. `network` is
what the modem has been asked. `NetworkStartConfirm` and `BufferIndication` are the
callbacks; `said` is what the modem has last said of its buffers, and `forgotten` when `SetPrefix`
(`InitializeNetworkParameters`, `app_adp_mng.c:669`) has set the flag to available in spite of it.
`BsProcess` stands for `bs_process`, whose inside is `LbpBootstrap`. With
`StartPending` after `NetworkStartRequest`, as in the code, a confirm may come first. Left out:
the ends of the program on an error of the TUN device (`main.c:530`) and of the blocking file
(`app_adp_mng.c:486`), and the five reads of `app_show_version` after `adp_init`. The flag and the file of
a buffer indication (`app_adp_mng.c:471`, `476`, `483`) are set in one step: nothing in this program
reads the file.

### The gateway

| Variable | In the code |
|---|---|
| `session`, `zero` | `g_concentrator_fd`, with descriptor 0, which `close` frees when a reboot finds no session: the next concentrator gets it, and a second reboot closes it while `select` still waits for it (`dead`) |
| `notify` | `i_enable_notifications` |
| `conn`, `auto` | `x_list_nodes_connected`: `dst_address` is valid, `autoclose_enabled` |
| `iterator` | the query of the connected nodes that `dlmsotcp_init` begins |
| `tx` | the free and the pending list, and the age of the head |
| `link`, `releasing` | external: the connections of the base node and the releases asked of it |
| `asked`, `known`, `wish` | external: what the concentrator has asked for, been told, and wants closed with the session |
| `accepted`, `givenUp`, `tx.handed` | history, used by properties only |

Each command of the protocol, each indication of the base node and each branch of the
loop of `main` is an action; a data message is one action with its check for an old head
(`RxData`). One thread runs it all, so that an action is a whole handler. `Env` lets the
base node lose and delay confirms and restart; with `twice` and `unknown` the concentrator
may enable the automatic close of a node again, or of a node it has not been told of.

`BnDlms` models the same queue in the base node, where the list is locked operation by
operation and its count is read without: `rx` and `usi` are where the two threads are.

### The firmware upgrade

`at` is the request that the thread of the command line has to make or waits for; `Begin`
sets the flags of it, `Ask` sets its command and sends it (`base_node_mng_fw_upgrade.c:261-267` and
likewise in the other requests: the usi thread may take an ack in between, for which `crossed` stands), and `Prepared`, `InitAnswered`, `FrameAnswered`, `CrcAnswered` and
`StartAnswered` are what it does when `addUsi_WaitProcessing` has ended, up to the next
request. `sync` is `g_prime_sync_mgmt`, `file` the local variables of the transfer. A frame size
is in units of `CHUNKSIZE >> 4`, so that the first three sizes are 16, 4 and 1. The link is
two queues; the modem stores a frame at the place its number gives, and the check compares
the image byte by byte; it does not look at the number of frames announced. Left out: starting
with 0, which no caller does, aborting, the queries of state and version (an
indication of the version does what `StatusInd` does), and a file that cannot be opened.

## 3. The properties

| Module | Invariants | Action properties and refinement | Liveness |
|---|---|---|---|
| `LbpBootstrap` | `TypeOK`, `NoDeviceListedTwice`, `EntriesBelowSize`, `AddressesBelowSize` (the searches stop at `g_lbds_list_size`), `OneSlotPerDevice`, `NoSharedShort`, `JoinedUntroubledIsListed`, `AwaitedConfirmComes`, `FreeSlotAwaitsNothing` | `EntersWithItsAddress`, `ConfirmMovesItsExchange`, `NewAddressNotInUse`, `KickRemovesItsDevice`, `NextPhaseWhenAllProvided`, `SwitchWhenAllSwitched` | `SlotsAreFreed`, `RekeyingEndsUntroubled` |
| `UsiLink` | `TypeOK`, `RingInSync`, `RingHoldsFrames`, `StaysInBuffer` | `SendsInOrder` (refinement of `UsiQueue`), `KeepsPromise` (of `UsiChannel`) | `AcceptedArrive` |
| `CoordApp` | `TypeOK`, `StopsSending`, `FileMeansNotReady` | `SetIsAnswered` | `BsProcessGoesOn`, `StartIsRetried` (violated) |
| `DlmsGateway` | `TypeOK` (with: no buffer is lost), `HandedInOrder`, `OneAtATime`, `ClientUpToDate` | `AutoClosed` (violated) | `MessagesMoveOn` |
| `BnDlms` | `PendingAreSent` (violated) | | |
| `FwUpgrade` | `TypeOK`, `SuccessIsComplete`, `ImageIsGood`, `RunningIsRunning` | | `OperationEnds` |

### Runs

But for the coordinator, which never stops, the runs set `CHECK_DEADLOCK FALSE`: their
stimuli (joins, departures, messages, operations, damage) are bounded, and the system
rests when they are used up.

| Run | Instance | Shows |
|---|---|---|
| `LbpJoin` | 2 devices, 2 slots, 3 positions; blacklist; `early loss`; 2 stimuli | slots, confirms and exchanges stay in step, and no address in use is given, when messages, replies and acknowledgements are lost; whoever has been accepted without trouble is registered |
| `LbpMembers` | 2 devices, 1 slot, 3 positions; kick and blacklist; `early overrun loss restart leave`; 4 stimuli | the table used up and reused; no two devices share an address before; a kick removes the right entry |
| `LbpSlots` | 1 slot, 1 position; all calls; `late slow preempt restart reorder randp`; 2 stimuli; fair | every exchange ends |
| `LbpRekey` | 3 devices registered, 2 slots; `early overrun loss slow drop late`; fair | the two phases of a rekeying, and its end |
| `UsiLink` | 3 messages, a ring of 10, a receive buffer of 5, one damaged byte (another, a mark, an escape, or gone); fair | whole frames in the ring; the two refinements; every message arrives; only a damaged byte leads behind the receive buffer |
| `CoordApp` | 2 parameters, 3 attributes, `late drop`; 2 packets, 2 buffer indications, 1 call of the usi thread; fair | the application and its requests |
| `DlmsGateway` | 2 nodes, 2 buffers, 1 record in a list; `loss late reboot twice`; 6 events; fair | messages, nodes and sessions |
| `FwUpgrade` | images of 16 and 5 units, 2 tries, 1 target, signed; `loss nack late`; 2 late acks, 3 operations; fair | downloads and starts |
| `LbpVRekeyJoin` | 2 of 3 devices registered, 2 slots | a join during a rekeying takes the place of a device in it |
| `CoordVStart` | as `CoordApp` | a start of the network that is not confirmed is never tried again |
| `BnVQueue` | 3 messages | a message that had room in the list is neither there nor sent |
| `DlmsVAutoClose` | as `DlmsGateway`; `twice` | a node whose automatic close is enabled twice is not released with the session |

The four last runs expect a violation; their findings in `PROJECT.json` quote the
lines that disagree.

**Why the bounds are enough.** *Bootstrap:* two devices are what an exchange can be
confused with; the third one of the rekeying runs is the one that joins, or that makes the
index pass a device that is neither first nor last. Two slots allow two exchanges at
once and a slot left by one device and taken by another. Two or three positions make the
table run full within the stimuli; three keep two joins from doing so where a property is about
the time before. Two stimuli are two joins that overlap or follow each other, four add
restarts and departures between them and make an address go round. Retries need no
bound: `BOOTSTRAP_MSG_MAX_RETRIES` is 1 in the code and in the model. Handles are modulo
256 and are not exhausted in a run. *Serial link:* a ring of 10 holds one frame whole and a
part of a second, so that frames wrap, meet `idxOut` and are given up half-way; the
messages are two whose header is sent as an escape, one of them with nothing but escapes up to
the checksum, and one without escapes, which fills the receive buffer; one damaged byte is a broken mark, escape, length or checksum at every
place. *Coordinator:* an attribute set and later read, one only set; a call of the
usi thread meets each place of the main loop; two indications are a stop and its end, or a stop
during `adp_init`, which is forgotten, and one after it. *Gateway:* two buffers are a head and one that waits, and the
third message meets a full list; one record in a list makes the query of two nodes take
three responses; six events are a session with a node that joins, is marked and leaves, or
two sessions around a restart. *Upgrade:* 16 units are one full frame and the
additional one, or four after a restart; 5 are a frame and two, so that a restart changes
where the frames lie. Two tries of the transfer reach the second size. Two late acks are
the whole of the claim. Three operations are a download or start that leaves late acks behind,
and those it meets.

**Fairness.** *Bootstrap:* weak fairness of `bs_process` for each slot and of the ends of
the waits: the main loop calls `bs_process` (`bs_api.h:96` asks for once a second;
`BsProcessGoesOn` shows that it does), and `AdpGetRequestSync` returns after at most 3
seconds. `SlotsAreFreed` needs no more: it holds with every confirm lost.
`RekeyingEndsUntroubled` needs `PromptFairness`: the ADP delivers and confirms, and the
devices answer. *Serial link:* both ends call `addUsi_Process` periodically; the port takes
bytes in the end (strong fairness of `TxStep`, which the senders' steps disable in
between). *Coordinator:* the threads run, the modem answers or the answer is lost, and has
buffers again some time (strong fairness: it may be asked to stop in between); 10 seconds
of a pending start will be past. *Gateway:* the base node confirms what is not lost.
*Upgrade:* the thread runs and a wait ends after 3 seconds; what is on the link gets
through it or is lost.

**What the runs do not claim.** Some combinations were tried and fail; but for those with a
finding they contradict no statement of the repository. They bound what the properties
above mean.

Bootstrap server:

* with `drop`, `AwaitedConfirmComes` fails: a lost confirm is waited for until the
  timer runs out. With `overrun` it fails too, and where blacklisted devices start over: a
  third request is sent while two are pending, `uc_pending_confirms` is 3, and none of the three
  tests of `AdpNotification_LbpConfirm` (`BS/bs_main.c:195`, `247`, `257`) matches any confirm from
  then on. The slot waits in vain until its timer frees it, in the branch whose log says
  "NEVER SHOUL BE HERE" (`BS/bs_functions.c:1402`), and a device that has joined in it is not
  registered. `LbpMembers` and `LbpRekey` reach such states; their properties hold in them;
* with `preempt`, `FreeSlotAwaitsNothing` fails: the resend of
  `bs_process` meets a slot that a confirm has freed in between, and leaves it free
  with a confirm pending. With `randp` and `reorder` it fails too: a third reply of an earlier attempt
  with the same RandP decodes, its RandS is wrong, the slot is freed, and what had been encoded so far
  is sent from it (`BS/bs_functions.c:887-896`, `1189-1217`);
* with `slow`, `JoinedUntroubledIsListed`: the device answers the repeated third message too,
  and its second answer aborts the exchange it has completed; when the
  acknowledgement of ACCEPTED is lost, which counts as trouble, the device has joined unregistered;
* with `restart`, a repeated joining request empties the buffer of the exchange it
  repeats (`BS/bs_functions.c:1031`), which then has nothing to send again; the comment at
  line 1105 calls it "silently ignored";
* a slot's timer can run out with a confirm pending, which the log at
  `BS/bs_functions.c:1402` calls never: the confirm of the first request restarts it for a
  second one still unconfirmed (`BS/bs_main.c:276`);
* `NoSharedShort`, `NewAddressNotInUse` and `KickRemovesItsDevice` are about the time before
  the table has been used up: afterwards a free position that has been given to an
  exchange under way is given again (`BS/bs_functions.c:319`); when it is full, a device is
  accepted with address 0 and not registered (`BS/bs_main.c:311`);
* with manual entries, the position behind the array is written
  (`BS/bs_functions.c:149`; `ext` has a cell for it), and a device entered above the size is
  not found and entered again (`:418`);
* a rekeying launched during another breaks `FreeSlotAwaitsNothing` and
  `SwitchWhenAllSwitched`; a first short address changed while exchanges are under
  way breaks `AddressesBelowSize` and `NoSharedShort`; no program here does the latter.

Serial link: `StaysInBuffer` fails once a byte has been damaged: two escapes in a row set the index
back and not the place in the buffer, and a long frame is then stored behind the buffer
(`src/src/Usi.c:931`, `954-960`). With a second thread that sends, `RingInSync` fails, since `count` is added to and
subtracted from without a lock (`src/src/Usi.c:835`). A negative result of the port
is counted as sent bytes (`usi_TxProcess` keeps it in a `uint16_t`). The two messages
that a damaged byte may cost are the one it hits and the next, whose first mark is taken for
an end.

Synchronous requests: `SetIsAnswered` is about sets only, and about attributes without a
request pending; for gets it fails, as a confirm of the attribute before can come between
the two assignments. `AdpMacSetRequestSync` leaves the status of its result as it was when no
confirm comes. Two threads in such a
call at once, which an application that rekeys or kicks from its main thread brings about, are not
covered by any run. `AppAdpBufferIndication` is documented with "FALSE: modem is not ready, stop
sending data frame" (`app_adp_mng.c:466`), but `app_adp_mng.c:669` sets the flag to available during
`adp_init`: a "not ready" that has come before is forgotten, any number of packets follow, and the
blocking file is removed. `StopsSending` is restricted to what the modem says afterwards.

Gateway: enabling the automatic close twice turns it off, as the counter is compared with 1
(`src/dlmsotcp/dlmsotcp.c:868`: the run `DlmsVAutoClose`); without `twice` `AutoClosed` holds. Enabling it for an unknown node
suppresses the report of its joining (`ClientUpToDate` fails with `unknown`). A confirm later
than 40 seconds is taken for that of the next message (hence `givenUp` in `OneAtATime`). A
concentrator that asks before the list is complete misses nodes. A restart of the base node
without a session closes descriptor 0, which the next session then gets, and is deaf; with a
session, `select` fails and `main` returns. The immediate broadcast goes to 0x7F, a queued one to
0xFFF.

Base node's server: `prime_dlmsotcp_get_dlms_msg` and `prime_dlmsotcp_pop_dlms_msg` return with the mutex
locked when the list is empty, which happens when a pending message is taken off before it is
sent; what is then sent is uninitialised memory.

Upgrade: one late ack is enough to mislead a download when it comes between the flags and the
command of a later request: it is compared with the command of the request before and passes for
the answer to the later one, say the check of the CRC. `SuccessIsComplete` claims nothing after that
(`crossed`); it also fails with three late acks (of the options, the clear and the
add, which answer for those of a later download: it then has no target and returns
SUCCESS), and with `status`, which the run and the theorems exclude, as an indication ends any request with the status that the one before
it left. After a restart of the transfer the number of frames announced is that of the
frame that failed. An empty file is sent as one frame of 0 bytes.

## 4. The theorems

All for any values of the constants that the modules' `ASSUME`s allow.

`LbpBootstrapProofs`:

* `TypeCorrect == Spec => []TypeOK`. Each action preserves the types, lemma by
  lemma, along the structure of `Next`. That the size stays within the array and
  the rekeying index within the table is part of it: the index is below
  `LbdsCount(list) - 1`, a cardinality of a set of positions, when it is raised.
* `OneSlotCorrect == Spec => []OneSlotPerDevice`. Inductive as it stands: a slot is
  given a device only as `SlotFor` of that device, which is the slot it has, or a
  free one if it has none. The proof reduces every action to one of two facts about
  the slots: their devices are unchanged, or that of `SlotFor(d)` becomes `d`.
* `ListCorrect`: without manual entries, changes of the first address and
  `ShortFromExt`, `Spec => [](NoDeviceListedTwice /\ EntriesBelowSize /\
  AddressesBelowSize)`. `NoDeviceListedTwice` is not inductive: a device with an
  entry above the size would not be found and be entered again. That every entry is
  below the size needs that the address of every slot is, since it is entered from
  there later. So the inductive invariant is `ListInv`: the table is well-formed
  (no device twice, all entries below the size) and all addresses of slots are
  below the size. The three hypotheses are needed: a manual entry may lie above the size; an
  address taken from the extended address has nothing to do with it; and a raised first
  address leaves the addresses of slots where they were.

`LbdListProofs` holds what the operators of the table return and preserve, and the
facts about `Min` and `Max` of sets of naturals that they rest on.

`LbpExchangeProofs` is about slots, requests and devices together. All its theorems hold
for any numbers of slots, devices and positions, and in all of them the application never asks
for a rekeying, whose messages use the slots by other rules and break some of these properties (section 3). Some assume
`ConfirmsInTime`: a request is confirmed before 256 others have been sent, so that no two
unconfirmed requests have the same handle, which is the last byte of a counter. (With 256 requests
in between, a confirm is taken for that of another exchange; the ADP gives up after 400 s.)
In the table, "late confirms" are those that `ConfirmsInTime` excludes, and names in code font are
members of `Env`.

| Theorem | States | Besides, without | Inductive invariant |
|---|---|---|---|
| `FreeAwaitsNothing` | `FreeSlotAwaitsNothing` | `preempt`, `randp` | `ThreadsOK`, `FreeOK` |
| `ConfirmMovesIt` | `ConfirmMovesItsExchange` | `preempt`, `drop`, `randp`, late confirms | `ConfirmInv` |
| `AwaitedComes` | `AwaitedConfirmComes` | that, `overrun`, `restart` together with blacklisting | `ConfirmInv`, `CountsOK` |
| `NoShortIsShared`, `NewIsNotInUse` | `NoSharedShort`, `NewAddressNotInUse` | changes of the first address, addresses taken from extended ones | `AddressesOK` |
| `KickRemovesIts` | `KickRemovesItsDevice` | that, manual entries, `preempt`, `drop`, `randp`, late confirms | `OwnersOK`, `KickOK` |
| `EntersAtIts` | `EntersWithItsAddress` | kicks, manual entries, `preempt`, `drop`, `reorder`, `restart`, `randp`, `leave`, late confirms | `ExchangeInv` |
| `JoinedAreListed` | `JoinedIsListed` (every device that has been accepted and has nothing under way is in the table), before the table is used up | all calls but the blacklist, all of `Env` but `early` (`Untroubled`), addresses taken from extended ones, late confirms | `TurnsOK`, `EntersOK` |

* `ConfirmInv` ties what a slot counts as pending to requests with the ADP: numbers of
  requests grow, handles follow from them, and the one or two requests that a slot awaits
  are there, under its handles and for its device. A confirm then matches the slot that
  sent the request, and no other.
* `CountsOK` bounds that count by two. A third request could only be sent for a reply that comes while
  two are pending: so a slot that has counted two has a request older than any third
  message or reply of its exchange on the way (`Third`), and without `overrun` that one
  must be confirmed first. A slot whose timer has run out with nothing pending counts one.
* `AddressesOK`: while positions are left, an address belongs to one device at most, where a
  device *holds* what it uses, what it has been offered, what an exchange has set aside for
  it, and what a message on its way carries. Only a new exchange makes a device hold anything
  new, and that is the position after the last one used. `OwnersOK` adds that an entry belongs to the device that holds its
  address, so that during the wait of a kick the entry can go but not become another's.
* `ExchangeInv` follows a device through the messages of its exchange, lost or repeated as
  they may be: a message or reply that it or the coordinator will take is of the exchange
  the slot is in (`ExchangesOK`), and the last request of a slot in state ACCEPTED is its
  acceptance (`LastSentOK`). So when the acceptance is confirmed and the device
  entered, the device has taken the address of that slot.
* `TurnsOK` says that on a good line the coordinator and the device of an exchange take turns:
  for each state of the slot, which requests are unconfirmed (one, or two when a reply has
  come before the confirm of its request), whether the last has been delivered, and what the device has
  answered. No timer is ever found past. From it `EntersOK`: the
  entries and the addresses in use agree, but for devices whose acceptance is
  still to be confirmed, for which something is under way.

Of these hypotheses, the program in this repository keeps those about the application: `coordd`
calls none of the functions concerned (it sets the PSK and the GMK, `app_adp_mng.c:703`); only an
application behind the proxy (`serial_if_coordinator.c`) does. That `bs_process` is not interrupted
between a test and its effect, and that confirms are not lost between the modem and the host, is
probable but not ensured; section 3 says what fails without it. The line loses messages, which
all but `JoinedAreListed` allow.

`DlmsGatewayProofs`, along three inductive invariants, one after the other:

* `TableOK`, the types of the table and the session.
* `MessagesOK`: the buffers add up, the pending messages are the last ones accepted and the
  requests made are `1, 2, ...` up to the head; and the requests unconfirmed are few enough. From it
  `TypeCorrect`, `InOrder` and `FewUnconfirmed` follow. Each operation on the lists is a
  function of the record `tx`, so that a lemma per operation (`GiveBack`, `SendQueued`, `Taken`,
  `WithoutOld`, `Confirmed`) carries the proof, and the actions cite it.
* `KnowledgeOK`, what the concentrator knows and wants, under `Careful`: it
  enables the automatic close only of nodes it has been told of. It says
  that a marked node is known and connected, and that after the whole
  list has been read every connected node is known; from it `UpToDate` follows. Without
  `Careful` it fails, as section 3 says.

`CoordAppProofs`, without hypotheses. Along `BuffersOK`, which ties `available`, `blocking`,
`unready` and the place of the main thread (packets are sent only at `tun`, which is reached with
buffers or with the one packet still allowed): `SendingStops` and `FileIsTrue`. Along
`AppInv`, which adds the types of the pending request (`SyncTypes`), where each thread can be
while it is in a call (`PlacesOK`), and which request an answer taken can be of (the answer
steps): `TypeCorrect`, and the action property `SetAnswered`. It says that a set of
an attribute that had no request pending is answered by its own confirm, however late the confirms
of earlier requests are; calls of two threads at once do not occur in it, as the usi thread
makes none before the network runs, and the main thread none after. `SendingStops` speaks of
what the modem says after `adp_init` has set its buffers to available.

`UsiLinkProofs`: `TypeCorrect`, whoever sends: a second sender may spoil `count`, but not
the indexes; and the place in the receive buffer leaves it only with `rxSpilt`, by one byte, since the
model ends there. Under `OneSender` (only the usi thread sends; with a second sender these
theorems fail, as section 3 says): `IndexesAgree`, `FramesStayWhole` and `TransmitIsQueue`. The inductive
invariant says besides `RingInSync` what each step still to come relies on: that the
content copied is that of the message in hand, that the count read is still the count, that the
bytes written to the port are among those counted and do not go beyond the end of the ring
(`InHandOK`); which cells hold which bytes of the frames accepted (`Holds`); and that the
frame not yet counted lies behind them (`Filled`). `WrittenOK`
is the arithmetic of the ring: a frame that fits changes no byte still to be sent, wherever
the indexes stand. That one more frame is appended to the bytes of the
others (`BasicLemmas`) needs an induction over a recursive function, made by way of the smallest
counterexample, since the library's induction theorems cannot be used.
`TransmitIsQueue` is the refinement of `UsiQueue` step by step: the queue is the bytes of the frames
accepted that have not been written to the port. `SendStore`, where a frame that fits is counted, is
`Put`; `TxWrite`, however many bytes the port takes, is `Write`; the rest is stuttering or happens on
the line.

`FwUpgradeProofs`: `TypeCorrect` for all constants. The others are without status indications
(`NoStatus`), which end any request.

`NoImageIsBad` and `StatusIsTrue` under `CodeTries`: at most three tries besides, as
`MAX_NUM_TRIES_TRANSFER` in the code, so that the frame size, a quarter at each try, stays
above 0. They are about the time before an ack comes late (`late = 0`). The invariant `InTime` says
which requests and acks can then be on the link at each place of the thread (`OnTheLink`):
with the flag of the answer clear, at most the request waited for. From it follow what an
answer means (`Received`), which targets the modem has, and how much of the image it has
received (`ImageOK`): all up to the frame in hand, or that one too if its ack was
lost. `ChunkOK` ties the frame size to the tries left.

`SuccessIsTrue` holds for any number of tries and up to two late acks, none of which is taken between
the flags and the command of a request (`~crossed`): the whole of the claim that
the run checks. Its invariant `FewLate` counts: what is on the link is at most one more
than the acks that will have come late. To return SUCCESS without its targets a download
needs an ack of an earlier one for its options, for its clear and for its add, and
the third of them cannot be there. The invariant says so place by place, and for each place what the modem
then has.

Only model-checked: the properties of the rekeying (`NextPhaseWhenAllProvided`,
`SwitchWhenAllSwitched`) and the refinement of `UsiChannel`. Liveness (`SlotsAreFreed`,
`RekeyingEndsUntroubled`, `AcceptedArrive`, `BsProcessGoesOn`, `MessagesMoveOn`, `OperationEnds`) and
`ENABLED` are beyond the prover that is used, and stay with the runs. No module declares a recursive operator.

## 5. Not modelled

* The *PRIME registry*, the *management of the base node* and its *command line*: lists of
  records changed as the modem reports, and conversions of commands, around synchronous requests of
  the form that `AdpSync` and `FwUpgrade` model. What they risk (a node looked up before the lock
  is taken, `join_ind` testing a pointer the wrong way round, `leave_ind` using one that may be
  null) are errors of single statements that a state machine would restate, not reveal.
* The *codecs, serializers and proxies*: conversions without state. Together with
  third-party code (`mbed-tls`), the generated tables of the command line and printing, they are
  the greater part of the lines of the repository; a model of them would be a transcription.
* *Cryptography, sockets, TUN, LEDs, logging.*

What a further step would take up: the registry with the threads that use it, so that
the targets of an upgrade and the nodes of the base node's server come from it; an abstract
registry that `LbpBootstrap` implements; the properties of the rekeying and the refinement of
`UsiChannel` as theorems; and the bootstrap theorems with a rekeying that runs alone.
