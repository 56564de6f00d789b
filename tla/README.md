# A TLA+ model of the Twilio Breakout SDK

The repository is an Arduino library that connects a board to Twilio's
Programmable Wireless service: an application sends and receives *Commands* over
CoAP, over DTLS, over the UDP sockets of a u-blox modem driven by AT commands.
Everything runs in one thread. The application calls `Breakout::spin()`
periodically; `spin` drains the modem, runs the handlers of what arrived, sends
again what is due, and polls for Commands. What makes the code hard is therefore
not threads but *re-entrancy* (handlers and callbacks that call back into the
SDK, and loops that spin from within a callback), *unreliable delivery* (UDP
loses, repeats, delays and reorders), *one serial line* (answers and unsolicited
result codes, URCs, share it), *time* (timeouts racing late answers, lifetimes of
remembered ids, a clock of 32 bits), *partial failure* (a step of several fails
after the others took effect) and *encodings by hand* (messages, records, hellos,
text and numbers of 256 bits are put together and taken apart octet by octet).

Paths below are relative to `src/src/BreakoutSDK/` unless they say otherwise.

## Inventory

| Part | State | Operations | Talks to | Module |
|---|---|---|---|---|
| CoAP client transactions, `CoAP/CoAPPeer.cpp` | `client_transactions` with `space_left`, `last_message_id` | `sendReliably`, `sendUnreliably`, `stopRetransmissions`, ACK and RST in `handleRx`, retransmission, expiry | called by `Breakout` and `spin`; calls back `callback_commandReceipt` and `callback_checkForCommands` | `CoAPClient`, `CoAPReentry` |
| Receipts, `Breakout.cpp` | one heap-allocated `receipt_t` per call | `sendCommandWithReceiptRequest`, `callback_commandReceipt` | hands the receipt to the client transactions as `cb_param`, takes it back in the callback | `CoAPClient`, `ReliableDelivery` |
| CoAP server transactions, `CoAP/CoAPPeer.cpp` | `server_transactions` with `space_left` | CON and NON in `handleRx`, `putServerTransaction`, `setServerTransactionReply`, `getServerTransaction`, expiry | hides retransmissions from the request and response handlers; replays ACK and RST | `CoAPServer` |
| Lists, `utils/lists.h` | head, tail, next and prev pointers, `space_left` | `WL_APPEND`, `WL_INSERT_SORT`, `WL_DELETE`, `WL_FOREACH_SAFE` | all three lists | with their users, node by node in `CoAPReentry` |
| CoAP codec, `CoAP/CoAPMessage.cpp`, `CoAP/CoAPOption.cpp` | none besides the message | `encode`, `decode`, `addOption*`, `getNextOption`, the constructors of ACK and RST | the CoAP peer and `Breakout` | `CoAPCodec` |
| Connection management, `Breakout.cpp` | `eps_registration_status`, `coap_status`, `last_coap_status_connected`, `powered` | `powerModuleOn`, `powerModuleOff`, `reinitializeTransport`, `getConnectionStatus`, the handlers of registration and DTLS events | spins from within; calls `CoAPPeer::reinitialize`; tells the application | `BreakoutTransport` |
| Heartbeats and polling, `Breakout.cpp` | `polling_interval`, `last_polling`, `next_polling`, `last_polling_token` | `setPollingInterval`, `checkForCommands`, its callback, the timer of `spin` | sends reliably, reinitializes the transport | `Polling` |
| Received Commands, `Breakout.cpp` | `commands` with `space_left`, the handler | the POST branch of `handler_CoAPRequest`, `receivedCommandInternal`, `receiveCommand`, `setCommandHandler` | called by the server side of the CoAP peer; its result decides on the ACK | `CommandQueue` |
| `owl_time`, `utils/time.cpp` | `epoch`, `last_millis` | `owl_time` | everything with a timeout | `Polling` |
| DTLS client, `DTLS/OwlDTLSClient.cpp` | `dtls_context`, `last_status` | `connect`, `close`, `handleRxData`, `fireHandlerEvent`, `triggerPeriodicRetransmit` | between the CoAP peer and tinydtls; its events reach `handler_CoAPDTLSEvent` from within its own message handler | `BreakoutTransport` above it, `DTLSLink` below |
| Handshake and records, `src/src/tinydtls/dtls.c`, `netq.c`, `peer.c` | the peer, its two security contexts, handshake parameters, the queues of what is sent again and of what came too early | both roles of the handshake, alerts, renegotiation, retransmission, close | datagrams below, events above | `DTLSRecord`, `DTLSHandshake`, `DTLSLink` |
| Replay window, `dtls.c` | `cseq`, `bitfield` | the window of `dtls_handle_message` | each context of a peer | `DTLSReplay` |
| Hellos, `dtls.c` | the handshake's cipher and parameters | ClientHello, ServerHello, HelloVerifyRequest, extensions | the handshake | `DTLSHello` |
| Sealing, `ccm.c`, `hmac.c`, `crypto.c` | the key block | `dtls_p_hash`, CCM, `dtls_prepare_record`, `is_record`, `decrypt_verify` | every record | `DTLSHash`, `DTLSSeal` |
| Curve, `ecc/ecc.c` | none | field and point arithmetic, ECDSA, the key exchange, signatures on the wire | the handshake with ECDHE | `ECCurve` |
| AT command engine, `modem/OwlModem.cpp` | `rx_buffer`, `in_timer`, `in_command` | `doCommand`, `extractResult`, `processURC`, `handleRxOnTimer`, `drainModemRxToBuffer` | the serial line; all modem parts | `ModemAT` |
| Bring-up, `modem/OwlModem.cpp`, `Breakout.cpp` | the modem's settings | `powerOn`, `initModem`, `waitForNetworkRegistration`, `setHostDeviceInformation` | AT commands, the registration | `ModemBringUp` |
| Network registration, `modem/OwlModemNetwork.cpp` | the last status in each domain, handlers | `+CREG`, `+CGREG`, `+CEREG` as URC and as answer; getters and setters | the AT engine; calls `handler_EPSRegistrationStatusChange` | `ModemBringUp`, `ModemText` |
| Modem sockets, `modem/OwlModemSocket.cpp` | the status of 7 sockets, data announced and not yet read | the calls that open, connect, listen, accept, receive, close; URCs, `handleWaitingData` | AT commands below, DTLS client above | `ModemSocket` |
| Answers as text, `filterResponse` and the getters; `utils/str.c` | the response buffers | `str_tok` and its kin, `filterResponse`, one parser per getter, `bypassCLI` | everything that reads the modem | `Strings`, `ModemText` |
| Positions, `modem/OwlModemGNSS.cpp` | `GNSS_response` | `getGNSSData`, `drainGNSSRx` | the receiver's own port | `ModemGNSS` |
| CLI, `CLI/OwlModemCLI.cpp` | the line, the circular history, its cursor | the line editor, completion, execution | commands that call one operation of the SDK each | `ModemCLI` |
| AES, SHA-256, uthash, examples, logging, enumerations, memory | none of their own | | | not modelled |

### What is hard here

* **Callbacks within loops.** `dropExpiredClientTransactions` calls back in the body
  of its loop over the list. `callback_checkForCommands` then waits for the transport
  in a loop that calls `spin`, which runs `dropExpiredClientTransactions` again, on the
  same list, for up to three minutes.
* **One function nested in itself.** `reinitializeTransport` spins; an alert, a
  Heartbeat that times out or the dead-connection timer may call it again. `doCommand`
  is called again from the scan of its own response, on the same buffer, when the modem
  asks for the PIN.
* **Ids instead of references.** Client transactions are found by a 16-bit id of ours,
  server transactions by an id of the remote peer, and some error paths use one for the
  other. Nodes of the retransmission queue outlive the peers they point at unless every
  path that frees a peer clears them.
* **Counters beside lists.** `space_left` is changed in many places, apart from the list
  it counts; so is the number of bytes that a socket announced.
* **Late, repeated and lost messages.** Every ACK may come after the timeout, every POST
  may come twice, every flight of a handshake may be lost or overtaken, an answer may
  come after its command was given up; and each memory of what was received is limited
  in time and in size.
* **Timers that nobody re-arms.** `next_polling` is only moved by a poll, a postponement
  or the application; a path that forgets it ends the polling.
* **Text and numbers in place.** `filterResponse` shrinks the buffer that its token points
  into; lengths come from the message they are in; carries leave the eighth word.

### What makes each part correct

* *Client transactions*: slots never leak; an id selects at most one transaction; each
  accepted Command gets exactly one receipt code, and its receipt is freed once and never
  used afterwards; every transaction ends.
* *Server transactions*: a message reaches the handlers once however often it is sent;
  a retransmission gets the reply of its own exchange.
* *Codec*: decoding is the inverse of encoding, in whatever order options were added.
* *Connection*: what the application was told is what is the case; a transport that is
  ready has a session; a lost connection is noticed and comes back.
* *Heartbeats*: the timer runs exactly while there is an interval, is never too far
  ahead, and never fires before its interval is over.
* *Received Commands*: nothing is doubled, reordered, or acknowledged without being kept;
  only the oldest makes room; what is kept is read in the end.
* *DTLS*: connected ends have the same keys and use none twice; the server works for no
  hello without its cookie; data arrives at most once and unchanged; a handshake completes
  although flights are lost; both ends understand what was agreed on, and compute alike.
* *AT engine*: an answer belongs to the command that waits for it; a URC is handled once,
  in its turn, wherever it comes; every command returns.
* *Bring-up and registration*: a device that is up has all its settings; what it believes
  of its registration is what the network said last; it comes up.
* *Sockets*: none leaks; what is believed of one is what is the case; announced data is
  read; data of one opening never reaches the handlers of another.
* *Text and positions*: what a getter returns is what the modem wrote; a position is one
  that was sent.
* *CLI*: history, cursor and completion keep what was typed, also while a command runs.

## The modules

Each component has a module with its VARIABLES, an initial predicate, one action for each
operation or handler, a next-state relation and a specification; modules `MC...` hold the
values TLC needs. Variables and operators keep the names of the code. Operators whose
comment begins with "Mutant of" are plausible bugs: each makes a property fail when it
replaces the operator it is named after, which shows that the property depends on that
piece of the code. A property named after a whole component is the conjunction of the
parts listed with it; each part is a definition of its own with its own comment.

**Time.** Where the code compares an `expires` with `owl_time()` and nothing else, the
model keeps the time that remains (`ttl`) and a `Tick` counts it down. `Polling` and
`CoAPReentry`, where times are stored and computed with, have a clock.

**Atomicity.** The SDK has one thread, so a handler is one action, with everything it
does to the state: the expiry of old transactions that most operations begin with, the
follow-up that `handleRx` sends after a handler, the notification that ends a
reinitialization. Functions that may be re-entered are split at the calls they make, and
a `stack` holds what is still to be done.

**How they fit together.** `ReliableDelivery` is what `CoAPClient` promises, and TLC checks
that it is implemented. `DTLSLink` composes two endpoints of `DTLSHandshake`, which stands
on `DTLSRecord`, over two channels. What the other modules take from their neighbours is
what the neighbour's module shows: `BreakoutTransport` takes a session that is there or is
not; `ModemSocket` and `ModemBringUp` take commands that were executed or not and lines
that arrive in order (`ModemAT`); `DTLSHandshake` takes sealing, hellos and signatures that
the other side understands (`DTLSSeal`, `DTLSHello`, `ECCurve`) and a replay window
(`DTLSReplay`); the getters of `ModemText` take a whole response (`ModemAT`).

### CoAP: `CoAPClient`, `ReliableDelivery`, `CoAPServer`, `CoAPReentry`, `CoAPCodec`

`CoAPClient` has the table of client transactions as a set of records (the code's list is
unsorted and no operation depends on its order), `space_left` as the code counts it, the
draws of `getNextMessageId` modulo `ID_MODULUS`, and per Command the result of
`sendCommandWithReceiptRequest` (`status`), the memory of its receipt (`receipt`) and the
codes its application was called with (`told`). Actions: the four ends of
`sendCommandWithReceiptRequest`, `sendUnreliably` of a NON message with and without
retransmissions and of a reply, `stopRetransmissions`, the ACK and RST cases of
`handleRx` for *any* id at any time, the retransmissions of `spin`, expiry, and time.
`ReliableDelivery` is the abstract specification: each Command is idle, refused or
pending, and a pending one gets one of four receipt codes and nothing afterwards. It is
instantiated with `phase` computed from `status` and `told`; `KeepsPromise` is its
specification.

`CoAPServer` has the list `server_transactions`, head first, with the code's
`WL_INSERT_SORT` on an entry whose `expires` is not set yet (so it goes to the head), the
expiry that pops the head while the head is expired, and the eviction of the head when the
list is full. The remote peer starts an exchange, repeats it for as long as CoAP allows, and
may use an id again afterwards. History variables follow the exchange that owns each id.

`CoAPReentry` has the client list as allocations, with `dropExpiredClientTransactions`,
`handleRx` and `putClientTransactionCON` split at their callbacks. Every frame of the call
stack has the pointers the C code holds in local variables: `t` and the `nt` of
`WL_FOREACH_SAFE`. Frames for expired transactions, for ACKs and for sends may nest when
the event's callbacks use the SDK (`Reenters`).

`CoAPCodec` encodes and decodes octet by octet: the header, tokens, options whose number is
a delta and whose lengths are nibbles with extensions, payload marker, in a buffer of any
size; a message is put together with options in any order, its packet may be damaged or
cut, and what is decoded is answered.

### Breakout: `BreakoutTransport`, `CommandQueue`, `Polling`

`BreakoutTransport` has registration and CoAP status, the status the connection handler was
last called with, the DTLS client as far as `reinitialize` and `transportIsReady` see it (is
there a context, a session of tinydtls, what is `last_status`), the outstanding Heartbeats,
and the stack of running `reinitializeTransport` calls, each with its caller and its
retries. `Returns` is the end of a call with what its caller then does. Alerts arrive at any
moment, also while a call waits; sockets may fail to open; the application may reinitialize
or switch the module off and on.

`CommandQueue` has the list of Commands with its `space_left`, the handler that may be set
and cleared, and of the CoAP peer the memory of one exchange per Command. `OutOfMemory` is
the `out_of_memory` label, which is reached after the oldest Command was dropped.

`Polling` has the clock, the timers, the status they depend on, and one running
reinitialization with the `now` that `checkForCommands` read before it. Interval arithmetic
is modulo `WIDTH`, and the clock wraps there if `MaxTime` is `WIDTH`.

### DTLS: `DTLSRecord`, `DTLSHandshake`, `DTLSLink`, `DTLSReplay`, `DTLSHello`, `DTLSHash`, `DTLSSeal`, `ECCurve`

`DTLSRecord` and `DTLSHandshake` are operators on one endpoint: a peer with its two
security contexts, the handshake parameters with the transcript, the queue of records that
are sent again, the reorder queue, and what one call sends. A call is a chain of operators
that stops at the first error, as the code does. Keys are symbolic: a key is what it was
derived from, and a record opens with the key it was sealed with. `HandleHandshake` takes a
message in its turn (`InOrder`), keeps it for later or drops it, and then takes what it
kept, as long as one has its turn. An end remembers with which secrets it sent Finished (`keys`,
`reused`), for the properties only. `DTLSLink` puts `OwlDTLSClient` over a client, the
library's server on the other side and two channels between them; `weather` says which
faults and which use a behaviour has: a flight lost, records swapped, duplicated, reordered or delayed beyond a retransmission,
data, close, renegotiation.

`DTLSReplay` is the window bit by bit, with the width of its mask (an `int`), of the field
(64) and undefined shifts as choices.

`DTLSHello` has the octets of both hellos and the cookie. A client of this library, or one
of another maker with other ciphers, sessions, compressions and extensions (`Offers`), is
answered by a server with any set of handlers; lengths are checked where the code checks
them.

`DTLSHash` has HMAC and the stretching of secrets; `DTLSSeal` has CCM block by block, the
record header and the way of records from `dtls_send_multi` to `decrypt_verify`, several in a
datagram, with an octet changed on the way. SHA-256 and AES are stand-ins that mix all
their octets; blocks, nonces and tags are a few octets long, with all the ways in which the
lengths of data and blocks may meet.

`ECCurve` has the arithmetic with words of `WORD` bits: `fieldAdd` and `fieldSub` that make
up for one carry, the reduction of `fieldModP` by its table of words, Barrett's reduction of
`fieldModO`, the loop of `fieldInv`, one pass at a time, points, double-and-add, ECDSA and
the key exchange, and the two halves that write and read a signature. A number is an
integer; `FULL` is where its eight words end.

### Modem: `ModemAT`, `ModemSocket`, `ModemBringUp`, `Strings`, `ModemText`, `ModemGNSS`, `ModemCLI`

`ModemAT` has the receive buffer as pieces of lines (a line is two, so that it can be read
in two goes or cut), the stack of `doCommand` invocations with what each still waits for,
the flags, and the line from the modem. `verifyPIN` may be called from within a scan.

`ModemSocket` has the status the SDK keeps of each socket and, beside it, the sockets as the
modem has them. A command is two steps: the modem executes it, then its result is taken.
Lines are read one at a time and in order, while no call is in progress or one waits for its
result; what was drained together with a result is handled before it, even if it came in
after it. The result of a command that timed out stays on the line with its answer: the
next command takes it for its own (`Mistake`), and what that one is told, `open` the number of
a socket and `receive` its data, is whatever the lines say. Composite calls are plans of commands that give up half-way.

`ModemBringUp` goes from power to a registered device, with commands that fail or answer
too late, a modem that must be reset when its settings differ, and registration that
changes at any time, in URCs and in answers that share a parser. A late result stays on
the line, and the next command returns with it (`Ok`): a getter then serves the cache, and
`initModem` goes on although the modem did not take the command (`passed`).

`Strings` has the functions of `str.c` on sequences of characters; tokens are places in a
text, as the pointers of the code are. `ModemText` walks `filterResponse` line by line while
the buffer shrinks under it, and then parses with the getter that asked. `ModemGNSS` has the
receiver's port, the buffer that drops its oldest bytes, and the rounds of `getGNSSData`.

`ModemCLI` has the line, the circular history with its head, tail and cursor, completion,
and a command that calls `handleUserInput` while it runs.

## What is checked

| Run | Question | Properties | Distinct states |
|---|---|---|---|
| `client_safety` | does the table leak or overrun a slot, hold an id twice, or call an application twice, when sends fail and ids wrap onto live transactions? | `SpaceAccounting`, `UniqueIds`, `AtMostOneReceipt` | 307 167 |
| `client_promise` | when `handleTx` succeeds and no id wraps onto a live one, does the table implement `ReliableDelivery`, settle every Command and handle receipts right? | `ReceiptsSettled` (`ClientTypeOK`, `NoDanglingReceipt`, `NoSilentLoss`, `NoReceiptLeak`), `KeepsPromise`, `EveryCommandSettles` | 47 912 |
| `server_dedup` | does a message reach the handlers twice without an eviction, or a retransmission get another exchange's reply? | `HandledOnceUnlessEvicted`, `ServerConsistent` (`ServerTypeOK`, `ListedOnce`, `ReplayFaithful`) | 438 089 |
| `reentry_list` | does the list stay intact, and its slots balanced, whatever callbacks do; is freed memory used although no callback used the SDK? | `SafeUnlessReentered`, `ListConsistent` (`ReentryTypeOK`, `SlotsBalanced`, `ListIntact`) | 1 671 309 |
| `transport` | is the transport thought ready without a session, a Heartbeat saved without a slot, the application told something else than what is the case; does a lost connection come back? | `TransportConsistent` (`TransportTypeOK`, `ReadyMeansUp`, `PollsFit`), `ToldLatest`, `RecoversUnlessAlerted` | 80 153 |
| `transport_stuck` | does it also come back after a fatal alert? (no) | `Recovers` | |
| `queue` | are Commands kept, ordered, acknowledged and read as they should? | `QueueConsistent` (`QueueTypeOK`, `SpaceLeftRight`, `OnlyOldestDropped`, `AckedIsKept`), `DeliveredInOrderOnce` (`InOrderOfReceipt`, `OncePerCommand`), `CommandsGetThrough` (`KeptIsAcked`, `EveryCommandRead`) | 28 480 |
| `polling` | is the timer right whatever is set, sent, lost and reinitialized? | `TimerRight` (`PollingTypeOK`, `TimerArmed`, `AutoSpaced`), `NotTooFar` | 3 966 694 |
| `dtls_link` | do the ends agree on keys, is a peer or a queued record left behind, does data arrive twice, and does a handshake complete over a bad link? | `PeersConsistent` (`LinkTypeOK`, `NoDanglingNode`, `CookieFirst`), `KeysConsistent` (`KeysAgree`, `KeysFresh`), `DataOnce`, `Completes` | 87 847 |
| `modem_at` | does an answer go to its command and a URC to its handler, in order, in whatever pieces and wherever they come? | `LinesConsistent` (`ATTypeOK`, `FlagFollowsCommand`, `UrcsInOrder`), `AnswersAreOwn`, `ATProgress` (`CommandsReturn`, `UrcsHandled`) | 58 961 |
| `bring_up` | is a device that is up configured, and does it know of its registration what the network says, except for what the late result of another command stood for? | `Configured`, `RegistrationTrue` (`BringUpTypeOK`, `AnswersAreCurrent`, `RegistrationKnown`), `ComesUp` | 292 450 |
| `parts` | nine components that keep to themselves, one at a time | below | 656 250 |

The properties of `parts`:

| Property | Module | What it says |
|---|---|---|
| `PartsTypeOK` | `MCParts` | the type invariants of codec, replay window and console |
| `SocketsConsistent` (`SocketTypeOK`, `NoLeak`, `StatusAgrees`, `NotMixed`), `NoDataForgotten` | `ModemSocket` | no socket leaks, its status is the modem's, data does not reach the handlers of an earlier use, and no datagram is forgotten, when sockets are used again and commands fail |
| `PacketsRight`, which is `CodecFaithful` (`RoundTrip`, `AnyOrder`, `Reencoded`, `CanBeAcknowledged`) | `CoAPCodec` | a message survives its encoding whatever the order of its options, a packet its decoding, damaged or not, and an ACK or RST made from it can be sent |
| `ReplayRefused`, `FreshPasses` | `DTLSReplay` | what was handed on is not handed on again, and what is new is not taken for a replay |
| `ConsoleConsistent` (`HistoryKeepsLatest`, `CursorInHistory`, `ArgumentsStay`, `CompletionKeepsOpen`) | `ModemCLI` | history, cursor, arguments of a running command and completion |
| `AnswersRight`, which is `TextRight` (`TextTypeOK`, `CutRight`, `HexBack`, `FilterKeeps`, `GetterTrue`, `BypassEnds`) | `ModemText` | cutting by the book; the filter keeps the command's lines in order; a getter returns what the modem has |
| `PositionsRight`, which is `FixRight` (`GNSSTypeOK`, `FixWhole`) | `ModemGNSS` | a position that is returned was sent as one sentence, unless the port lost characters |
| `SignaturesRight`, which is `CurveCorrect` (`CurveTypeOK`, `Reduces`, `QuotientsKept`, `MultipleKept`, `SignatureHolds`, `SecretShared`, `SignatureReadBack`) | `ECCurve` | the loops compute what the textbook does at every step, both ends of ECDSA and of the key exchange agree, and a signature is read as it was written |
| `RecordsRight`, which is `SealRight` (`SealTypeOK`, `OpensWhatWasSent`, `SealsByTheBook`, `Stretches`) | `DTLSSeal` | CCM, HMAC and the stretching of secrets are those of their RFCs for every length, and what is opened is what was sent |
| `HellosRight`, which is `HelloRight` (`HelloTypeOK`, `CookieBinds`, `CookiePasses`, `ChoosesRight`, `EndsAgree`) | `DTLSHello` | a cookie passes for the hello and address it was made for and no others; the server chooses the first cipher of the client it knows, and both ends have the same |

### The bounds, and why they are enough

* `CoAPClient`: two slots and three Commands, so the table is full with a Command left
  over; four draws with three ids, so an id wraps onto a live transaction; one or two
  retransmissions and two first intervals, so transactions expire in either order. The
  strict instance has four ids for three draws, so nothing wraps, and two retransmissions.
* `CoAPServer`: two entries for three ids, so an entry is evicted and its exchange goes
  on; lifetimes of three (CON) and two (NON) units, so entries expire behind live ones.
* `CoAPReentry`: three allocations, a table of two, and five frames. A fault needs a
  loop, its callback, a nested loop and two transactions, which fit; and the third
  allocation is sent while the two are timing out.
* `BreakoutTransport`: reinitializations nested three deep, one retry each, two slots:
  each of the four callers can interrupt each, and the innermost can interrupt a nested one.
* `CommandQueue`: four Commands of lengths 0 to 2 for two slots and buffers of 1 and 2: two
  evictions in a row, Commands that fit exactly, and Commands that do not.
* `Polling`: minimum 2, default 3, intervals of 4 and 1, waits of up to 3 and nine units of
  time, in which a connection is lost, found dead, reinitialized for longer than an
  interval, polled on, and the timer fires again.
* `DTLSLink`: two connections, two faults, two writes, two retransmissions, three pairs of
  suites (PSK with and without a hint, and both suites with a client certificate): a fault
  hits a first handshake, a second one over it, and the data between them.
* `ModemAT`: two commands and two URCs of two pieces, and room for five pieces: a URC
  before, within and after each answer, in parts, and a buffer that overflows in a line.
* `ModemBringUp`: two domains, three statuses, two attempts, two changes and two faults: a
  result comes late, a second command is lost, and the first result is taken for the second's.
  The instance asks for no other bands; the profile that differs brings the reset, and the
  proof covers the bands.
* `Parts.cfg`: two sockets, three openings (a connection must be accepted, and then another
  one on the socket it had), two units of data, and the two composite calls that between
  them have every command; at most one command of a behaviour is answered too late
  (`LateOnce`), in an environment in which none is lost. The proof covers any number of both.
  Further: options at both sides of 12/13 and 268/269, where the encoding changes; a
  field of 7 bits with an `int` of 4, so the mask is narrower than the field; a history of
  two with three commands out of five words; responses of up to three lines with every
  combination of separators; a port of four characters and a buffer one sentence long; words
  of one bit and a curve of order 151, so *every* pair of numbers is multiplied, reduced and
  inverted; data of lengths 0, 1, one block, a block and one, two blocks and one, two records,
  and a change of any octet; hellos with and without each extension. `MaxLost` bounds what a full port loses to one character.

Every bound is a CONSTANT of its module or a guard named in its comments. CHECK_DEADLOCK is
off where the model may stop: when the clock reaches `MaxTime`, after a fault, when every
Command was settled, when no socket is left to open, or when an input was worked off.

### Fairness

* `CoAPClient`: weak fairness of the retransmissions and of time. `Breakout.h` requires
  that `spin` is called periodically, and each call runs
  `triggerClientTransactionRetransmissions`. Nothing is assumed of the network or of the
  remote peer: a Command settles by its timeout if by nothing else.
* `BreakoutTransport`: the waiting loop and the application's loop go on, time passes, a
  Heartbeat is answered or times out, and a server that is asked again and again sometimes
  answers a handshake before the loop gives up (strong fairness). Without the last nothing
  can be promised: the server may be down.
* `CommandQueue`: a server that repeats a message until it has the ACK, a network that
  loses some messages and ACKs but not all of them, and an application that goes on
  popping. No fairness of memory is assumed.
* `DTLSLink`: the client connects again when it has lost its context, each end handles what
  has arrived, and `dtls_check_retransmit` runs (`OwlDTLSClient::triggerPeriodicRetransmit`
  is called by `spin`). The channels are not fair; the number of their faults is bounded.
* `ModemAT`: weak fairness of the thread, which never waits without a timeout, and of the
  modem's output. No answer is promised: `CommandsReturn` holds by the timeout.
* `ModemBringUp`: the sequence goes on, and a modem that was reset boots.
* `Polling` (used for a deviation below only): time passes, and the application calls
  `spin` in time for the timer now and then.

## What is proved

Twelve components have theorems for every value of their constants.

`CoAPClient_proofs`, for every size of the table, every retransmission count and
interval, every modulus of the ids and every set of Commands:

| Theorem | Property |
|---|---|
| `ClientInvariant` | the inductive invariant `ClientInv` |
| `ClientTyped` | `ClientTypeOK` |
| `SlotsAccounted` | `SpaceAccounting`: `space_left` and the list add up to `NSTART`, and `space_left` is not negative |
| `IdsUnique` | `UniqueIds`: an id selects at most one transaction |
| `ReceiptAtMostOnce` | `AtMostOneReceipt`: an application is called at most once about a Command |
| `ReceiptsAlive` | `NoDanglingReceipt`, while `handleTx` succeeds: a callback never runs on a freed receipt |
| `PromiseKept` | `KeepsPromise`, while `handleTx` succeeds: the table implements `ReliableDelivery` |
| `ReceiptsSettle` | `ReceiptsSettled`, while `handleTx` succeeds and no step draws an id that is in use (`NotLapped`): nothing that is owed to an application is lost or left behind |
| `NoLap` | `NotLapped`, as long as no more ids are drawn than there are |
| `ReceiptsSettleWithinIds` | `ReceiptsSettled`, from the two before it |

*Assumptions*: `ClientConstants`; for `ReceiptsAlive`, `PromiseKept` and the two about
`ReceiptsSettled` also `Reliable` (`TxResults = {TRUE}`), which the run `client_promise` has
and without which `NoDanglingReceipt` is a deviation. The first five hold for failing sends;
the first seven hold for ids used again. `ReceiptsSettle` is stated for the behaviours in
which no id laps, and `NoLap` says that there are such: with `MaxSends <= ID_MODULUS` all of
them, in the code the first 65536 messages after a start, and after that every one in which
the id of a message 65536 sends ago has left the table.

*The argument*: `AtMostOneReceipt` is not inductive. A callback appends to `told[r]`, so a
second one must be excluded: `Ownership` says that a transaction that carries the receipt
of `r` belongs to a Command that was sent and whose application was not called yet, and
that no two transactions carry the same receipt. Sends keep it, because a Command is sent
once; ends keep it, because what is called back is dropped in the same step, and that is
where the id of a transaction and `UniqueIds` matter. `SpaceAccounting` needs the sizes of
differences and images of finite sets (`CardDiff`, `CardImage`): retransmission and time
map the table onto another one of the same size because they change no id.

For the refinement the initial state maps to the one where every Command is idle, and every
step must map to a step of `ReliableDelivery` or to a stutter. `Effect(S)` is what all the
actions have in common: some set `S` of transactions is called back and its receipts are
freed, results that were returned stay, and what is in the table afterwards was there
before, outside `S`, or belongs to a Command that is being accepted. `Owned` is the
strengthening: a transaction with a receipt belongs to a Command that was *accepted*. A
Command that is called back was therefore pending (`PhaseStep`), and without `Reliable` it
might have been refused, which is the deviation `NoDanglingReceipt` below.

`NoSilentLoss` asks more: a transaction may leave the table only together with a callback. The
step that breaks it is a failed send, which drops by id whatever it finds (`EndTransaction`
of somebody else's id). `Complete` therefore says of each step what it may remove, and a
message whose id is not in use (`NotLapped`) removes nothing that is not its own. `IdsRecent`
is the invariant of `NoLap`: the ids of the table were drawn by the last `n` draws, so the next
one is free while `n` is below the modulus.

`CoAPServer_proofs`, for every number of slots, of ids, every lifetime, and every order of
arrivals, repetitions and answers:

| Theorem | Property |
|---|---|
| `ServerIsConsistent` | `ServerConsistent`: no id is listed twice, and what is replayed is what answered that exchange |
| `MessagesRemembered` | the inductive invariant, `ServerInv` and `MemoryInv` |
| `ConfirmableOnce` | a CON message that is repeated is handled once, unless a full list had to evict it |
| `OnceUnlessEvicted` | `HandledOnceUnlessEvicted`: any message, but a NON message also when it is repeated after `NON_LIFETIME` |

*Assumption*: `ServerConstants`; of the remote peer nothing, it may repeat a NON message for as
long as it likes (`NonWindow`). The code remembers one for 30052 ms (`CoAP/CoAPPeer.h:62`: 52.5
seconds plus 30 seconds, of which the missing parentheses leave the first without its factor
1000), and a peer that uses all of the 45 seconds of RFC 7252 is handled again after that: the
deviation `HandledOnceInWindow`. For CON messages the two times agree, which is `ConfirmableOnce`.

*The argument*: `ReplayFaithful` is about what the list says of an exchange, so the first
invariant, `ServerInv`, adds `SlotsAccounted`: the list and `space_left` add up, which is what
makes the insertion of an entry succeed where the code does not look. For the second,
`Remembered` relates an entry to the remote peer: an id that was handled and not evicted is on
the list while the peer may repeat it and something is left of its lifetime (`Left`, counted
from its first receipt), and its entry expires no sooner. Entries are
dropped from the head only, up to the first that has not expired; `Remembered` is kept because
what is dropped there has expired, in whatever order the list is. That the dropped part
ends at the *first* such entry needs a least element (`Least`, from the well-foundedness of
the naturals).

`CoAPReentry_proofs`, for every number of slots, transactions, nested calls and every choice
of callbacks that use the SDK:

| Theorem | Property |
|---|---|
| `ReentryInvariant` | the inductive invariants `ReentryInv` and `Calm` |
| `ListStaysConsistent` | `ListConsistent`: the list links allocated transactions only, each once, and the slots add up |
| `CallbacksSafe` | `SafeUnlessReentered`: without a callback that uses the SDK nothing freed is used, and each transaction is called back at most once |

*Assumption*: `ReentryConstants`.

*The argument*: a step works on pointers that its frame saved earlier, and what they point to
may have left the list meanwhile. `Saved` says what such a pointer may be: null, on the list,
freed (then the code reads freed memory, which is the deviation `NoUseAfterFree`, and the
model stops), or a transaction whose timeout a frame *nested in this one* is telling. When
control comes back to the frame there is no nested one left, so what is not freed is on
the list, and taking it off or giving back its slot is right. `Frames` adds that only the
innermost frame is a loop (`Looks`), that no two frames tell of the same timeout, and that
what is being sent is on no list. `Calm` is what holds as long as no callback used the SDK:
at most two frames, saved pointers still on the list, and nothing on the list called back
except by the callback that is running.

`BreakoutTransport_proofs`, for every number of slots and retries, every depth of nested
calls, and whatever sockets, alerts and registrations bring:

| Theorem | Property |
|---|---|
| `TransportInvariant` | the inductive invariant `TransportInv` |
| `TransportIsConsistent` | `TransportConsistent`: a ready transport has a session, and Heartbeats fit the slots |
| `AlwaysToldLatest` | `ToldLatest`: the application was told the status it would get by asking |

*Assumption*: `TransportConstants`.

*The argument*: `TransportInv` has a part for each component. `Client` says which
combinations of the client's last event, session, context and handshake there are; in
particular a session has a context unless freed memory was used, which is why the event alone
is enough for `ReadyMeansUp`. `Slots` counts the Heartbeats: `TimingOut` of a call stack is
the number of frames that run inside the callback of a timeout, whose slots have not come back,
and the lemmas `Pushed`, `Popped` and `Retried` say what a call, a return and a retry do to
it. `News` is `ToldLatest` with its types: the status changes in three steps only, and each
of them calls the application's handler before anything else can run.

`DTLS_proofs`, on the replay window, for every width of the window and of an `int`, and every sequence of
records:

| Theorem | Property |
|---|---|
| `WindowCorrect` | the inductive invariant `WindowInv` |
| `WindowTypes` | `ReplayTypeOK` |
| `ReplaysAreRefused` | `ReplayRefused`: a record that was handed on is not handed on again while it is less than an int's bits behind the newest |
| `FreshRecordsPass` | `FreshPasses`: a record that was not, and lies in the window, is |

*Assumption*: `ReplayAssumption`: an `int` has more than one bit, and the window is at least
as wide as an `int`.

*The argument*: the two properties speak of what would happen to a record, the step
changes the bit field. `WindowInv` therefore ties the bits to the past: `SeenIsMarked` says
that what was handed on and is still in the window has its bit, `MarkedIsSeen` that a bit
stands for something that was handed on. A record ahead of the window shifts the field, and
`SeenIsMarked` is kept because the distance of every older record grows by as much; one
within the window sets one bit, and the mask reaches it because its distance is below the
width of an `int`.

`DTLS_proofs`, on the link, for every pair of cipher lists, with a hint and client
authentication or without, every weather, every number of retransmissions and of faults, of data
and of connections:

| Theorem | Property |
|---|---|
| `LinkInvariant` | the inductive invariant `LinkInv` |
| `PeersAreConsistent` | `PeersConsistent`: no queued flight outlives its peer, and the server works only for a cookie that came back |
| `KeysAreConsistent` | `KeysConsistent`: a connected end has a key with which the other has finished, and no key serves two handshakes |
| `DataArrivesOnce` | `DataOnce`: what one end wrote is read by the other at most once |

*Assumption*: `RecordAssumption` (`MAX_RETRANSMIT` is a natural number). The bounds of the
runs, `MaxFaults`, `MaxWrites` and `MaxConnects`, are any values, and so are the suites: also those
in which the ends have no cipher in common. What the proof takes from the model is its
cryptography: a key is what it was derived from and a record opens only with its key.

*The argument*: an end is a long chain of operators, each with its errors, so `LinkInv` says of
one end what every operator keeps. `Base` holds at each of their boundaries: `Sound` (the peer,
its role, and no handshake without a peer), `Contexts` (two epochs, of which only the first has
no key), `Traffic` (what is sent or queued is of this peer and true: a Finished carries a secret
of `keys`, a hello a cookie that reached the client), `Early` (the same of messages kept for
later), `Secrets` and `Spent`. `Settled` says what a state means and holds when a handler is done
without an error; an error is followed by the closing of the peer in the same call (`Handled`,
`Done`).

`KeysAgree` is not inductive: what is true while an end waits for the other's Finished is that its
own key is the one the message must match (`FinishingRight`), and that whoever sent a Finished
with a secret has that secret among its `keys` (`MsgOK`). The channels can repeat such a message,
not make one. `KeysFresh` needs the randoms: `Fresh` is the next one an end will draw,
every key that the end has or had holds an older one of its own (`Old`), and while it has still to
derive (`DerivingRight`) no key holds the random of the handshake at hand (`Apart`). That covers a
renegotiation, in which the old context lives on, and a client that lost its state.
`DataOnce` needs both: a record that was read and is on its way again (`Spoiled`) either has the
key and epoch of a context, whose window then refuses it (`IsReplay`), or an old key that is never
derived again (`Spent`). So a repeated record is not accepted in a later epoch, although epochs
start over at 1 with each new peer. `CookieFirst` follows from `Settled`: a server that works on a
handshake has a cookie in `verified`.

The loop over the reorder queue takes messages until none has its turn. Its states are those of
a recursive function; that there is such a function, and that each of its values is `Handled`, is
shown by a least counterexample (`TurnsExist`, `TurnsHandled`), as is the choice of the nodes that
are sent again (`SelectedExists`, `SelectedIn`).

`Breakout_proofs`, on received Commands, for every number of slots, of Commands, sizes of
Commands and of buffers, memory that runs out, and handlers that come and go:

| Theorem | Property |
|---|---|
| `QueueInvariant` | the inductive invariant `QueueInv` |
| `QueueKept` | `QueueConsistent`: the free slots are counted right, only the oldest Commands make room, and what is acknowledged was kept or handed over |
| `QueueInOrder` | `DeliveredInOrderOnce`: Commands are popped in the order of receipt, and none is handed over twice |

*Assumption*: `QueueConstants`.

*The argument*: `OnlyOldestDropped` speaks of the place of an evicted Command among those
that were accepted, so the invariant must know where the pending ones are: `Ordered` says
that the queue is in the order of receipt, behind everything popped, and that at least as
many Commands were accepted after a pending one as there are behind it. A full queue
therefore gives up a Command with enough younger ones. `Remembered` excludes that a Command
is kept twice: an exchange that is new has brought nothing, and one that was acknowledged
has brought its Command. That is why `OncePerCommand` and `AckedIsKept` hold although ACKs
are lost and the server repeats.

`Breakout_proofs`, on polling, for all intervals, minima, waits, losses and times of
reinitializations:

| Theorem | Property |
|---|---|
| `PollingInvariant` | the inductive invariant `PollingInv` |
| `TimerKept` | `TimerRight`: the timer runs exactly while there is an interval, and no Heartbeat by timer is early unless `last_polling` was put back |
| `NextPollNear` | `NotTooFar`: the next Heartbeat is never further ahead than one interval |

*Assumptions*: `PollingConstants` and `NoWrap` (the time and all the intervals stay below the
width of the clock). Without `NoWrap` they are false, see the deviations.

*The argument*: a check may wait for a reinitialization and then set the timers from the time
at which it began. `CountedFrom` ties the timers to the check that sent the last Heartbeat:
`last_polling` is not before it, and `next_polling` not before the end of its interval, unless
`backdated`: a Heartbeat timed out while the device was not registered, and its callback put
`last_polling` a minute back, before the check. `FrameRight` says of a check that waits that it
began no earlier than that, and, if the timer made it, when the interval was over, or while
`last_polling` was put back; a check that goes on takes that back, but none does while the
timer's own waits, since it waits for the connection (`~ coap_status`). So `AutoSpaced` holds
when it goes on.

`Modem_proofs`, on the bring-up, for every set of domains and of statuses, every number of faults,
attempts and changes of the registration:

| Theorem | Property |
|---|---|
| `BringUpInvariant` | the inductive invariant `BringUpInv` |
| `AlwaysConfigured` | `Configured`: after an initialization that succeeded, each necessary setting was made after the last reset, and the profile is the expected one, except for commands that the modem did not take and for which another's late OK stood (`passed`) |
| `RegistrationIsTrue` | `RegistrationTrue`: what a getter returns by its own result is current, and a device that read everything holds itself registered exactly if the network does, if the modem took the query that ended the wait |

*Assumption*: `BringUpAssumption`.

*The argument*: `Configured` speaks of the end, so `Script` says of what is *left* of the plan
what must be true of it: a setting that a modem lacks is still to be made behind the last reset
that is ahead (`MadeBefore`, `MadeAfter`), and a profile that is not the expected one is
either ordered or will be found out by the question for it. A reset is where this could
fail, because it takes away what was set before; `ResetRight` shows that the part of the plan
that follows one makes it all again. A command that returned with the late OK of another may
not have been executed; the history `passed` names those, and `Script` is about the modem as it
would be had it taken them (`Credited`). For the registration, `Known` says what Breakout *will*
hold once the lines on their way were read (`Word`: the last of them that has the prefix of
EPS registration): it is registered exactly if the network is. A change of the network
appends a URC and so becomes the last word; reading lines hands the last word over
(`LastLine`, `LastAppended`); a command reads the line up to some place and a later one the rest, so
a line may be read in two goes; the answer to a query counts like a URC (`ParsedUrc`,
`ParsedResponse`: the two forms of a line are told apart for every status).

`Modem_proofs`, on the sockets, for every set of sockets, every number of openings and of
datagrams, and whatever commands are refused, are lost or come too late:

| Theorem | Property |
|---|---|
| `SocketInvariant` | the inductive invariant `SocketsInv` |
| `SocketTypes` | `SocketTypeOK`, also where the late result of another command was taken |
| `SocketsAreConsistent` | `SocketsConsistent`: no socket leaks and the status agrees with the modem, unless a command was lost or late; and, also if some were, data of one opening is not given to the handlers of another, until a command takes the late result of another (`"mistaken"`) or a connection overtakes one |
| `DatagramsAreNotForgotten` | `NoDataForgotten`: a datagram that waits in the modem is announced to the SDK, or about to be |

*Assumption*: `SocketAssumption`.

*The argument*: `SocketsInv` has two parts. `Formed` holds whatever happens: calls, lines and
statuses have their form, also when a call goes on with an answer that was not for it. The
other, `SocketInv`, holds until that happens (`"mistaken" \notin flaw`), and `LateRight` with it:
as long as no command was sent over a late result, none is on the line while a command waits
for its own (`LateKept`).

The properties speak of quiet moments, but the SDK acts on lines that are older
than what the modem has by now. `SocketInv` therefore says of the line what it still tells:
it has one result at most (`OneResult`), exactly while a command was sent (`LineRight`), and
news of connections come in the order of the openings, behind a result only of later ones
(`InOrder`). For `NoLeak`, `LeakRight` says that somebody knows each open socket: the
application, the call that opened it, one that is about to close it, or the news of its
connection. For `NotMixed`, handlers carry the number of the opening they were set for, and
`HandlersRight` says that those of a socket whose data can come in are of its present opening
(`Fresh`) or will be replaced by news on the line; what was fetched is of the opening to which
the command went (`FetchedRight`). For `StatusAgrees`, `NewsRight`, `UseRight` and
`BeliefRight` say what the status *will* be once the lines on their way were read and the
call is over; they hold as long as no command failed that had to succeed (`Quiet`). For
`NoDataForgotten`, `DatagramsRight` follows a datagram from its arrival to the command that
fetches it (`Due`). The one at risk comes in between the reset of the counter and the
read: the modem does not announce it then, because there was a datagram before it, but it does
when it executes the read.

What is read together with the result of a command may be news of the *next* opening of the
same socket. `InOrder` is what tells such news from older ones, and where they come in the
properties allow for it (`"overtaken"`): see `NeverMixed` and `AgreesThoughOvertaken` below.

`Lines_proofs`, on the AT command engine, for every size of the buffer, number of commands
and of URCs, and every set of environments:

| Theorem | Property |
|---|---|
| `EngineInvariant` | the inductive invariant `ATInv` |
| `LinesAreConsistent` | `LinesConsistent`: each URC is handled once and in order, and `in_command` stands for a command that runs unless the PIN was asked for or a `+CME ERROR` was cut |
| `AnswersAreTheirs` | `AnswersAreOwn`: a command gets the result given to it and no lines but its own, as long as the line was not garbled and no command timed out |

*Assumption*: `ATAssumption` (sizes and bounds are numbers).

*The argument*: what was handled says nothing of what is still in pieces, so `Straight`
speaks of the buffer and the port *together*, `rx \o port`: it is a sequence of whole lines
(`Flat`), wherever reading has cut it; the URCs in it are exactly those sent and not yet
handled, in order (`Awaiting`); and, if no command timed out, the rest answers the command
that runs, at most one result, and nothing but URCs behind it (`Own`). Reading moves the cut
and changes nothing of that. A scan takes lines out of the middle: `AtPlaces` says that `At`
keeps places in order, `SubFlat` that taking out a head together with its tail leaves whole
lines, and `ScanOrders` that the URCs taken are the next ones, in order. A result that is
read has all URCs of the buffer already taken from before it (`NoUrcLeft`), so what
`extractResult` cuts off is its own (`ResultStraight`). A timeout leaves the answer of a
command to the next one; that costs `Own`, hence `AnswersAreOwn`, and nothing else. A PIN
handler that runs a command within a scan, a full buffer and a cut `+CME ERROR` do cost
`Straight`, and `HarmIsKnown` records that they are the only causes of a second command on
the stack and of a negative length. The properties are stated for the behaviours without
them, and `CommandsReturn` for all.

`Lines_proofs`, on the console, for every size of the history, length of the line, set of registered commands
and number of commands entered:

| Theorem | Property |
|---|---|
| `ConsoleInvariant` | the inductive invariant `ConsoleInv` |
| `ConsoleIsConsistent` | `ConsoleConsistent`: `history` prints the latest commands in full, the cursor of the arrow keys stays on them, the line stays while its command runs, and `<TAB>` gives up no registered command that was possible |

*Assumption*: `CLIAssumption` (sizes are numbers, the history has room for one command, and
names are made of characters).

*The argument*: `EndsRight` says where the tail is. As long as the history is not full it is
slot 0 and the head the number of commands less one; from then on it is the slot that the next
command takes (`Following`), so a new command overwrites the oldest and no other
(`RememberRight`). `HistoryRight` counts backwards from the head, across the end of the array:
the slot `age` behind it holds the command entered `age` commands before the last
(`SlotsTurn` has the arithmetic modulo `HISTORY`). What an older, longer command left behind
the end of a slot is in `bytes` and is never shown, because a slot is read up to its `len`
(`StoredRight`). The arrow up changes the age of the cursor by one at most, and never
beyond the tail, although it compares slots and not ages (`OlderRight`), and the arrow down by
one back (`YoungerRight`); entering a command takes the cursor out of the history before the
slots move under it. For completion, `CommonRight` says that what `Common` leaves of a name
begins every other match and begins with all that they share, wherever the first difference
is.

Left to TLC: everything under fairness (`Completes` of the link among it), and the modules
`CoAPCodec`, `DTLSHello`, `DTLSSeal`, `DTLSHash`, `ECCurve`, `Strings`, `ModemText` and
`ModemGNSS`. Induction by a theorem of the library takes an operator as a
parameter, which no backend can instantiate; a least counterexample does instead where a
set of numbers is at hand (`Least`), as for the one recursive function of `ModemAT`
(`TakesExists`, `AtPlaces`). What the recursive definitions of the codec, of text, of the
curve and of sealing compute for every input would take such an argument for each of their
loops, and the operators that are declared RECURSIVE are out of reach; there the
instances are chosen to be exhaustive where they can be.

## Deviations

These disagreements between the code and its documentation, its comments or an RFC came up
while modelling. `Recovers` is the run `transport_stuck`. For most others the module has a
property, which stands last or next to the weaker one that holds; the column says which
configuration shows it. Where it names the configuration of a run, put the property in the
place of the run's.

| Property | Configuration | What the code does | What is said of it |
|---|---|---|---|
| `CoAPClient!NoDanglingReceipt` | `CoAPClient_dangling.cfg` | `CoAP/CoAPPeer.cpp:423`: after a failed `handleTx`, `sendReliably` returns 0 and leaves the transaction in the table; the caller frees the receipt it refers to (`Breakout.cpp:556`) and the message is still retransmitted | `CoAP/CoAPPeer.h:232` "1 on success, 0 on failure" |
| `CoAPClient!NoSilentLoss` | `CoAPClient.cfg` | `CoAP/CoAPPeer.cpp:379`: a failed send of an ACK or RST drops the client transaction with the same id, although the id is the remote peer's, and calls nobody back | `CoAP/README.md:206`: the callback tells of the ACK, the rejection or the timeout |
| `CoAPServer!EvictsOldest` | `CoAPServer.cfg` without its symmetry | `CoAP/CoAPPeer.cpp:949`: the entry is inserted before its `expires` is set, so the list is newest first and a full list drops the newest | `CoAP/CoAPPeer.cpp:936` "drop the oldest" |
| `CoAPServer!HandledOnceInWindow` | `CoAPServer.cfg` with `MS = 2`, `NonWindow = 4`, which is `(MAX_TRANSMIT_SPAN + MAX_LATENCY) * MS` | `CoAP/CoAPPeer.h:62`: `NON_LIFETIME` has no parentheses, so `NON_LIFETIME * 1000` is too short and a retransmission is handled twice | `CoAP/README.md:323`: ids are kept for `NON_LIFETIME` |
| `CoAPServer!FreshDelivered` | `CoAPServer.cfg` | `CoAP/CoAPPeer.cpp:902`: an expired entry behind a younger one stays, and swallows a new message with its id | `CoAP/README.md:323`, `CoAP/README.md:152` |
| `CoAPReentry!NoUseAfterFree` | `CoAPReentry.cfg` | `CoAP/CoAPPeer.cpp:706`: a callback made from the loop spins, a nested loop frees the saved successor, and the outer loop reads it | `utils/lists.h:82` "safe version in case you modify the list" |
| `CoAPReentry!CalledOnce` | `CoAPReentry.cfg` | `CoAP/CoAPPeer.cpp:594`: the transaction is on the list during the callback of its ACK; if that callback sends as it expires, it times out too and is freed twice | `Breakout.h:98`, `Breakout.h:102` |
| `CoAPCodec!OptionHasNumber` | `Parts.cfg` | `CoAP/CoAPMessage.cpp:399`: the getters begin after the option they are given, or at the first whatever its number; `Breakout.cpp:882` passes none | `CoAP/README.md:100`: the example reads the options of one number |
| `BreakoutTransport!Recovers` | run `transport_stuck` | `CoAP/CoAPPeer.cpp:251`: `reinitialize` has no case for the code of a fatal alert, does nothing and reports success; every later reinitialization times out | `Breakout.cpp:602` "If the connection was dead for too long, try to automatically reinitialize it" |
| `BreakoutTransport!NoticesLoss` | `BreakoutTransport.cfg` | `Breakout.cpp:827`: a close_notify at the warning level ends the session and nothing reinitializes it; the status stays connected | `Breakout.h:77` |
| `BreakoutTransport!NoNullContext` | `BreakoutTransport.cfg` | `DTLS/OwlDTLSClient.cpp:323`: a socket that could not be opened frees the DTLS context, and the next `connect` uses it | `Breakout.cpp:602` |
| `BreakoutTransport!NoDeleteInUse` | `BreakoutTransport.cfg` | `CoAP/CoAPPeer.cpp:241`: a reinitialization from within the handling of an alert deletes the client that handles it | `src/src/tinydtls/dtls.c:3711`: the handler is invoked with the still existing peer |
| `CommandQueue!EveryCommandAcked` | `CommandQueue_retry.cfg` | `Breakout.cpp:910`: a Command that found no memory is not acknowledged, and its retransmissions are ignored because its id is remembered | `Breakout.cpp:843` "so maybe try again on retransmission" |
| `Polling!SpacedByTheClock` | `Polling_stale.cfg` | `Breakout.cpp:654`: timers are set from a `now` read before a reinitialization of minutes, so two Heartbeats may follow one another at once | `src/README.md:76` "no less than 60 seconds" |
| `Polling!SpacedThoughBackdated` | `Polling.cfg` | `Breakout.cpp:579`: when a Heartbeat times out while the device is not registered, `last_polling` is put a minute back, also to before a later Heartbeat of the application; an interval that is set then counts from there, and the timer fires too soon after that Heartbeat | `Breakout.h:164`, `src/README.md:76` "no less than 60 seconds" |
| `Polling!AutoSpaced` | `Polling.cfg` with a small `WIDTH` | `Breakout.cpp:656`: `polling_interval * 1000` wraps in 32 bits | `Breakout.h:164` |
| `Polling!KeepsPolling` | `Polling_wrap.cfg` | `utils/time.cpp:34`: `last_millis` is never assigned, so `owl_time` wraps after 49 days and `next_polling` is never reached again | `utils/time.h:39` "Non-wrapping time in milliseconds" |
| `Polling!ShortMeansNone` | `Polling.cfg` | `Breakout.cpp:81`: an interval of 1 to 59 seconds polls every 60 | `Breakout.h:165` "values < 60 will result in no polling" |
| `Polling!ResponseMatched` | `Polling.cfg` | `Breakout.cpp:928`: the token that Responses are compared with is never assigned, so the Response to a Heartbeat is rejected | `Breakout.h:384` "to match the Response" |
| `DTLSReplay!ReplayRefusedInWindow` | `Parts.cfg` | `src/src/tinydtls/dtls.c:3834`: the mask is a shift of an `int`, so the window ends at its width and not at 64 | the comparisons with 64 around it |
| `DTLSLink!RetransmitIdentical` | `DTLSLink.cfg` | `src/src/tinydtls/dtls.c:1616`: of the 48-bit sequence number only the first 16 bits, which are 0, are kept, so what is sent again has number 0 | `dtls.c:475` "Retransmissions should be identical" |
| `DTLSHello!ChoosesAlwaysRight` | `Parts.cfg` | `dtls.c:1125`: once the null compression is found the methods after it are not skipped, and are read as extensions | RFC 5246, 7.4.1.2 |
| `ECCurve!ReducesAlways` | `Parts.cfg` | `src/src/tinydtls/ecc/ecc.c:333`: one carry of a sum is made up for, although a sum of numbers that are not reduced may have to be made up for twice | textbook addition modulo p |
| `ECCurve!SignatureAlwaysReadBack` | `Parts.cfg` | integers shorter than 32 octets are read with octets of their neighbours, and a word that is zero is lost | what the same library writes |
| `ModemAT!FlagMeansCommand` | `ModemAT.cfg` | `modem/OwlModem.cpp:848`: a command called from a timer leaves `in_command` set, and no URC is read until the next command | `modem/OwlModem.h:234` "is waiting for its response" |
| `ModemBringUp!DenialKnown` | `ModemBringUp.cfg` | `modem/OwlModemNetwork.cpp:186`: a URC without a location is read as `n` without a status | the list of statuses |
| `ModemBringUp!ChangesReported` | `ModemBringUp.cfg` | `modem/OwlModem.cpp:288`: a failure of `+CEREG=2` is a warning only | `Breakout.h:77` |
| `ModemBringUp!ConfiguredAlways` | `ModemBringUp.cfg` | `modem/OwlModem.cpp:886`: the result of a command that timed out stays on the line and `doCommand` returns the next one with it (`modem/OwlModem.cpp:876`), so a needed setting or profile may be lost while `initModem` succeeds | `modem/OwlModem.h:101` "to ensure that we have a consistent experience" |
| `ModemBringUp!AnswersAlwaysCurrent` | `ModemBringUp.cfg` | `modem/OwlModemNetwork.cpp:479`: a getter that returns with the late OK of another command serves its cache, which may be old | the comment above it, "the URC handlers are catching this, so serving from local cache" |
| `ModemBringUp!RegistrationAlwaysKnown` | `ModemBringUp.cfg` | the same in `waitForNetworkRegistration`: a status that was cached before Breakout had set its handlers may end the wait when the query itself was lost, and Breakout is not told of it | `Breakout.h:77` |
| `ModemSocket!NotMixedThoughLate` | `Parts.cfg` | `modem/OwlModem.cpp:886` and `876` as above, and `modem/OwlModemSocket.cpp:612` and `740`: the number of the socket in an answer is not looked at, so data of one socket may reach another's handlers | `modem/OwlModemSocket.h:53` "the socket the data was received on" |
| `ModemSocket!NoStreamForgotten` | `Parts.cfg` | `modem/OwlModemSocket.cpp:336`: for TCP the counter is reset before the read and reduced by what was read after it, and the length asked for is the counter of UDP | the comment above it, "receive might include an event for the next data" |
| `ModemSocket!AgreesThoughOvertaken` | `Parts.cfg` | `modem/OwlModemSocket.cpp:394`: a connection may take up the number of a socket while the result of its close is on its way; its `+UUSOLI` is handled when the result is read, and `setClosed` then writes over it | `modem/OwlModemSocket.h:60` "the new socket created after accepting it" |
| `ModemSocket!NeverMixed` | `Parts.cfg` | `modem/OwlModemSocket.cpp:344`: data that was fetched is handed to the handlers that the socket has then, which are those of the new connection if one took up the number meanwhile | `modem/OwlModemSocket.h:53` "the socket the data was received on" |
| `ModemCLI!HeadIsLastEntered` | `Parts.cfg` | `CLI/OwlModemCLI.cpp:2082`: a command that the last one begins with is taken for the same | "the last command entered" |
| `ModemText!BypassAlwaysEnds` | `Parts.cfg` | `modem/OwlModem.cpp:364`: a mismatch starts over without the character at hand, so `eexitbypass` does not end the bypass | the name of the command |
| `ModemGNSS!FixAlwaysWhole` | `Parts.cfg` | `modem/OwlModemGNSS.cpp`: the checksum of a sentence is not looked at, so one that lost characters in the port gives a wrong position | NMEA 0183 |

The properties of the passing runs are stated so that these deviations lie outside them,
and say so: `client_promise` has sends that succeed, `HandledOnceUnlessEvicted` of a NON
message speaks of the lifetime that the code computes, `SafeUnlessReentered` ends
where a callback uses the SDK, `RecoversUnlessAlerted` has no alerts, `OnlyOldestDropped`
allows for memory that runs out, `StatusAgrees` and `NotMixed` end where a connection overtakes
a command (`"overtaken"`), `NoLeak` and `NoDataForgotten` do not; `NotMixed` ends where a command
takes the late result of another (`"mistaken"`), and the other three where one is lost or late;
`Configured` leaves out the commands for which such a result stood (`passed`), `RegistrationKnown`
the query that ended the wait (`"AT+CEREG?"`), and `AnswersAreCurrent` the getters that returned
with one (`own`); `AutoSpaced` counts from the check that sent a Heartbeat
and ends where `last_polling` is put back (`backdated`),
`polling` has intervals and times below the width of the clock, `ChoosesRight` has offers
whose last compression is null, `FixWhole` a port that lost nothing.

Smaller things that were met on the way and have no property: the arrow keys left and right
are compared so that they are never recognised; `powerOff` sets the power pin high;
the getter of the GPRS status checks one output pointer and writes through the other; a comma
in an operator's name shifts the fields after it; `open` does not compare the number of the
socket with the size of the table; `getAPNIPAddress` writes before it counts; the inverse
of zero never ends; `fieldModO` reads a ninth word that its caller did not fill; the check of
a signature compares with `r` without reducing; the space check of `dtls_prepare_record`
leaves the tag out; a record that cannot be opened drops the rest of its datagram;
the milliseconds, speed and course of a position are never what was sent; `str_to_hex` writes one
octet more than fits when the buffer has an odd size (`str.c:255`), which `HexBack` accepts. The
cast of an option's number to `coap_option_number_e` (`CoAPOption.cpp:207`) is modelled as the
identity: a build with short enumerations would cut it.

## Not modelled

* AES and SHA-256: stand-ins that depend on every octet and on every key take their place.
* uthash, logging, the texts of enumerations, wrappers of the allocator, the examples.
* The executors of the CLI, each of which calls one operation and prints what it returns;
  `str_to_double`.
* Setters that format one command and keep nothing; the guards of `sendUDP` and `sendTCP`;
  `getError` and `getQueuedForReceive`.
* Contents of Commands and tokens, apart from the length of a Command and whether the token
  of a Heartbeat is 0.
* The branch of `waitForNetworkRegistration` that gives up after 30 seconds, which is
  compiled for tests only.
* The depth of the C stack: `MaxDepth` bounds nesting in the models, nothing does in the
  code (`reinitializeTransport` nests itself at `Breakout.cpp:829`). Heap exhaustion is in
  `CommandQueue` and nowhere else: tinydtls has its memory.

## Plan

Modelled so far, in this order: client table, server list, re-entrancy, connection,
Commands, polling; AT engine, sockets, bring-up; the handshake and its link; codec and
CLI; hellos, sealing, curve, text and positions.

To model next: a composition of `CoAPServer` and `CommandQueue`, in which the eviction of an
id meets its Command; the memory pools of tinydtls at their limits.
