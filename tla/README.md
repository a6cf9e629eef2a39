# The xmidt-agent in TLA+

A verification development kept beside the xmidt-agent: TLA+ modules that model
its components, TLC configurations that check them on small instances, and
proofs that TLAPS checks for every value of the constants. `PROJECT.json` ties
every definition to the lines it models, and lists the runs, the mutants that
show each property can fail, the hazards, the findings and the theorems.

## The system and its parts

The agent runs on a device, keeps one websocket connection to the cloud and
routes WRP messages between the cloud and services of the device.

```
 cloud <--> websocket client --> auth --> missing --> pub/sub hub --> handlers
                 ^   |                                   |   ^     (crud, mock TR-181,
   credentials --+   |                                   v   |      libparodus services)
   instructions -----+--------------- QOS handler <-- egress route
```

| Part | Source (`src/`) | Module | State |
|---|---|---|---|
| Priority queue | `internal/wrphandlers/qos/priority_queue.go`, `priority.go` | `PriorityQueue`, `PQItems`, promise in `QosBuffer` | modelled |
| QOS handler | `internal/wrphandlers/qos/qos.go`, `options.go` | `QOS`, `QOSProofs` | modelled |
| Publish/subscribe hub | `internal/pubsub` | `PubSub`, `PubSubProofs` | modelled |
| Credentials service | `internal/credentials` | `Credentials`, `CredentialsProofs` | modelled |
| Checksummed files | `internal/fs/options.go` | in `Credentials` (`disk`) | partly |
| Websocket client | `internal/websocket` | `Websocket`, `WsConnProofs` | modelled |
| Websocket library: connection | `internal/nhooyr.io/websocket/{conn,close,read,write}.go` | `WsConn`, `WsConnProofs`, promise in `WireSpec` | partly |
| Websocket library: messages | `.../{frame,write,read,compress}.go` | `FrameHeader`, `Framing`, `FramingReadProofs`, `FramingProofs` | partly |
| Websocket library: opening handshake | `.../{dial,accept,compress}.go` | `Handshake`, `HandshakeProofs` | partly |
| libparodus adapter | `internal/adapters/libparodus` | `Libparodus`, `PubSubProofs` | modelled |
| Ingress chain | `internal/wrphandlers/{auth,missing,logging}` | `Agent` | modelled |
| Log level and crud handler | `internal/loglevel`, `internal/wrphandlers/xmidt_agent_crud` | `Agent` | modelled |
| Mock TR-181 | `internal/wrphandlers/mocktr181` | `MockTr181`, `Agent`, `AgentProofs` | modelled |
| Instructions | `internal/jwtxt` | `Instructions`, `HandshakeProofs` | modelled |
| Wiring and life cycle | `cmd/xmidt-agent` | `Agent`, `Instructions` (`fetchURL`) | partly |
| Metadata, interfaces | `internal/metadata`, `internal/net` | | not modelled |
| External configuration | `internal/configuration` | | not modelled |
| File systems | `internal/fs/mem`, `internal/fs/os` | | not modelled |
| Browser build, test helpers, examples | `ws_js.go` and others | | not modelled |

The `MC` modules give the constants of a module their values for TLC. A proof
module that has the theorems of two components extends both; so the
specification is called `WsSpec` in `Websocket`, `AdapterSpec` in `Libparodus`,
`TxtSpec` in `Instructions` and `Spec` elsewhere, and `Init`, `Next` and `vars`
accordingly.

## How the modules correspond to the code

**PQItems, QosBuffer, PriorityQueue.** `PQItems` holds what an item is and the
two orders of the code: `Less` (delivery) and `TrimBefore` (which payload is
given up first). `QosBuffer` is the promise: a set of items; `Enqueue` adds one
and trims, `Dequeue` takes one that no other precedes. `PriorityQueue` is the
implementation: a slice kept as a heap (`up`, `down` of container/heap), the
running count `sizeBytes`, `trim` that strips payloads in place. The refinement
maps the slice to the set of its items. `Tick` is the clock.

**QOS.** `lock` and `queue` are the fields of the handler; `call[m]` is where
the caller with message m is; `svc`, `pq` and `watch` are the locals of the
serviceQOS goroutine of each channel (`watch` is the attempt whose `ready` and
`failedMsg` it reads); `attempts` are the delivery goroutines. `Start`, `Stop`,
`HandleWrpRefused`, `HandleWrpSend` are the methods, `Receive`, `Return`,
`Ready` and `Dequeue` the cases of serviceQOS, `NextOk` and `NextFail` the
return of the websocket.

**PubSub.** `sub`, `writer` and `pc` give the RWMutex: publications from RLock
to their return are readers, and a waiting writer stops new ones. `task` holds
one goroutine per publication, route and listener. `Visit` starts those of one
route, `Signal` is the send on `handled` or its way out by `stop`, `CloseDone`
the goroutine that waits for them, `Return` the random choice of select. A
handler may subscribe or publish from inside (`Subscribe(l, t)`,
`HandleWrp(p, t)`).

**Credentials.** The record `c` is what a process holds in memory, so that
`Crash` replaces it as a whole and keeps `disk`. `LoadOk`, `FetchOk`, `Announce`,
`Use`, `Store`, `TimerFires`, `ContextDone`, `Wakeup` and `Ack` are the steps of
run; the two writes of fs.WriteFileWithSHA256 are separate and can fail or be
cut off by a crash, which leaves a torn file. `expired` tokens, server answers
and disk failures are external choices.

**Websocket.** `pc` is where run is, `cl` where each conn.Close (by Stop and by
run) is, `mon` and `stale` are the monitors of the current and of earlier
reads, `snd` the callers of Send. The connection is `wsConn`, the lock `readMu`
(`readMuFree`) and the ping listener, which runs in whoever reads. Timers are
actions that may fire at any moment. It keeps the short view of a connection
that the client needs; `WsConn` has the long one.

**WireSpec, WsConn.** `WsConn` is one end of a connection: `g` holds where each
goroutine is (the reader, the writers, the one that closes, those that
timeoutLoop starts after a timed out read), `mu` the holders of `readMu` and
`writeFrameMu`, `loop` timeoutLoop with the two contexts it watches, `cleanup`
the goroutine in which close takes both locks and gives the buffers back.
`ReadHeader`, `ReadControl` and `ReadBody` are readFrameHeader, handleControl
and msgReader.Read; `WriteClose` and `AfterClose` writeClose and what its three
callers do next; `WLock`, `WriteBytes`, `WDisarm` writeFrame; `Drain` and
`HandshakeEnds` waitCloseHandshake; `WgWait` the wait of Close and CloseNow for
the group. There is no clock: a context that is watched may be found done.
`WireSpec` is the promise to the peer: frames, at most one close frame, then
nothing.

**FrameHeader, Framing.** `FrameHeader` writes and reads the bytes of a header
and says how far masking rotates the key. `Framing` takes a message from
msgWriter (`Reset`, `Write`, `Flush`, `Close`, `WriteOnce`) through the frames to msgReader
(`Reader`, `ReadHeader`, `ReadPlain`, `ReadRaw`, `ReadText`), with the trim
writer, the sliding windows, the bufio.Writer in whose pieces a payload is
masked, the read limit, control frames and protocol breaches in between. Bytes
are their positions, so a payload is an interval. compress/flate is external.

**Handshake.** `Dial`, `Redirect`, `Accept` and `VerifyServerResponse` are the
functions of dial.go and accept.go; either end may be another implementation
(`DialForeign`, `AcceptForeign`). Headers are sequences of lines of tokens; the
accepted parameters are those of acceptDeflate and verifyServerExtensions.

**MockTr181, Agent.** `MockTr181` holds what get and set decide; `Agent`
composes a request's way: the websocket's listener (`Receive`), auth
(`Allowed`), the hub (`Publish`, `Return`), missing (`Refuse`), the services
(`Read`, `Set` and its field writes, `Crud` with SetLevel), the answer through
the hub to QOS (`AnswerTr181`, `Send`, `Answered`) or to the websocket
(`AnswerCrud`), around them onStart and onStop, and libparodus as a second
source of messages and as the subscriber that waits for the hub's lock. Hub and
QOS appear with the results that `PubSub` and `QOS` show they give.

**Instructions.** `Endpoint` takes the mutex and looks at the stored endpoint,
`Lookup` queries the zone while it holds it and puts the lines together
(`Reassemble`), `Validate` verifies the token and stores it. `Publish` changes the zone, `Tick` is the
clock. fetchURL's fallback is in `Give`.

**Libparodus.** `gens` numbers the calls of Start; `rcv`, `start` and `canceled`
belong to one of them. `ext` holds the externals (registered services),
`subServices` the map of the adapter from a name to the newest external.
`Stop`, `StopVisits`, `StopVisited` and `StopReturns` are Stop, which walks the
map without the lock. `Register` to `Registered` are one registration;
`Keepalive...` the goroutine of each external.

## What the runs check

A run checks the safety and the liveness of a module together. `agent_refused`
shows a disagreement between the code and a comment; `findings` in
`PROJECT.json` explains it.

| Run | What it shows |
|---|---|
| `pq_heap` | `sizeBytes` is the sum of the payloads and stays within the limit, the payloads given up are the lowest, and the heap implements `QosBuffer` |
| `qos` | no send on a closed channel, no message in two deliveries or delivered after a success, the queue holds at most one item, a failed message is lost only when another delivery overtook it; callers return, a stopped service ends, an accepted message is delivered unless overtaken or stopped |
| `pubsub` | a publication that waits has called every listener of its routes, and its result has a ground; publications and subscriptions return and no signalling goroutine stays, though handlers may hang |
| `credentials` | no channel is closed twice, no waiter sits on a channel that was replaced, a loaded token was issued (also after a crash in the middle of a write), the token in use is stored when the service has stopped; Stop returns unless nobody takes run's answer, the first attempt is announced, waiters are woken |
| `websocket` | every read has its monitor, nothing of an old connection is left at a new one; closed connections are dropped and Stop and Send return, unless a ping listener has lost its monitor |
| `libparodus` | one receiver at a time, the map holds the newest external of a name; Stop returns unless the receiver waits for a Start that has left, a service that is gone is unsubscribed |
| `ws_conn` | whoever ends the connection, one close frame at most leaves and nothing follows it; the pooled buffers have one user and none after they went back; once Close is called or the connection closed, everyone returns, Close included, but for CloseRead's wait for itself and a peer that stalls inside a payload |
| `framing` | the reader gets each message whole, in order and without a gap, through masking, every form of the length, compression, short reads and control frames in between; the two compression windows agree; the read limit refuses exactly what is longer |
| `handshake` | two ends that both open the connection agree on subprotocol and compression, an end that faces another implementation works with what the answer announced, and a server accepts nothing that the client then refuses, unless the caller of Dial added headers of its own |
| `agent` | two overlapping SETs leave each field to the last of them and a refused one leaves no trace; a request that needs an answer gets one unless the exceptions of `IsAnswered` hold; the log level comes back to the original |
| `agent_refused` | *violation*: a request a service has answered is answered a second time, with 531 |
| `instructions` | the endpoint returned belongs to a verified token that was valid when the call began, or is the fallback; `Reassemble` gives back the text that the lines encode, whatever their order |

### Further configurations

Eight more configurations each check one sentence of a comment and end in a
counterexample within seconds. They belong to no run; they are there to look at.

| Configuration | What the trace shows |
|---|---|
| `MCQOS_FailedIsRetried.cfg` | a failed delivery that was overtaken is dropped (`qos.go:172`, `:188`) |
| `MCPubSub_NotHandledIsNotHandled.cfg` | ErrNotHandled for a message that was accepted, when select prefers `done` to `handled` (`pubsub.go:221`, `:145`) |
| `MCCredentials_StopCompletes.cfg` | Stop hangs after a MarkInvalid whose caller gave up (`credentials.go:403`, `:146`) |
| `MCCredentials_InvalidIsNotUsed.cfg` | Decorate uses a token marked invalid (`credentials.go:399`, `:207`) |
| `MCWebsocket_BadMessageReconnects.cfg` | after a bad message run waits for ever for a monitor that has gone (`ws.go:271`, `:336`) |
| `MCLibparodus_ServiceIsFound.cfg` | a registration that fails removes the external registered before under its name (`external.go:98`, `libparodus.go:246`) |
| `MCWsConn_CloseIsTimely.cfg` | Close hangs beyond its 5 seconds: the payload of a data frame is skipped byte by byte under no timeout (`close.go:194`, `:207` against `:91`) |
| `MCFraming_UnreadIsRefused.cfg` | a Reader opened while the payload of a final frame is unread takes it for a header (`read.go:371` looks at `fin` only) |

### Further disagreements

The models also show, or reading the code for them has shown:

- QOS starts a delivery for every message received, beside those under way,
  though a test speaks of a blocked delivery (`qos_test.go:325`), and
  `MaxMessageBytes(0)` means no limit, not 256KB (`options.go:42`).
- A handler that subscribes waits for the publication that waits for it, until
  the publish timeout (`pubsub.go:184` says this is avoided). So does the
  publication of mocktr181's answer behind a subscriber that waits for the lock.
- Stop of the credentials service, called before run has come to `wg.Add(1)`,
  returns while run is still to work; a token that has expired on the disk is
  announced as valid (`credentials.go:345`).
- A ping just before the inactivity timer fires blocks run as a bad message
  does; Stop of the websocket can leave a connection open that run stored
  while Stop was at work (`ws.go:315`); the Authorization header of an earlier
  attempt is sent after a failing credDecorator (`ws.go:238`; headers are left
  out of the model).
- In libparodus the `break` at `external.go:154` leaves the select and not the
  loop, Stop during Start can wait for a receiver that waits for Start
  (the exception in `StopReturnsUnlessUnheard`), and the receiver's socket is
  never closed.
- In the websocket library: after a data message the goroutine of CloseRead
  waits for the group it is part of (`read.go:66`; `WaitsForItself`). A read
  that times out makes timeoutLoop start a writeError at every turn of its loop
  (`conn.go:199`), and the second closes the connection before the first has
  sent its close frame. A ping during the close handshake leaves the closer
  waiting for up to 5 seconds. Between the unlock of `readMu` in
  waitCloseHandshake and the close, a waiting Read can take bytes that are not
  its payload. A hijack that fails after the 101 was written gets no error
  response, though Accept "will write a response to w on all errors".
- Nothing asks fx for the crud handler, and nothing provides the log level
  service it needs, so that the assembled program never subscribes it; the model
  has it as its package describes it. A failing Start of libparodus leaves
  websocket and QOS started, without onStop. A request between ws.Start and
  qos.Start loses its answer (`lost`). A request on which the hub timed out and
  which the service then refuses has no answer (the exception in `IsAnswered`).
- The timer of an earlier change of the log level ends a later one early. A
  token without `exp` is fetched again at every call of Endpoint.

### Bounds

The bounds are constants of the configurations.

- Priority queue: four identities give the heap a third level, so that `down`
  has a choice of children below the root; a limit of 3 with sizes 1, 2 and 4
  has payloads that fit, fill and exceed it. `MaxTime` 1 lets low items expire
  before the next push.
- QOS: two messages, one that fits and one above the limit; two starts give an
  old service beside a new one; `MaxFails` 3 lets both messages fail and one
  fail again.
- PubSub: a listener subscribed from the start and one that subscribes
  meanwhile at another route of the same message; a message for the device, an
  event and a message that is invalid. Any of them may be published, and the
  late listener subscribed, from inside a handler.
- Credentials: two tokens tell an old one from a new one, one crash restarts
  with whatever is on the disk, one caller of MarkInvalid per life of the
  process.
- Websocket: two senders compete with Stop and with each other for the mutex.
  Reconnections are not bounded; only IPv6 is allowed.
- Libparodus: two starts and two externals of one name give every overlap of an
  old and a new one.
- WsConn: one reader, one writer, one closer and one goroutine of a timed out
  read; one frame from the peer (`MaxIn`), one Write or Ping (`MaxOut`). Each pair
  of goroutines meets at each lock. `MCWsConn_TwoFrames.cfg` has a second frame,
  such as a close frame after a data frame or a ping, and holds as well
  (1,294,919 states, ten minutes); the safety theorems cover any number.
- Framing: two writers (interchangeable: symmetry) and two messages of at most
  two chunks; chunks of 3, 126 and 65536 bytes take the three forms of the
  length, two of them no multiples of the masking key; the bufio.Writer and the
  window have their real sizes, 4096 and 32768; the limits are none and 126,
  which one chunk meets exactly. When Close flushes the compressor it writes
  pieces of 3 and 7 bytes (`FlushEmit`), shorter and longer than the four that
  are held back, until there are 5 or more (`MaxFlush`). One frame is on its way
  at a time (`MaxWire`); control frames, short reads and changes of the limit
  are two together (`MaxExtras`).
- Handshake: each request and answer of another implementation has one thing
  wrong, or is right; compression offers and answers of every kind.
- Agent: two requests, the second possibly from the device; one read-only, one
  write-only and one free parameter; each kind of message beside a SET, and two
  changes of the log level.
- Instructions: two callers, tokens that end at 2, at 3 and never, a clock up
  to 3; records in every order of their lines, numbered from 0 and from 1, with
  parts missing, repeated or malformed.

Deadlock checking is on for `pq_heap` and `instructions`. Elsewhere a stopped
system, a closed connection, a handler that may hang and the blocked states
above have no next step.

### Fairness

- A goroutine that can run does (weak fairness on its steps).
- Go's select chooses at random among ready cases, so a case that is ready again
  and again is taken: strong fairness on `ContextDone`, `Return`, `Ready`,
  `Receive`.
- Go's mutex hands itself to a starved waiter: strong fairness on `SendLocks`,
  `SetConn`, `Drop`. In PubSub each listener writes once and weak fairness does.
- Deadlines pass: `Expire`, `CloserEnds`; Send of the websocket writes under a
  timeout, so `NextOk` or `NextFail` happens.
- `WaitersComeAway` assumes a token server that answers now and then
  (strong fairness on `FetchOk`).
- WsConn and Agent have one weak fairness condition for all their goroutines and
  timers together: while one can go on, one does. Each call makes a bounded
  number of steps, so that this weaker condition already leaves nobody behind.
- Nothing is assumed of peers, networks, handlers, services, callers and their
  contexts.

## What is proved

A proof module states for each of its components an inductive invariant (`IInv`,
or `WsInv`, `AdapterInv` and `TxtInv` for the second one) and proves that `Init`
implies it and that every step keeps it, with a lemma per action or group of
actions, and the theorems from it. They hold for every value of the constants
that the named assumptions allow; the bounds of the runs are among these
constants.

- **QOSProofs** (`QOSAssumption`): `TypeCorrect`, `SendSafe` (NoSendOnClosed),
  `AtMostOnce` (DeliveredOnce), `QueueOfOne` (NothingWaits),
  `LostOnlyIfOvertaken` (OnlyOvertakenAreLost), `ReturnIsFinal` (a returned
  service does nothing). Only the caller that holds the lock sends, on the
  current channel (`LockInv`); the current channel is open and later ones unused
  (`ChanInv`); `watch` points to an attempt of its own service (`WatchInv`); a
  message is in one place at a time (`OwnInv`, without which a retry could meet
  a second copy); the latest attempt of a running service succeeded, is watched
  or is queued (`LatestInv`).
- **PubSubProofs**, the hub (`PubSubAssumption`): `NobodyIsSkipped`
  (EveryListenerIsCalled), `ResultHasGround` (ResultIsFounded). The listeners of
  the routes visited have their goroutine while the lock is held (`CalledInv`),
  which needs that nobody subscribes under it; a handler waits for one nested
  call at a time (`CallerInv`); `done` is closed with no handler at work
  (`DoneInv`) and signals come from handlers that accepted (`HandledInv`).
- **PubSubProofs**, the adapter (`LibparodusAssumption`): `ReceiverIsAlone`
  (OneReceiver), `MapLeadsToNewest` (MapIsNewest). The one receiver that is not
  cancelled is that of `shutdown` (`ShutdownInv`); who is past Listen has the
  socket to itself, so that one registration is under way (`BoundInv`).
- **CredentialsProofs** (`CredentialsAssumption`, any number of crashes):
  `ClosedOnce` (NoDoubleClose), `WakeupNotLost` (NoLostWakeup), `LoadIsSound`
  (LoadedWasIssued), `StopStores` (StoppedIsStored). All channels but the
  current one are closed (`ChannelInv`); a complete file holds an issued token
  (`IssuedInv`); outside store the token in use is on the disk unless a write
  failed (`StoreInv`).
- **WsConnProofs**, the connection (`ProcsDistinct`; any writers, timed out
  reads and frames): `BuffersHaveOneUser` (BuffersOwned), `FramesEndWithClose`
  (ImplementsWire, the refinement of `WireSpec`). Who reads or writes holds the
  lock (`LockInv`); the cleanup holds both before it gives the buffers back
  (`CleanupInv`); one goroutine at most is to write the close frame, after
  `wroteClose`, and none once it is out (`CloseInv`). Most actions are instances
  of one move of a goroutine, and `MoveKeeps` shows once what such a move
  preserves.
- **WsConnProofs**, the client (`WebsocketAssumption`): `Monitored`
  (MonitoredRead), `DialIsClean` (CleanDial). A read is cancelled with the cause
  `canceled` only when Stop cancelled the context; between two connections
  nothing of the old one is left unless the context is done; run's own Close
  leaves the connection closed.
- **AgentProofs** (`NamesAreSequences`; any number of requests and parameters):
  `SetsAreWhole` (SetIsWhole). While SETs are at work a field belongs to a writer
  whom only writers follow that still have it to write (`TableInv`); with nobody
  at work nothing is still to write (`TodoInv`).
- **HandshakeProofs**, the handshake (`ProtocolsAreLists`): `EndsAlwaysAgree` (EndsAgree),
  `AcceptedIsAlwaysUnderstood` (AcceptedIsUnderstood), for any options, any
  headers added by hand and any other implementation at the far end. The request
  and the answer stay what the ends made of their options; the rest are lemmas
  on how headers are written and read, among them what FlattenSeq and
  SelectInSeq give.
- **HandshakeProofs**, the endpoint (`TimeIsNatural`, `ExpirationIsNatural`,
  `TextsAreSequences`, `RecordsAreSequences`): `EndpointWasValid`
  (ReturnedWasValid), for what is stored until a time comes from a verified token
  with that expiration (`StoredIsSigned`); `RecordGivesTheText`
  (ReassemblesTheText), for a text of any number of chunks and any order of the
  lines: the loop ends at the first index that is missing, after which a least
  piece that FlattenSeq gets wrong would contradict its equation.
- **FramingReadProofs, FramingProofs** (`SizesAreNumbers`, `NoneIsNoWriter`):
  `MessagesArrive` (ReadsWhatWasWritten), `WindowsInStep` (WindowsAgree),
  `LimitExact` (LimitIsExact), for any writers, chunks, short reads, sizes of the
  buffer and of the window, and any number of frames on their way. What the
  reader has got says nothing of what it will get, so the invariant speaks of the
  wire: its frames form a path from the position of the reader to the position of
  the writer, on which each frame carries the next bytes of its message or is
  skipped (`Path`, in `WireInv`). The writer extends the path at one end
  (`PutLeads`, `TrimLeads`), where the trim writer is four bytes behind the
  compressor; the reader shortens it at the other (`ReaderMoves`).
  `HeaderRoundTrip` shows that a header is read as it was written, in each form
  of the length; `MaskedRight` that masking in pieces rotates the key as masking
  at once would, by a least piece that went wrong. `WindowInv` ties the windows
  to the texts before, `LimitInv` the count of the limit to the bytes read.

Only model-checked:

- every liveness property: fairness is out of the prover's reach;
- the priority queue (SizeBounded, KeepsTheHighest) and its refinement of
  `QosBuffer`: the heap functions are recursive operators and the byte count is
  a sum over a set, and both need induction over data;
- `RefusedIsNotHandled` and the further configurations, which fail.

## Not modelled

- Metadata and network interfaces: stateless, they build a header from constants
  and the interfaces of the moment.
- External configuration, command line and the providers of `cmd/xmidt-agent`:
  once, sequential, over libraries (goschtalt, fx).
- `fs/mem` and `fs/os`: a test double and a thin wrapper. Of `fs`, the creation of
  directories: one system call after the other.
- Browser build (js/wasm), test helpers and examples of the websocket library:
  not part of the agent. NetConn, which the agent does not use; the encoding of
  close codes and reasons; the pools but for who owns their buffers.
- Everywhere: options and their validation where they set no state that a
  property tells apart, headers, logging, events, and the lengths of timers.

## Running

In this directory: `tlc -workers 2 -config MCQOS.cfg MCQOS` for a run (the longest,
`ws_conn`, `framing` and `agent`, take two to three minutes),
`tlapm QOSProofs.tla` for proofs (about ten minutes each for `FramingProofs` and
`HandshakeProofs`, less for the others).
