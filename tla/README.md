# rrev: TLA+ models, checks and proofs

rrev is a Rust library for request/reply and event messages over websockets. A
user opens connections as a client (`client::connect`) or through a server
(`ServerHandle`). Every part is a tokio task with a mailbox of capacity one, and
a task that waits for room in another's mailbox does not look at its own. The
hard questions are therefore about waiting, ordering and shutdown, not about
data, and that is what these models keep.

## The parts of the system

| part | state | operations | talks to |
|---|---|---|---|
| `Connection` (`connection.rs`) | `rx`, `internal_rx`, `next_id`, `reply_map`, `event_tx` | `run`: a `select!` of the two channels; `handle_external`, `handle_internal*`, `send_request`; after the loop `close`, `cancel_requests`, a last `ConnectionEvent::Close` | Sender, Receiver, user |
| `ConnectionHdl` | the sending half of `rx` | `event`, `close`, `request_with_sender`, `request`, `request_timeout` | Connection |
| `Sender` | its mailbox, the sink of the websocket | write a message, report a closed websocket, close | Connection (`InternalHdl`), peer |
| `Receiver` | its mailbox, the stream of the websocket | read a frame, pass it on, report the end, close | Connection (`InternalHdl`), peer |
| `RequestHandle` | the id of a peer's request, a `SenderHdl` | `complete` | Sender |
| `Server` (`server.rs`) | `rx`, `tx`, `connections` | `run`: one handler per `ServerMessage`; after the loop it closes the connections, the Acceptor and the Listener | all below |
| `ServerHandle` | the sending half of the server's `rx` | `close`, `get_listen_address`, `get_clients`, `request`, `request_timeout`, `event` | Server |
| `Listener` | the TCP socket, its mailbox | accept a stream, answer `GetAddress`, close | Acceptor, Server |
| `Acceptor` | its mailbox | upgrade a stream, start a connection and its passer, hand the connection to the server | Server |
| `pass_messages` | one per connection | carry a connection's events to the server | Server |
| examples `echo_server`, `ticker_client` | the call `main` awaits | a user that calls and drains in one task; a user that calls in one task and drains in another | Server; Connection |
| `client::connect`, `Parser`, error texts | none | | |

What is hard about it, and what correct means:

* *Cyclic waits.* Connection and Sender send to each other; so do, through
  other tasks, the server and its connections, the server and its Acceptor, a
  user that calls and drains in one task and the server, and, through full TCP
  buffers, the two ends of a websocket.
  Correct would be that no cycle forms. It does form, so the models name each
  cycle and show that it never resolves.
* *Waits for a peer.* A client that never finishes its handshake, or never reads,
  holds up the task that waits for it, then those that wait for room in that
  task's mailbox, up to the whole server. These waits and the cyclic ones are the
  only exceptions to the progress properties, each by name.
* *Requests.* Every caller must get one outcome, Ok only with its own answer, and
  an error must say something true about the wire. This has to survive late,
  duplicate and reordered replies, timeouts, the reuse of an id, and a close at
  any moment.
* *Order.* Calls leave on the wire in order; the peer's messages reach the user
  in order, without gaps, and Close comes last, across two or three tasks.
* *Lifetimes.* Errors that the code ignores, a `select!` without `else`, and a
  `recv` that is expected to yield `None` all depend on which task ends when.
* *Shutdown.* It happens in several awaits, with callers, clients and half
  accepted connections in every intermediate state.

`PROJECT.json` lists the hazards, each at its line.

## Modules

| module | models |
|---|---|
| `Channel` | a mailbox of capacity one, or any value that may be absent: `None` or `Some(m)` |
| `Connection` | one connection with its three tasks, callers, user and peer; its properties; the refinements of `RequestPromise` and `ConnectionView` |
| `RequestPromise` | abstract: what `request` and `request_timeout` promise a caller |
| `ConnectionView` | abstract: a connection as its owner sees it, without Sender, Receiver, ids and frames |
| `Server` | Server, Listener, Acceptor, passers, callers, user and clients; its properties; its connections as instances of `ConnectionView` |
| `EchoServer` | `Server` with `main` of `examples/echo_server.rs` as its user |
| `LinkEnd`, `Link` | two `Connection`s joined by bounded TCP buffers, each with the user of `examples/ticker_client.rs` |
| `ChannelProofs` | lemmas about channels, used by the others |
| `ConnectionProofs` | `Connection`: types, lifetimes, requests, the cyclic wait, the refinement of `ConnectionView` |
| `ConnectionOrderProofs` | `Connection`: order on the wire and of the events |
| `ConnectionPromiseProofs` | `Connection`: answers, the refinement of `RequestPromise`, what has become of each frame handed to the Sender, what a peer may rely on |
| `ServerProofs` | `Server`: types, lifetimes, waits |
| `ServerCallProofs` | `Server`: calls, the list of connections, the refinement of `ConnectionView` |
| `EchoServerProofs` | `EchoServer` as a `Server`, the wait of `main`, the echoes |
| `LinkProofs` | `Link`: each end as a `Connection`, the stall, order and answers from end to end |
| `MCConnection`, `MCServer`, `MCEchoServer`, `MCLink` | values and symmetries for TLC |

`Connection` and `Server` meet in `ConnectionView`. Three theorems, for every
instance, say how:

* `ViewIsImplemented`: what the tasks of `Connection` do is, seen by its owner, a step
  of the view or nothing.
* `ViewStepsAreServed`: each step of its own that the view may take from the state of a
  stream is a step of `Server`, so `Server` leaves out nothing its owner would see a
  connection do.
* `ViewsAreMet`: each stream of `Server` behaves as the view, so the server, the
  passers and the callers do to a connection only what the view expects of its
  outside.

They are stated step by step, the first of `Connection` with its own user and the
other two of `Server`. That the composition of `Server` with one `Connection` per
stream behaves as `Server` does is not stated as a formula of its own, nor proved;
these are the three facts such a proof would rest on. `Connection` and `Link` meet in the
theorem `EndsImplementConnection`: a peer that runs the library is covered by the
free peer of `Connection`.

### How the models correspond to the code

A task moves from one await to the next in one step: between two awaits it owns
its state, so nothing finer can be observed. The variable named after the task
holds the await it is suspended at, and `<task>_msg` the message it carries
across it. The channels are variables of their own: `rx`, `internal`,
`receiver_rx`, `sender_rx`, `event_rx`; in `Server` also `listener_rx`,
`acceptor_rx`, `conn_rx` and `tx`. A send is enabled when the channel is empty
and its receiver is alive; it fails when the receiver is gone. A task that ends
drops its receiver and what is in it: `EmitClose`, `SenderClose`,
`CloseListener`, `ConnEmit` and `PasserPass` do that in the same step.

A handler with an await in it becomes two actions, the part up to the await and
the part from it on: `HandleEvent` and `SendRequest`, then `PassToSender`;
`HandleInternalUserMsg`, then `Emit`; `RecvSend`, then `ForwardToConnection`.
The arms of the two `select!`s are the actions enabled at `"select"`; tokio picks
an arm at random, so the choice is nondeterministic.

A oneshot has a state (`open`, `Ok`, `Canceled`, `Dropped`). Resolving it has no
effect once the caller has timed out, because the receiving half is gone.
`tokio::time::timeout` polls the request before the clock, so a timeout never
discards an answer that is already there.

`next_id` is a `usize`; `IdSpace` is the number of its values and the increment
wraps, as in a release build. A debug build panics there, which is not modelled.

External parts:

* The websocket. A write succeeds, fails with an error that is only logged, or,
  once the peer has closed, fails with `ConnectionClosed`, `Protocol` or `Utf8`.
  A read yields a message, something that is only logged, or, once the peer has
  closed, the end.
* The peer is another user of the library. It answers a request it has received
  under that request's id, any number of times, at any moment.
* The users. The user of a connection drains events, may drop the receiver, and
  completes a `RequestHandle` up to `MaxReplies` times, since `complete` takes
  `&self`. A server's user drains `ServerEvent`s or drops its receiver.
* A client of the server. It opens a stream, finishes the handshake, fails it or
  stalls, sends messages, replies, closes. `AddrOf` may give two streams one
  address; the second comes only when the first is gone, as TCP allows.
* TCP in `Link`. Each direction holds `WireCap` messages: a write waits for room,
  a read for a message. No write fails before the other end's Sender has closed.
  From then on the end of the stream may be read before messages that were
  written, as a reset may discard them.

The users of `EchoServer` and `Link` are those of the examples. `main` of
`echo_server` asks for the address, then takes one event after another and echoes
each, or completes it if it is a request, before it takes the next. A completion
goes straight to the Sender of the client's connection and may never return: `main`
then drains nothing (`Completing`). `main` of `ticker_client` makes its calls in order
and stops at a `SendError`; `receive_events` takes events and completes requests,
one at a time. Its loop is cut to a finite program and given requests and a close,
which the interval timer of the example does not have.

History variables (`accepted`, `sent`, `lost`, `replies`, `arrived`,
`delivered`, `seen_close`, `echoed`) record what properties speak of; no guard of the library's tasks
reads them. The peer does: `ReadReply` answers what is in `sent`, and `LinkEnd`
reads the other end's `sent`. `replies` also bounds the completions.

In `Server` a connection is reduced to what the server can see of it: its channel, the
requests it has not answered, its event channel. Of its Sender only this is left:
after a request, an event or a Close the connection waits (`"send"`, `"close"`)
until `ConnSent` or `ConnClose` says that the Sender had room, which may be never,
because the client does not read or because the Sender waits for the connection in
the cyclic wait of `Connection`. `close` and `cancel_requests` are one step, as
no one sees the await between them. Ids are not kept: whenever some request awaits its
reply, the next may find its id in use and lose its oneshot. A client's requests
and events are one kind of message, as the server passes both on in the same way.

## Runs

Deadlock checking is off in all of them: a system whose calls have all returned
and whose tasks have ended, or which nobody uses any more, is meant to stop. That
tasks do not stop where they should not is what the liveness properties say.

### Runs that pass

| run | bounds | properties |
|---|---|---|
| `connection_requests` | 2 timed requests, 2 ids, 2 frames | `TypeOK`, `OkIsOwnAnswer`, `PendingIsAccountedFor`, refinement `KeepsPromise` |
| `connection_traffic` | 2 requests, 1 id, 1 event, 2 frames; the loop ends by the peer or the user's drop | `NoRequestForgotten`, `SenderOutlivesLoop`, `WireInOrder`, `DeliveredInOrder` |
| `connection_close` | 1 request, 1 event, 1 close, 1 frame completed up to twice; fair | `RepliesAreAccountedFor`, `CyclicWaitIsForever`, `CloseCompletes`, `RequestsEndAfterPeerClose`, refinement `ImplementsView` |
| `server_calls` | 1 client with 2 messages, 2 requests of which 1 is timed, 1 close; fair | `TypeOK`, `EventsInOrder`, `ConnectedAreListed`, `NoCallForgotten`, `ServerWaitIsForever`, `ShutdownCompletes`, refinement `ConnectionsAreViews` |
| `server_streams` | 2 clients, one call that is `get_listen_address` or `get_clients`, close; fair | `TasksOutliveLoop`, `AnnouncedAreClosed`, `ShutdownCompletes` |
| `echo` | 1 client with 5 messages, the third a request, 1 `get_clients` by another task; fair | `EchoesWithoutGap`, `EchoWaitIsForever`, `MainReturns` |
| `link` | A: 2 events and a request, B: 3 events and a close, 1 message in each direction of the wire, 1 id | `ReceivedInOrder`, `OkWasCompleted`, `EverythingArrives`, `PeerEnds` |

Why the bounds are enough. Every channel of the library has capacity one, so a
cycle of two tasks is complete with one message in each channel and one in each
task's hands. The cyclic wait of a connection needs three messages for the Sender
or two and a close; a peer's request that the user completes is one of them. The
wait of the server for a connection needs the connection's channel full, its
passer and itself suspended, and the server's channel full: two messages of the
client and two calls. The wait for the Listener needs three streams: one in the
Acceptor's hands, one in its channel, one in the Listener's. Only the violated
run `server_listen_address` has three; that the wait never ends is a theorem
(`ServerWaitForever`) for any number. The wait of `main` for the server in `echo`
needs four messages: one `main` is echoing, one in the event channel, one in the
server's hands, one in its channel; the fifth is the request among them. Two
requests are what it takes in `server_calls` for one to meet the other's id; with
two messages and a close they also form the wait of the server for a connection
whose Sender takes nothing. An event of the handle takes the same way as a request
but nobody waits for its answer; the echoes of `echo` are such events. The stall of two linked ends needs four events and a close at B against three and a
request at A, after B's Receiver reads no more, or six events at each end while
both are open: the first TLC explores in 2.2 million states, too many for a run that is
repeated often, and the theorem `StallForever` covers it for any programs. `link`
is smaller than that. One id (`IdSpace` =
1) is the smallest space in which an id comes round, two distinguish the answers
of two requests. With two frames a message of the peer waits behind another at
every stage; more frames repeat the same states with other numbers.
The capacity of the event channel is the user's choice; 1 blocks soonest.

Every property has a mutant in `PROJECT.json`, a plausible bug in the code it is
about (a `try_send` for a `send`, a dropped cancellation, an id not advanced, a
task that ends early), that the same run refutes.

### Runs that are violated

| run | property | what happens |
|---|---|---|
| `connection_peer_close` | `PeerCloseEndsConnection` | the peer closes, a write fails, and Sender and Connection wait for each other |
| `server_close_ends` | `CloseEndsServer` | after `Close` the server waits for a connection whose passer waits for the server, though every client reads |
| `server_closed_listed` | `ClosedNotListed` | the `Close` of a short-lived connection overtakes its `NewConnection`; the entry stays until a call forwarded to it fails |
| `server_listen_address` | `ListenAddressAnswered` | a client that stalls its handshake stalls Acceptor, Listener and Server |
| `server_address_reuse` | `ConnectedAreListed` | two clients come from one address; a call to the first fails and removes its entry, the second is listed, and the late `Close` of the first removes the entry of the second |

Each property states what a comment or a test of the repository says; the
findings in `PROJECT.json` quote it. `ConnectedAreListed` passes in `server_calls`,
where every stream has an address of its own. One more comment is not met: "If the
server's handler is dropped then this function will exit" (`server.rs:82`). The
Acceptor holds the server's channel until the server closes it, so the loop never
sees it closed; `TasksOutliveLoop` and its proof say why.

### Fairness

`FairSpec` of `Connection` and of `Server` assumes weak fairness of each task, of each caller but
those of `close`, and of the user's draining of the event channel. tokio polls a
woken task eventually, and each of these actions, once enabled, stays enabled or
is replaced by another action of the same task. Whether close is ever called is
the user's choice, so it is not assumed. Weak fairness alone does
not promise a sender its turn at a mailbox that others keep filling, as tokio's
first-come order does; the liveness results do not depend on that order.
A write to the websocket is taken to end, successfully or not.
Of the Receiver, reading the end of the stream and obeying a close are fair;
reading further frames is not, since the peer may send none. Nothing is assumed
of peers and clients, nor of timeouts, completions or drops by a user.

In `Server` the end of a connection's wait for its Sender (`SenderStep`) is left to
the clients: it depends on one that reads, and even then `connection_peer_close`
shows that it may not come. `ShutdownCompletes` therefore leaves out the connections
that are `Stalled`, the callers they hold, and a server that waits for one of them
(`StallWait`); all else must end. `PromptSpec` adds that every Sender takes what it is
given; `server_close_ends` is checked under it, so that its wait is the cyclic
one and not that of a client that does not read.

`EchoSpec` assumes the same of the server's tasks and of `main` as the one task it
is: it calls or it drains. That a completion returns is again up to the client, so
`MainReturns` excepts a `main` that is `Completing` for ever and the `StallWait` of the
server. The caller of `get_clients` is free.

`Link` states no fairness. The programs are finite and every step uses up a call,
a message or a state that does not come back, so every behaviour that does not
stop early comes to rest. `EverythingArrives` and `PeerEnds` say what holds at
rest, when nothing but a close is enabled.

## Proofs

The proof modules are checked by TLAPS. Every inductive invariant was first
checked by TLC, as an invariant of small instances.

### Connection

The theorems hold for any pairwise disjoint sets of calls, any width of `next_id`,
any capacity of the event channel and any number of frames and completions
(`ConstantsAssumption`).

`ConnectionProofs`:

* `TypeCorrect`: `Spec => []TypeOK`. `TypeOK` is not inductive, because a task that
  hands a message on must have one of the right type in its hands; `Carried` adds
  that and `TypeInv` is the conjunction.
* `SenderOutlives`: `Spec => []SenderOutlivesLoop`. Inductive together with the
  types: only `CloseSender` puts a Close into the Sender's channel, and it leaves
  the states the property speaks of.
* `CyclicWaitForever`: the action property `CyclicWaitIsForever`, by cases on the
  actions: none takes from either channel while both tasks are suspended.
* `RequestsAreKept`: `Spec => []NoRequestForgotten`. The inductive invariant
  `RequestInv` adds two facts. `InOnePlace`: a request is at most once in
  `reply_map` and never there while it is in the channel, and a request not yet
  accepted is in neither; this is what makes it safe to insert and to remove by
  id. `WaitingIsKnown`: a caller waiting on an open oneshot is in one of the two
  places, the second of which is empty after `cancel_requests`, and the first
  after `run` has returned.
* `ViewIsImplemented`: `Spec => ImplementsView`, the refinement of `ConnectionView`,
  with one lemma per action of the view. It needs `InOnePlace`: a reply that takes
  its entry out of `reply_map` takes the request out of the pending ones only if no
  other id has it.

`ConnectionOrderProofs`:

* `WritesInOrder`: `Spec => []WireInOrder`. `OrderInv` puts the places a call passes
  through in line (written, in the Sender's hands, in its channel, in Connection's
  hands, in the handle's channel) and says that whatever is in one was accepted
  before whatever is in the next. `HandsAreFree` says that a task at its `recv` holds
  nothing, `AcceptedOnce` that the history of accepted calls has no repetition.
* `DeliversInOrder`: `Spec => []DeliveredInOrder`. `DeliveryInv`: what the user has
  received and can still receive is a beginning of what arrived, with a Close at
  most at its end and only after the loop; as long as nobody left, all that arrived
  is somewhere on the way; the channel of a user who is gone is empty.

`ConnectionPromiseProofs`, the first two under `EnoughIds`: there are no more requests than ids. The
ids are 2^64, so no connection lives to see one come round; if one did while an
answer to its first holder was still on the way, that answer would go to the second.

* `AnswersAreOwn`: `Spec => []OkIsOwnAnswer`. `AnswerInv`: `next_id` counts the
  requests it was given to, so an id belongs to one request, in messages as in
  `reply_map`; a reply on its way is to a request on the wire; a request answered
  was written and got its own answer.
* `PromiseIsKept`: `Spec => KeepsPromise`, the refinement of `RequestPromise`. On top
  of `AnswerInv` it needs `DroppedIsGone`: a request that lost its oneshot is in no
  place from which it could still be written.

The next two hold for any width of ids. They count the copies of a message in
`sent`, `lost` and the Sender's hands and channel; `CountConcat` is the lemma that
makes the counts add up.

* `RepliesAreKept`: `Spec => []RepliesAreAccountedFor`, with `RepliesCounted`.
* `EntriesAreKept`: `Spec => []PendingIsAccountedFor`. `AccountInv` adds that a
  request not yet given an id is nowhere, and that no request is left in the
  Sender's channel when it has taken a Close.

The last part is what a peer may rely on, stated as lemmas for `LinkProofs`.
`WithoutGap`: as long as no write has failed, what is written or on its way to the
wire has, with a call, every call accepted before it, and while the loop runs
nothing accepted is missing from it. It needs `EnoughIds`, because `send_request`
drops a request whose id is still in use.
`RepliesOutNext`: only `complete` gives the Sender a reply, and only for a request
the user has received. `AnswersInNext`: an answer comes in only by a read.

### Server

For any finite set of streams, any addresses and calls (`ServerAssumption`; the
kinds of calls and messages are distinct, `CallsAssumption`).

`ServerProofs`:

* `TasksOutlive`: `Spec => []TasksOutliveLoop`. It is inductive as it stands and
  needs no types: the Listener ends by itself only after the Acceptor, the
  Acceptor only after the server, and only `CloseAcceptor` and `CloseListener`
  send a Close. This is what justifies leaving the `None` branch of the server's
  loop out of the model.
* `TypeCorrect`: `Spec => []TypeOK`, again with a `Carried` that says what a task
  holds at each await; for the server, that the connection it forwards a call to
  is one it has looked up.
* `ServerWaitForever`: the action property `ServerWaitIsForever`. A wait has three
  forms: for a connection, for the Acceptor, for Listener and Acceptor. Each is
  kept by cases on the actions, but for one: a handshake that finishes starts a
  connection, and were that one of a stream that already has one, it would empty
  the channel the server waits for. `StreamInv` rules it out: a stream waits in
  one place only (at its client, with the Listener, in the Acceptor's channel or
  in its handshake) and has no connection while it does.

`ServerCallProofs`:

* `CallsAreHeld`: `Spec => []NoCallForgotten`. `CallInv` adds that the server holds a
  call exactly at the awaits that serve it, that a listed connection has started,
  and that a connection about to emit Close has no pending request.
* `ListedWhileOpen` and `ClosedAtShutdown`: `Spec => []ConnectedAreListed` and
  `Spec => []AnnouncedAreClosed`, under `OwnAddresses`: no two streams have one
  address. Without it the first is false (run `server_address_reuse`). `ListInv`
  follows a connection the user knows of, or is about to be told of, from its entry
  to its Close: a Close travels only from a connection that is done, and while the
  server closes its connections each is in `closing` or has been told.
* `EventsStayInOrder`: `Spec => []EventsInOrder`. For each connection the events in
  front of the user, in the server's hands, in its channel, with the passer, in the
  event channel and with the connection form a line in which each comes next after
  all before it (`Line`), as long as the server loops and the user listens; an
  action moves one event one place (`LineMoves`) or adds one at the end
  (`LineGrows`). Later nothing is added to what the user can take.
* `ViewsAreMet`: `Spec => ConnectionsAreViews`. A step of the server, of another
  connection or of a caller is a step `Outside` of the view, because a request is
  held in one place (`OneHolder`): nobody else resolves a oneshot a connection holds.
* `ViewStepsAreServed`: the converse for the view's own steps. If a step changes only
  the variables of one stream, the oneshots of requests and, for a read, the count of
  messages read (`OnlyConnection`), and is a step of the view other than `Outside`, it
  is the action of `Server` that has its name. Unlike the others it speaks of one step
  from any well typed state, so it needs no invariant but the types.

### EchoServer

`EchoServerProofs` builds on the proofs of `Server`, for any clients, number of
messages, other callers and capacity of the event channel:

* `EchoIsServer`: `EchoSpec => Spec`. `main` is a user of module `Server`, so all that
  is proved there holds of the echo server.
* `EchoWaitForever`: the action property `EchoWaitIsForever`. Besides the types it
  needs that the server's loop runs, as no caller of `EchoSpec` closes it, and that
  a completion is not a call of the handle.
* `EchoesAreComplete`: `EchoSpec => []EchoesWithoutGap`, under `OwnAddresses`: with a
  shared address the echo of one client goes to the other. `EchoLine` continues the
  line of `EventsStayInOrder`: the echoes a connection has taken, then the one in its
  channel, with the server, in the server's channel and with `main`, each
  before the next and all of messages `main` has received. While the connection
  runs, every event received after one in line is in line. The delicate
  place is the server's lookup, which drops an echo to a connection that is not
  listed yet: the invariant says that an echo past the lookup shows that the
  connection is listed, so a drop can only come before the first.

### Link

`LinkProofs`, for any programs, sizes of the buffers and event channels
(`LinkAssumption`: the calls of an end are of distinct kinds and its program makes
them). Two instances of `ConnectionPromiseProofs`, one per end, give what is
proved of a connection.

* `EndsImplementConnection`: `LinkSpec => EndsAreConnections`. Each action of
  `LinkEnd` is one of `Connection` with a stronger guard, and a step of one end
  is a stutter of the other.
* `StallForever`: the action property `LinkStallIsForever`. Symmetric in the ends:
  a step of an end that is blocked leaves it blocked, and leaves the variables the
  other end's wait depends on (`sent`, `frames`, `sender`) alone. The one fact of
  the past it needs is that the user listens, or the event channel would not hold
  the Connection up.
* `ReceivesInOrder`: `LinkSpec => []ReceivedInOrder`, under `EnoughIdsA`, which is
  `EnoughIds` for end A: a request dropped for its id would be a gap. `WireInv` has three parts. `WireOpen`: no write of A
  fails before B's Sender has ended. `ArrivedAsSent`: B has read a beginning of what
  A wrote, and it is all there but for the replies. `ArrivedInOrder`: what has
  arrived at B while its loop runs, and what B's user can receive for good, is in the
  order of A's calls, the i-th being the i-th. The step that matters is a read:
  `NextInLine` shows from `WithoutGap` and `WireInOrder` of A that the next call on the
  wire is the next one accepted. When a write of A fails B's loop has ended, so a gap
  that opens there is never read into what B's user gets.
* `AnswersComeFromPeer`: `LinkSpec => []OkWasCompleted`, under `EnoughIdsA`.
  `AnswersInv`: a reply on its way from B belongs to a request that B's user received
  and completed once, and so does each answer A has read or given to its caller.
  `AnswerInv` of A ties that answer to the caller's own request.

### Only model-checked

* Liveness, which needs fairness: `CloseCompletes`, `RequestsEndAfterPeerClose`,
  `ShutdownCompletes`, `MainReturns`. The prover does not reason about fairness.
* `EverythingArrives` and `PeerEnds`, which speak of a link at rest and so of ENABLED.

Every other property of the runs that pass is stated by a theorem.

## Not modelled

* A `client::connect` that fails (it returns the error and leaves nothing behind),
  `Parser` (types only), the texts of errors and logs.
* The serde encoding. A message arrives whole or is skipped.
* The failure of `Server::new` to bind.
* `examples/request_client.rs`: one `request_timeout`, which `Connection` has. It
  never drains its events; see the hazard at `connection.rs:173`.
* The panic of a debug build when `next_id` overflows.
* The address and the clients a call returns: the models say whether it returns.
* Why a connection's Sender stalls inside `Server` and `EchoServer`: there it may stall
  at any time, also while its client reads.

## State of the plan

Done: inventory; `Connection`, `Server` and their abstract specifications; address
reuse; the users of the examples; two linked ends; repeated completion; a theorem
for each property that is not about liveness or a state at rest. The code that is
left has no state.
