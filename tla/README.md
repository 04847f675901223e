# A TLA+ model of Communique

Communique is a C++ library for remote procedure calls over a websocket
(WebSocket++ with TLS). Each end of a connection can send *infos*, which need no
answer, and *requests*, whose answer is passed to a callback. This directory
holds TLA+ modules that model the library, TLC configurations that check them on
small instances, and proofs, checked by TLAPS, for every size. Paths below are
relative to the repository's root; `src/src/` is the implementation,
`src/privateinclude/communique/impl/` its private headers.

## 1. Inventory

| Part | State | Operations | Hard part |
|---|---|---|---|
| `UniqueTokenStorage.h` | `container_`, a `std::list` of (token, element) sorted by token; `lockMutex_` | `push`, `pop` (two forms), `at` (unused) | tokens at their limit, gaps, overlapping calls, an exception under the lock |
| `Message.cpp` | the payload | two constructors, `type`, `userReference`, `messageBody` | byte order, offsets, payloads that are too short |
| `Connection.cpp` | `pConnection_` (WebSocket++), `infoHandler_`, `requestHandler_`, `responseHandlers_` (a `UniqueTokenStorage`) | `sendRequest`, `sendInfo`, `setInfoHandler`, `setRequestHandler`, `close`, `isConnected`, `isDisconnected`, `on_message` | threads of the user, the io thread and the `std::async` tasks of both ends; closing, losing messages; matching replies |
| `Server.cpp` | `server_`, `ioThread_`, `currentConnections_` and its mutex, default handlers | `listen`, `stop`, `setDefault*Handler`, `currentConnections`, `on_open`, `on_close` | stopping while connections open and close |
| `Client.cpp` | `client_`, `ioThread_`, `pConnection_`, handlers | `connect`, `disconnect`, `isConnected`, `isDisconnected`, forwarding to the connection | connecting twice, disconnecting in every state |
| `TLSHandler.cpp` | file names | setters, `on_tls_init`, `verify_certificate` | which chains of certificates are accepted |
| `Certificate.cpp` | an X509, and what `init` reads out of it | accessors, `hostnameMatches`, `dateIsValid` | comparing dates and names |
| `openSSLTools.cpp/.h` | none | `splitByDelimiters`, `checkHostname`, `hostnameFromURL`, `convertTime` | positions in strings |
| `Communique.js` | `infoHandler`, pending response handlers | `sendInfo`, `sendRequest`, `handleMessage` | the same protocol and the same bytes, written a second time |

**How they interact.** `Client::connect` and `Server::on_open` each make a
`Connection` around a WebSocket++ connection and give it their handlers. The
`Connection` registers `on_message`, which the *io thread* of its `Client` or
`Server` calls for every frame, one at a time. `sendRequest`, on any thread,
stores the callback in `responseHandlers_`, gets a token (the *user reference*)
and sends it along. The other end's `on_message` starts `requestHandler_` with
`std::async` and the task sends the reply with the same reference, of type
`RESPONSE`, or `REQUESTERROR` if the handler threw or is not set. When a
`RESPONSE` arrives the callback is popped under its reference and started with
`std::async`.

The future which `std::async` returns is not kept, and the destructor of such a
future waits for the task. So the io thread stops reading until the handler has
returned. Most of what `Connection` guarantees rests on this, and so does its
worst trap, a request handler that waits for a request of its own.

**What makes each part correct.** *UniqueTokenStorage*: a thread-safe map, no
two elements under one token, nothing lost, no refusal while a token is free,
the mutex always given back. *Message*: what is read is what was written.
*Connection*: a callback gets the reply to its own request, once; handlers and
callbacks run in order; a request that arrives is answered, and no callback is
forgotten while both ends are open. *Server*: connections in the list are
those that are open, and `stop` returns. *Client*: `isConnected` and
`isDisconnected` answer in every state, `disconnect` returns. *Several clients*: no
client of a server delays another for ever, but by the trap above. *openSSLTools*,
*Certificate*: the functions compute what a reference definition says. *TLSHandler*:
with a file to verify against, no peer is accepted without a chain that OpenSSL
accepts.

Everything in the code that is hard to test is listed, at its line and with the
property that covers it, under `hazards` in `PROJECT.json`.

## 2. Modules

    TokenList ---- UniqueTokenStorage ---- implements --> TokenMap
        |                  `-- UniqueTokenStorage_proofs
        |-- TokenList_proofs
        `-- Connection ---- ConnectionInvariant ---- MCConnection
                |                  `-- Connection_proofs
                `== TwoClients ---- MCTwoClients         (two instances)
                        `-- TwoClients_proofs

    Message ---- BrowserMessage ----.            Server ---- Server_proofs
                                    |            Client ---- Client_proofs
    Hostname ---- Certificate ---- MCFunctions   CommuniqueJS ---- CommuniqueJS_proofs
                                    `-- Functions_proofs

**TokenList** has the algorithms of `UniqueTokenStorage` as operators on a
sequence of `[first, second]` records. An iterator is a position; `Len + 1` is
`end()`. `FreeToken(c, t, p)` says that `getFreeToken()` returns token `t` and
position `p`, with one disjunct per branch of the code; `Full` is the case in
which it throws. `MaxToken` is the limit of the token type.

**UniqueTokenStorage** calls them from several threads, one step per statement
that matters: lock, `getFreeToken`, `emplace`, lock, search, `erase`. `call[n]`
holds a thread's place and its locals, among them the iterator. The guard's
unlocking belongs to the step that ends the call, and to the exception. The
mutex is a guard of the locking steps only, so what happens under the lock is a
consequence, not an assumption (`LocalsFresh`).

**TokenMap** is what the class promises: a function from tokens to elements, on
which each call takes effect in one step between its call and its return.
`ImplementsTokenMap` is the refinement; it maps the list to the function.

**Message** has the header's encoding and decoding on sequences of bytes.
**BrowserMessage** has the same for `Communique.js`, which writes a request into an
`ArrayBuffer`, a byte for each character, and an info as a string, which a browser
sends as UTF-8.

**Connection** composes both ends of one websocket. Its variables are those of
the two `Connection` objects (`responseHandlers`, `infoHandler`,
`requestHandler`), of WebSocket++ (`state`, `wire`), of the running code
(`tasks`, and `userReference`, the local of `sendRequest`), and histories
(`stage`, `put`, `handled`, `answered`) that no code reads; `stage` decides only
whether a call of `sendRequest` is still to begin or is between its two steps.

| Actions | Code |
|---|---|
| `SendRequestPush`, `SendRequestThrows`, `SendRequestSend` | `sendRequest`, in two steps with other threads between them |
| `SendInfo`, `SetInfoHandler`, `SetRequestHandler`, `Close` | the functions of those names; `Close` with the waiting in `isConnected` |
| `OnInfo`, `OnRequest`, `OnRequestNoHandler`, `OnResponse`, `OnRequestError` | `on_message`, one action per branch, `OnRequestError` for the branch that is missing |
| `InvokeRequestHandler`, `RequestHandlerReturns`, `SendReply` | the task of a request: the call of the handler, its result or exception, the reply |
| `RunResponseHandler` | the task of a response |
| `ServerOpen`, `ClientOpen`, `ReceiveClose`, `Discard`, `Terminate` | WebSocket++, as the library uses it: opening, the closing handshake, frames that arrive while not open, the loss of the link |

Bodies are not modelled as text: the body of a message is the call it comes
from, that of a reply the request it answers. `Connection` uses `TokenList`
directly, `push` and `pop` in one step each; the refinement proved about
`UniqueTokenStorage` is what justifies it.

WebSocket++ is not in the repository. The model assumes of it that frames
arrive in the order in which they were sent, that `send` on a connection that is
not open fails with an error code (which the library ignores), that data frames
are delivered to `on_message` only while the connection is open, by one thread,
and that the link may be lost at any time. Info handlers and callbacks are
assumed to return; a request handler may throw, and may wait for requests of its
own as the constant `Nested` says. A handler that throws on the io thread ends
the program and is not modelled.

**ConnectionInvariant** states the inductive invariants: the places of a request,
the order of what is on its way, and that none of it is lost; **MCConnection** has the
instances.

**TwoClients** is a server with two clients: two instances of Connection, `A` and `B`,
with variables of their own, whose server ends are served by one io thread, the
`ioThread_` of the `Server`. So `IoThreadFree` joins the server's steps: it reads,
opens and closes nothing on either connection while it waits for a task of the
other. A request handler reaches the other clients through
`Server::currentConnections()`; here `Nested` may name requests to the other
client, which are sent while the handler runs (`MaySend`), and for whose answer it
waits (`MayReturn`). Each action of the composition is an action of one instance
that leaves the other's variables alone.

| Actions | Code |
|---|---|
| `IoThreadA`, `IoThreadB` | the server's `ioThread_`: `on_message` and the opening and closing, of one connection |
| `RunTaskA`, `RunTaskB` | the `std::async` tasks of the server |
| `SendA`, `SendB` | `sendRequest`, at either end |
| `ClientA`, `ClientB`, `UserA`, `UserB` | the threads of a client, and `close` and the loss of a link |

**Server** has the calls of `listen` and `stop`, one step per statement
(`pc`), next to the io thread (`io`), which calls `on_open` and `on_close`. A
connection `c` goes from the acceptor's queue through a handshake to open,
closing and closed (`raw[c]`); only the io thread moves it, but for the closing
that the loop of `stop` does. `currentConnections` is a function from the
connections in the list to their handlers: the order of the list matters to
nothing. The lambda's search in `on_close` and the erasure are one step, under
the mutex. `stop` holds the mutex over several steps, so that the io thread may
come to it in between and has to wait. A connection is closed (`terminated`)
before its close handler is called, and other handlers may run first, as in
WebSocket++. `caller` is the thread or the handler that called; one call at a
time is the one assumption about callers, because `ioThread_` has no mutex.

| Actions | Code |
|---|---|
| `ListenCall`, `StopCall` | entering `listen` (with the `stop` it calls if the thread is joinable) or `stop` |
| `StopListening`, `LockConnections`, `CloseNext`, `UnlockConnections`, `Join` | `stop` |
| `Listen`, `ListenThrows`, `StartAccept`, `StartAcceptThrows`, `StartThread` | the rest of `listen` and its exceptions |
| `SetDefaultHandler` | the four setters of default handlers |
| `OnOpen`, `OnClose` | the functions of those names |
| `ReceiveRequest`, `TaskReturns` | a request handler of a connection; the rest of what a connection does is in module Connection |
| `Arrive`, `Accept`, `HandshakeDone`, `HandshakeFails`, `ReceiveClose`, `CloseDone`, `LinkLost`, `CallOnClose`, `RunReturns` | WebSocket++ and asio |

**Client** has `connect` and `disconnect` in the same way, each attempt with a
connection of its own, and a thread that polls `isConnected` or
`isDisconnected` meanwhile (`Look`, `IsConnected`, `IsDisconnected`). A
connection is `created` by `get_connection` and `connecting` once
`client_.connect` has queued its work; both are `connecting` to `get_state()`.
`handling` says that a handler runs for which the io thread waits; such a
handler may call `connect` and `disconnect` too. `terminated` is the end of the
program by `std::terminate`. A `connect` that throws because of its URI changes
nothing and is no step.

Of asio, `Server` and `Client` assume what its documentation says: `run()` returns when there is
nothing left to wait for, and from then on the service is stopped, and `run()`
returns at once, until somebody calls `reset()`, which nobody does
(`exhausted`). Of WebSocket++, that handshakes have a timeout.

**Hostname** has the functions on host names on sequences of characters, of
which it keeps the classes that the code tells apart; loops are recursive
functions of a position.

**Certificate** has what `Certificate.cpp` and `TLSHandler.cpp` decide about a
certificate that OpenSSL has parsed. A certificate is its subject and its
alternative names, as sequences of typed entries, and the text of its two dates,
two digits to a number. The lists that are searched for a match are the sets of
their entries. `convertTime` goes from such a text to a `std::tm`, through
`mktime` with the local clock's offset, to a `system_clock` whose 64 bits of
nanoseconds wrap round (`from_time_t`; g++'s library, the compiler of
`Dockerfile.build:8`). `verify_certificate` is OpenSSL's callback for each
certificate of a chain, and `Verify` stands for OpenSSL's loop over them.

**MCFunctions** calls these functions, one step to a call, with every argument
out of a set, and states what is meant: a message is read as it was sent; an entry of
a certificate covers a name that comes from it by substituting text without dots for
each asterisk; the hostname of a URL is what stands between the optional protocol
and the first ":" or "/"; a certificate is valid between its dates; a chain is accepted
if each of its certificates is.

**CommuniqueJS** is the browser's end: the array of handlers, the reference
found by searching from 124, the socket's `readyState`. A browser runs one
function at a time, so each function is one step; `sendRequest` stores the
handler before it sends, which throws while the socket is connecting. The other
end is reduced to what module Connection shows of it, one request served after
another, each reply with its reference.

## 3. Checks

| Run | Bounds | What it shows |
|---|---|---|
| `unique_token_storage` | 2 threads, 2 elements, 4 tokens; calls without limit | The list gets full, its end is at the limit, its front is not zero, it has gaps, and calls overlap in every way. `TokensAscend`, `LocalsFresh`, `LockReleased`, `ImplementsTokenMap` |
| `connection` | r1, r2, r3 of the server with 2 tokens, info i1 of the client, whose handler of r3 sends r4 back; the server's request handler set and emptied | `ResponsesMatched`, `RepliesReachTheirRequest`, `AnsweredInOrder`, `HandledInOrder`, `NoHandlerForgotten`, `NestedNeverAnswered` and `EveryRequestEnds`, with ends closing and the link failing at any moment; references run out and are used again: the inductive invariant `OnePlacePerRequest` |
| `connection_error_reply` | r1 and r2 of the server, r1 alone suffices; the client's request handler set and emptied | a violation, see below |
| `two_clients` | r1 of client a, whose handler forwards it as r2 to client b, r3 of the server to b; 1 token at each end; the request handler that serves a set and emptied at any time | `OneHandlerAtATime`, `ForwardedNeverAnswered`, `ForwardingStopsServer`, `BothServed` |
| `server` | 2 connections, calls of `listen` and `stop` without limit, the default request handler set and emptied at any time | `ListTracksConnections`, `TaskHasConnection`, `LoopIsValid`, `HandlerStopHangs`, `StopReturns` |
| `client` | 2 calls of `connect`, any of `disconnect`, a poller | `OpenHasThread`, `HandlersForwarded`, `HandlerDisconnectHangs`, `DisconnectReturns`, `IsDisconnectedReturns` |
| `functions` | 13 references around byte boundaries, 6 bodies, 4 types; texts of up to 3 characters around the limits of a byte and of each length of UTF-8; names and entries of up to 4 characters out of "a", ".", "*", certificates with up to 4 names; URLs of up to 6 characters, one of each class; dates from 2000 to 2261, clocks a second before, at and after each, in 3 time zones; chains of 0, 1, 2, 8, 9 and 10 certificates, with an error anywhere | `ReceivedAsSent`, `BrowserIsUnderstood`, `WildcardIsOneLabel`, `HostnameIsExact`, `ValidBetweenDates`, `WholeChainVerified` |
| `certificate_time` | the same, with dates up to 9999 | a violation, see below |
| `hostname_dots` | names and entries of up to 2 characters | a violation, see below |
| `communique_js` | 3 requests and an info of the browser, a notice of the other end | `RepliesReachTheirHandler`, `HandlersKept`, `RequestsEnd` |
| `client_reconnect`, `client_retry` | 2 calls of `connect` | violations, see below |

Two requests in one direction are enough for every order of two messages, and
three for two tokens are enough to run out and to reuse a token while another is
in use; a request of the client lets requests cross responses. The
proofs of section 4 remove the bounds for the safety properties that matter
most. `two_clients` has the least with which a forwarded request can be sent,
refused for want of a reference, or find its client gone, and with which the
other client has something to lose. Two connections of a server let one be closed by `stop` while the other
opens, closes or runs a handler; two of a client let it connect again in every
state of the first. `CHECK_DEADLOCK FALSE` is set where the system really may
stop: two closed connections with nothing to read, a handler that joins its own
thread, a program that has been terminated.

`two_clients` says how far a server's connections depend on each other. Its handlers
never run at the same time, whichever client they serve, although each runs on a
thread of its own: they need no lock between them. The price is that a
handler which forwards a request to another client and waits for the answer stops
the whole server, for good: no message of any client is read and no closing noticed
(`ForwardingStopsServer`). Without such a handler every request ends, whatever the
other client does (`BothServed`).

`BrowserIsUnderstood` says which texts survive the way from a browser and back:
in a request those whose characters fit a byte, in an info only ASCII.

`EveryRequestEnds` excepts what `NestedNeverAnswered` says: while a handler waits for
a request it has sent back, its end reads nothing. It and `BothServed` say how things
are in the end, once all calls that are made have been made; so a request that comes in
time has ended too. A request handler may be unset when a request arrives, or between
the look at it and the call (`Connection.cpp:143,151`); `connection` and `two_clients`
have both, and the theorems of section 4 hold whichever handlers are set and emptied.
An info that meets no handler is only ignored (`OnInfo`), which no property minds; the
run keeps its handler set, and so is small enough to show every request's end.

`WildcardIsOneLabel` says nothing of a certificate and a hostname of which some end in
a dot and others do not; finding (5) does.

In `CommuniqueJS`, a request that is refused is one that has ended (`RequestsEnd`), and
may stay in the array (`HandlersKept`). These properties describe what the missing
branch for `REQUESTERROR` leads to, and say that later requests do not suffer from it;
they do not find fault with it. Finding (1) is the same of `Connection`.

`StopReturns` has a premise, that no handshake is under way once the acceptor is
closed. Without it `stop` may hang: a handshake that is done after the loop
leaves an open connection that nobody closes. `DisconnectReturns` needs none of
that, because `Connection::close` waits for the handshake; it excepts only the
handshake that never begins, finding (2).

**Fairness.** In `Connection` and `TwoClients` it is one weak fairness of all threads
together: of the io threads, the tasks, and `sendRequest` once it is called. The calls
are finitely many, so if some thread always goes on, all that can be done is done at
last, and nothing is assumed about which goes first. A handler that sends a request back,
or forwards one, is taken to send it. Nothing else makes a user call anything, and
closing or losing the link is never fair. In `Server` and `Client`, the calls of the
user go on once begun, and the io thread is weakly fair; accepting, the end of a handshake and the end of
closing are strongly fair, because asio serves what is ready in turn, and
requests that keep arriving do not keep it from the rest. In
`UniqueTokenStorage`, a thread inside `push` or `pop` goes on; nothing is assumed
about who gets the mutex.

**Findings.** (1) `README.md:6` of the library says that "the reply is passed to a
callback function supplied when the message is sent". A reply of type
`REQUESTERROR` is not: `on_message` has no branch for it
(`Connection.cpp:136-194`). The callback of a request whose handler threw, or
that met no handler, is never called, and stays in `responseHandlers_` with its
reference. `ReplyIsPassedToCallback` states the documentation's sentence and the
run `connection_error_reply` violates it. The other properties are stated so
that they hold with this behaviour: a refused request is excepted in
`NoHandlerForgotten` and is an end in `EveryRequestEnds`.

(2) `Client.h:25` says that `isConnected` "blocks until [the handshake] is
finished". After `disconnect` and a second `connect` (`Client.cpp:82`) the asio
service, which is stopped, is run without a reset; the handshake never begins,
and `isConnected`, `disconnect` and the destructor wait for ever
(`IsConnectedReturns`). From the same cause a server that listens a second time
accepts nobody: in module Server no `Accept` is possible once `exhausted` is
true. No run is devoted to that.

(3) A `connect` after an attempt that failed, with no `disconnect` between,
assigns to a joinable `std::thread` and ends the program (`ConnectReturns`);
`Client.h:22` says that it returns. The tests connect each client once, and
listen once.

(4) `openSSLTools.h:62` says of `convertTime` that its result "could be out by as
much as 24 hours". Dates from April 2262 on overflow the nanoseconds of
`system_clock` (`openSSLTools.h:166`), among them the one that X.509 writes for a
certificate that never expires, 99991231235959Z: it is taken for a date in 1816, and
`dateIsValid` finds the certificate expired (`TimeWithinADay`).

(5) `openSSLTools.cpp:120` says of a hostname and a name that allows it: "Must be same
number of dots". What is compared is the number of labels, and `splitByDelimiters` makes
none of what follows a dot at the very end (`openSSLTools.cpp:40`), although its comment
says that "any single delimiter will produce a new element" (`openSSLTools.cpp:14-15`). So a
certificate for "a" matches the hostname "a.", and one for "a." the hostname "a"
(`SameNumberOfDots`).

Every property has a mutant: a changed definition, kept beside the true one and
named for the slip it stands for (`Arrived_FutureKept` keeps the futures,
`FreeToken_NoLimitCheck` lets the token wrap, `Year_1900` forgets the century), under which the property fails.

## 4. Proofs

All safety properties that the runs check are proved. The theorems on the modules
with state hold for any sets of threads, elements, requests and infos, any
limit of the token type, any handlers and any nesting of requests. They assume
only the named assumptions of the modules (the limit is a natural number,
requests and infos differ, each call has an end it is made on, a request that a
handler forwards to the other client is one of the server's). The theorems on
functions hold for the arguments named below, of every length.

* **TokenList_proofs**: what `emplace` and `erase` do to a list of any length
  (`EmplaceEffect`, `EraseEffect`), that the free token lies strictly between
  its neighbours (`FreeTokenFits`), that the list stays sorted, and that
  `getFreeToken` throws only when every token is in use
  (`FullHoldsEveryToken`, by the least gap).
* **UniqueTokenStorage_proofs**: `TypeCorrect`, `TokensUnique`, `LockProtects`
  and `Refinement` (`Spec => ImplementsTokenMap`). The inductive invariant joins
  the types, the sortedness and "the locals of the thread that holds the lock
  are right"; sortedness alone is not inductive, because `emplace` trusts an
  iterator found two steps before.
* **Connection_proofs**: `TypeCorrect`, and from it `Placed`
  (`OnePlacePerRequest`), `Matched` (`ResponsesMatched`), `RepliesCorrect`
  (`RepliesReachTheirRequest`) and `NestedBlocked` (`NestedNeverAnswered`).
  That a response finds the right handler is not inductive: it depends on
  every earlier place of the request carrying the same reference, and on no
  second copy existing. `OnePlacePerRequest` says so: stored handlers are under
  their own reference (`HandlersOwned`), handlers of requests still under way
  are stored (`HandlersAwait`), and each frame and task agrees with the stage
  of its request (`FramesPlaced`, `TasksPlaced`, `AnswersPlaced`), at most one
  task per end. The lemma `Moved` reduces a step to the request it moves; the
  lemmas before it say what sending and taking a frame do to the queues.
  `NestedBlocked` adds `NestedWaits`: a request sent by a handler keeps that
  handler's task in place, and with it the io thread that would read the reply.
* **Order, in Connection_proofs**: `HandlersInOrder` (`HandledInOrder`) and
  `RepliesInOrder` (`AnsweredInOrder`), both from `Ordered`. That what was handled is
  in order says nothing of what comes next, so the invariant `InSendingOrder` speaks of
  all that is on its way: `Chain` says that calls done come before the one in progress,
  this before those in the queue, and those are in order among themselves, all in the
  order of `put`. There are three such chains: from `sendRequest` and `sendInfo` to the
  handler, from `sendRequest` to the reply, and from the reply to the callback; the end
  of the second is the beginning of the third, which is how a reply inherits the place
  of its request. That there is at most one task at an end, from `OnePlacePerRequest`,
  is what makes "the one in progress" come before the queue.
* **Nothing forgotten, in Connection_proofs**: `NoneForgotten` (`NoHandlerForgotten`)
  from `OnTheirWay`. `EveryRequestOnItsWay` says that a request between its sending
  and the reading of its reply has a frame or a task, that its handler is gone once it
  is called, and that it is lost only when an end has closed. It needs `TasksOpened`: a
  reply could otherwise be sent by an end that is still connecting, and be lost while
  neither end has closed.
* **CommuniqueJS_proofs**: `TypeCorrect`, `HandlersCorrect` (`HandlersKept`) and
  `RepliesCorrect` (`RepliesReachTheirHandler`). The browser searches its array from
  the first reference for a free one and matches a reply by the first entry with its
  reference; that this is the right one is not inductive. `Placed` adds that a call is
  in one frame at most and that the frame carries the reference its handler is stored
  under (`Outgoing`, `Incoming`), for which references have to differ while they are
  stored (`HandlersKept`); the other end may use the same ones for requests of its own.
* **Functions_proofs**, about `MCFunctions`, for arguments beyond those that TLC
  can enumerate:
  - `RoundTrip` and `SentIsReceived` (`ReceivedAsSent`): all references below 2^32, all
    bodies.
  - `BrowserUnderstood` and `BrowserSpeaks` (`BrowserIsUnderstood`): all references below
    2^32, all texts of characters below the surrogates (55296), which a browser encodes
    in one, two or three bytes each. `UTF8Text` says that the bytes of a text are as many
    as its characters only if it is ASCII.
  - `HostnameExact` and `HostnameCorrect` (`HostnameIsExact`): all URLs, of any characters.
  - `WildcardExact` and `WildcardCorrect` (`WildcardIsOneLabel`): all names of the
    characters "a", "." and "*", the classes that the comparison tells apart. The code
    compares label by label, the reference definition substitutes text for asterisks; both
    are equivalent to a *path*, a position of the name for each character of the entry
    (`Paths`). `SplitIs` says what `splitByDelimiters` returns, `AllowsIsPath` goes from
    label to label, from the end of the entry to its beginning, and `CoversIsPath` cuts
    the name at the positions of a path. `WildcardExact` leaves out a dot at the end of
    either (`Relative`), as the code does; where both end in one, or neither, it makes no
    difference (`CoversDotted`), and that is what `WildcardCorrect` needs.
  - `DatesExact` and `DatesCorrect` (`ValidBetweenDates`), and `TimesCorrect`: all dates
    from 2000 to 2261, any clock within a day of UTC. `TimesCorrect` is
    `TimeWithinADay`, which the run `certificate_time` violates beyond those years.
  - `ChainExact` and `ChainsCorrect` (`WholeChainVerified`): chains of every length.

  The library's induction theorems take an operator as a parameter, which the provers
  cannot instantiate. So induction is stated of a set: `UpTo` and `DownTo` say that a set
  of numbers that has the first (the last), and with each its successor (its
  predecessor), has all, from the well-foundedness of `<` on the natural numbers. The
  recursive functions of the model are functions on positions; that a solution of
  their equations exists is proved by building it up from the last position
  (`RecursionExists`, `LoopExists`, and `JumpsExist` for the loop that goes from one
  delimiter to the next).
* **TwoClients_proofs**: `EachIsAConnection` (each of the two connections takes only
  steps of module Connection), `HandlersAlone` (`OneHandlerAtATime`),
  `ForwardedBlocked` (`ForwardedNeverAnswered`) and `ServerStops`
  (`ForwardingStopsServer`). `PA` and `PB` instantiate `Connection_proofs`, so that
  its invariants hold of both connections (`Placed`; `SameA` and `SameB` say that
  `A` and `PA` have the same definitions). `Apart` adds that not both have a task at
  the server, `WaitsA` and `WaitsB` that a forwarded request has its handler still
  running, which keeps the io thread from reading its reply.
* **Server_proofs**: `TypeCorrect`, `ListCorrect` (`ListTracksConnections`),
  `TasksSafe` (`TaskHasConnection`), `LoopSafe` (`LoopIsValid`) and
  `HandlerHangs` (`HandlerStopHangs`), for any number of connections. None is
  inductive alone. `ListInvariant` adds where the io thread is when it waits for
  the mutex (`HandlersPlaced`), that `stop` holds it while it loops
  (`LoopHoldsMutex`), that a running handler keeps the io thread in `run()`
  with nothing called (`TasksBlock`), and that a handler in `stop` is one of
  those running (`CallerBlocked`); its lemmas prove it for every step.
* **Client_proofs**: `TypeCorrect`, `OpenServed` (`OpenHasThread`),
  `HandlerHangs` (`HandlerDisconnectHangs`) and `HandlersCorrect`
  (`HandlersForwarded`). `ThreadInvariant` adds that open connections and
  handlers belong to the first `run()`.

TLC has checked each of the invariants that a proof adds before the proof was
written: `OnePlacePerRequest` in a run, and, with the constants of the runs,
`InSendingOrder` and `EveryRequestOnItsWay` (`connection`, 401336 states) and `Placed`
of `CommuniqueJS_proofs` (`communique_js`, 71834).

Only model-checked: the liveness properties (`LockReleased`,
`EveryRequestEnds`, `StopReturns`, `DisconnectReturns`,
`IsDisconnectedReturns`, `RequestsEnd`, `BothServed`), which need fairness and `ENABLED`,
and which TLAPS does not treat.

## 5. Not modelled, and the plan

What the plan has left is refinement: an abstract specification of what a
`Connection` promises, with `Ordered` and `OnTheirWay` as the facts that map its
steps, would say in one place what the invariants say apart.

Assumed away, and why: two threads in `listen`, `stop`, `connect` or
`disconnect` at once, a setter next to the code that copies the handler, and
`isConnected` or `isDisconnected` of a `Client` (`Client.cpp:85-95`), which read the
shared pointer `pConnection_` while `connect` on another thread replaces it, are data races
in the library, whose outcome the source does not define; a handler
that throws on the io thread ends the program; an info handler that calls `stop`
or `disconnect` runs on the thread it joins, which throws.

Of certificates, these are assumptions: dates have their seconds, as X.509 demands
(a `GeneralizedTime` of twelve digits, without them, would be read with a two-digit
year); two-digit years are those of 20xx, as a comment in `convertTime` has it; and
the local clock's offset is the same for both dates of a call, so that daylight
saving time is left out. `TLSHandler`'s other settings and its loading of files,
`Certificate`'s loading and its other accessors are calls of OpenSSL and asio. The
regular expression in `hostnameFromURL` (`openSSLTools.cpp:151`) is commented out; it would refuse
an empty hostname and an empty protocol, which the code, and `HostnameIsExact`, accept.

Left out for good: the calls of OpenSSL and of the operating system, logging,
the destructors of static data, `at()` of `UniqueTokenStorage` (called nowhere),
tests, build files and vendored code.
