# frnetlib in TLA+

frnetlib is a C++ networking library: stream sockets (TCP and TLS), listeners, an
epoll selector, a framed binary message (`fr::Packet`), WebSockets and HTTP. This
directory holds TLA+ models of the parts of it where the order of steps matters,
TLC configurations that check them on small instances, and TLAPS proofs of the
properties that matter most for every value of the parameters.

## 1. The system

| Part | State it keeps | Operations | What makes it hard |
|---|---|---|---|
| `Socket` (`include/frnetlib/Socket.h`, `src/Socket.cpp`) | receive limit, timeouts, address family, remote address | `send`, `receive`, `receive_all`, `shutdown`, `disconnect`, setters | `receive_all` turns the statuses of a partial read into three different answers |
| `TcpSocket` (`src/TcpSocket.cpp`) | descriptor, `is_blocking` | `connect` (over the candidates of `getaddrinfo`), `send_raw`, `receive_raw`, `set_blocking`, `set_descriptor`, `close_socket` | partial reads and writes, timeouts in mid message, descriptors that outlive a failed `connect`, a mode flag that outlives its descriptor |
| `TcpListener` (`src/TcpListener.cpp`) | descriptor | `listen`, `accept`, `shutdown`, `close_socket` | the descriptor of a failed `listen` |
| `SSLSocket`, `SSLListener`, `SSLContext` | mbedtls contexts, `is_blocking` | the same as TCP over mbedtls | retries after WANT_WRITE, handshakes, ownership of the stolen descriptor |
| `SocketSelector` (`src/SocketSelector.cpp`) | epoll descriptor, map from socket address to (socket, opaque, descriptor) | `add`, `wait`, `remove` | two registries (map and kernel) that the kernel changes on its own when a descriptor is closed or reused |
| `Packet` (`include/frnetlib/Packet.h`), `Packetable`, `Sendable` | buffer with a header area, read index | typed `<<` and `>>`, cursor operations, `send`, `receive` | message framing over a byte stream; reuse of a buffer that never shrinks |
| `WebFrame`, `WebSocket` (`src/WebFrame.cpp`, `include/frnetlib/WebSocket.h`) | opcode, final flag, payload; the process-wide mask key | frame `send` and `receive`, HTTP upgrade in `connect` and `set_descriptor`, closing frame in `disconnect` | a frame is read in up to four parts; the roles of client and server differ in masking; both ends close |
| `Http`, `HttpRequest`, `HttpResponse` | header and body so far, `header_ended`, `content_length`, `chunk_offset` | `parse` of one more segment, `construct`, `send`, `receive` | the answer must not depend on how TCP cut the message |
| `URL` (`src/URL.cpp`) | scheme, host, port, path, query, fragment | `parse`, `get_uri`, `get_url`, setters | each part is found by what the part before leaves; nearly all may be absent |
| `Base64`, `NetworkEncoding`, url encoding, argument lists, `construct` | - | pure conversions | what one end composes the other must take apart again |
| the examples (`examples/*`) | sessions of the concurrent server; otherwise a socket and a message | event loop, exchange of one request, conversation of frames | what they do after each status decides what holds of the library |

The parts interact by calls only: `Socket::send(obj)` calls `obj.send(socket)`, which
loops over the virtual `send_raw`; `Socket::receive(obj)` calls `obj.receive(socket)`,
which loops over `receive_all` and `receive_raw`. A `Listener` fills in a socket through
`set_descriptor`, which for a `WebSocket` runs the handshake. The selector holds a
`shared_ptr` to every socket added to it. Nothing is locked: a socket, a selector and a
packet belong to one thread at a time, and the interleavings that matter are those
between the two ends of a connection, the kernel, and objects of different threads that
share the process's descriptor table.

What makes each part correct:

- **Packet over a socket**: a `receive` that returned `Success` has delivered the next
  packet that was sent, whole; `WouldBlock` and `Timeout` mean that nothing was taken;
  after any other status the connection is not used again; no length, true or garbage,
  makes the receiver write outside its buffer.
- **Descriptors**: an object uses and closes the number of a file it opened itself;
  `get_blocking` is the file's mode (it is not when a socket is used again); a failed `connect` or `listen` leaves nothing behind
  that a later call acts on.
- **Selector**: both registries describe the same sockets; an event leads to a live entry;
  an application that removes sockets before it closes them loses no events.
- **Event server**: sessions are used while they live, nothing leaks between batches, whole
  requests are answered, dead connections are closed.
- **WebSocket**: frames arrive intact and in order, only a client's frames are masked, a
  Pong answers a Ping with its payload, the size limit holds, and an end is told that the
  other one is gone.
- **HTTP**: status and content of a message do not depend on how TCP cut it; malformed
  input is refused; what is buffered is bounded. What an application composes (a URI, encoded
  variables, headers, a body, a status) is what the other end's object says.
- **Typed data of a packet**: an extraction where a value was packed, of its type, gives
  that value, on hosts of either byte order; no extraction reads outside the buffer.
- **TLS**: one owner for every descriptor, its context reads through it, what is sent
  arrives once, and a connect returns.
- **URL**: an object has the parts the text was written with.

## 2. The modules

| Module | Models | Used by |
|---|---|---|
| `PacketChannel` | the promise: a FIFO channel of whole messages whose receiving end may fail | `PacketStream` (refinement, proved in `PacketRefinement`) |
| `PacketStream` | `Packet::send`/`receive`, `Socket::receive_all`, `TcpSocket::send_raw`/`receive_raw` and the byte pipe between two sockets | `MCPacketStream`, `PacketStreamProofs`, `PacketRefinement` |
| `Descriptors` | the process's descriptor table under `TcpSocket` and `TcpListener`: `connect`, `listen`, `accept`, `set_blocking`, `close_socket`, one system call per step | `Selector` |
| `Selector` | `SocketSelector` over that table | `EventServer`, `MCSelector`, `SelectorProofs` |
| `EventServer` | the loop of `examples/concurrent_http_server` over the selector | `MCEventServer`, `EventServerProofs` |
| `WebSocket` | `WebFrame` and `WebSocket` at both ends of a connection, in two threads at each end like the examples | `MCWebSocket`, `WebSocketProofs` |
| `Http` | `Http::receive` with `HttpRequest::parse` and `HttpResponse::parse` | `MCHttp`, `HttpProofs` |
| `PacketBuffer` | `Packet` as a container: typed `<<` and `>>`, the cursor, `set_buffer`, `clear`, contents of `send` and `receive` | `MCPacketBuffer`, `PacketBufferProofs` |
| `SecureSocket` | `SSLSocket` and `SSLListener` over mbedtls: a client that connects twice and a server that accepts into one object | `MCSecureSocket`, `SecureSocketProofs` |
| `Text` | `std::string` as the text modules use it | `Url`, `HttpText` |
| `Url` | `URL`: `parse`, `get_uri`, `get_url` | `SimpleHttp` |
| `HttpText` | url encoding, Base64, header lines and argument lists | `HttpMessages` |
| `HttpMessages` | `construct` and `parse` of requests and responses, as functions between objects and texts | `SimpleHttp` |
| `SimpleHttp` | the exchange of the simple HTTP client and server, with the setters of a request | `MCSimpleHttp` |

Definitions keep the names of the source (`buffer`, `is_blocking`, `added_sockets` as
`added`, `chunk_offset`); `PROJECT.json` maps each to the lines it stands for. A definition
under a comment that starts with *Slip* is a mistake the code does not make: the mutants
put one in the place of the definition that follows, and the property named with it must
then fail.

**PacketStream.** A byte is the pair of its packet and its place in the frame, so that a
byte that is skipped, repeated or taken for another shows. `stream` is everything the
sending kernel accepted, `consumed` how far the receiver has read. The sender is in
`send_raw` (`sending`), between two calls of it (`retry`, after WouldBlock), or out of it;
`tx_sent` is `Packet::send`'s `sent`. The receiver is in `receive_all` for the header or
the payload; `rx_got` is what it has so far. Each `receive_raw` is one step with its
outcomes: bytes, nothing (WouldBlock or Timeout by the socket's mode and timeout), end of
stream, error. Bytes that are no header decode to any length up to `MaxDecoded`. `shut` is the
set of ends on which a thread called `shutdown`, which it may do in the middle of the other
thread's send or receive: sends fail from there on, and a receive gets the bytes that the
kernel still has and then the end of the stream.

**Descriptors.** `file` says which object's system call opened what a number denotes;
an object's `descriptor` is only its own copy of a number. The kernel gives out the lowest
free number. Every address `getaddrinfo` returned is a step, with the ways it can fail.
`INVALID_SOCKET` is 0 on Unix in this code, so number 0 (free when the process was started
without standard input) is taken for a failure, opened and forgotten. `Reused` are the objects that
applications connect, listen or accept into again, `Discards` lets them close or destroy a listener
whose `listen` failed. `status` is what the last call of an object returned, as far as later
steps or properties tell statuses apart.

**Selector.** `added` is `added_sockets` with the number recorded in each entry;
`interest` is the kernel's list, number to the entry `data.ptr` points to. Closing a file
takes it off the list. Calls that throw leave both as they were and are no steps. `tidy`
applications remove a socket before they close it.

**EventServer.** `batch` is what is left of the vector `wait` returned; the shared
pointers in it keep removed sockets alive (`ready`) until the batch is over. A request is
`Segments` pieces; what a piece is to the parser is the `Http` module's matter.

**WebSocket.** A frame on the wire is head, length, key and payload units; a payload byte
is its origin and the set of keys it is masked with, so that masking twice with one key
restores it and any other key shows. The key comes from a counter that all threads share
without a lock, so each masked frame takes any of `MaskKeys`, the last one again included. The
locals of `receive` (`rx`, `head`) are gone when it returns. Payload sizes fall in the three classes
of the length field by `MaxShort` and `MaxMedium`. An end is two threads, as in the examples: `at`
is where the receiving one is (its loop, about to answer a Ping, about to disconnect), and the other
one sends the frames of `Script` (`Speaks`) and disconnects at any point of the first one's
`receive`. `told` records that a `receive` returned a status that ends the connection; the
application then leaves, as `WebFrame.h:117` asks, or goes round its loop and receives again, as the
examples do (`Fails`). The other end may be no WebSocket (`Foreign`): the server throws at another
request, and the client's `connect` disconnects itself at an answer with a wrong status or key
(`Refused`). `cut` and `swallowed` record that a timeout ended a send in mid frame, and that
`Http::receive` took a frame along with the handshake: what follows in these cases, and after
`told`, is not claimed to be intact. A frame is sent in one step: that two threads of one end, which
nothing locks, put the bytes of two frames between each other is not modelled.

**Http.** A message is a sequence of tokens (the halves of the start line, header lines
that matter, line breaks, chunk sizes, data). `receive_raw` takes any 1 to `ChunkSize` of
them; `parse` appends them to `body` and runs through `header`, `body` and `chunks` until
it returns. Requests and responses share the module: they differ in what a valid start is
(`NotHttp`) and in how the body ends (`BodyParsed`, the chunk steps). An exception that
leaves `parse` is the status `exception`. What a message in order is, is a grammar of tokens
(`WellFormed`, `IllFormed`), which the runs and the proofs take for what `ok` and `content` say.

**PacketBuffer.** A value is a record of its kind and content; an operator on a vector, map
or pair is the sequence of the calls for its elements (`todo`), one step each, so that an
exception leaves what was done. Packets belong to hosts of either byte order, and a link
copies the contents of one packet into another that may hold something already. A byte has
`ByteSize` values and a word `Word` of them, which keeps lengths and boundaries small;
positions are added modulo `SizeT` as the code adds them. A char pointer has the type of
what it is read as, a string; its content says that it ends at the first 0. `items` remembers what was packed
where; `stray` the packets whose cursor may be outside the buffer, since `set_buffer` put another
one under it or `set_cursor` was given a number that wraps. What is extracted goes into fresh
objects: `>>` does not empty a map first, and `emplace` keeps the entries it has
(`Packet.h:182`, `222`). The header area holds
zeros (the code fills it with the character '0'): nothing reads it before `send` writes it.
Packets over the length field (`Fits`) are not sent.

**SecureSocket.** A file and a context are both named by the connection they are an end of,
so that a context that reads another's descriptor shows. Data is a sequence of TLS records;
`out` is the record mbedtls holds back when a write was interrupted and writes first the next
time. `open` is the process's open files; `accepting` the descriptor of an `accept` in its
handshake. Whatever `set_blocking` is told, the descriptor stays blocking, as in the code.

**The text modules.** A text is a sequence of character codes; words of the protocols and
numerals, which the code handles as a whole, are one character each (codes from 300). Lower
case is `tolower` on both. `parse` and `construct` are functions; `SimpleHttp` is the state
machine that calls them: the client parses a URL, calls setters in any order, sends; the
server parses the text in one piece or two, responds, and the client parses the response. An
`unordered_map` may be walked in any order, and whether the ends of two maps compare equal
(the loop over the post data compares with the end of the get data) is left open. Restrictions:
the application encodes its variables with `url_encode`; post data or a body, not both
(the last variable would run into the body); further arguments only for a URI without query
and fragment; no path with `HTTP` or a colon in it; Base64 of two bytes or more.

## 3. The runs

| Run | Question | Bounds |
|---|---|---|
| `stream` | do careful applications get a FIFO channel, under timeouts, resets, a limit and both modes, does a receive return, and does everything arrive when nothing fails? | 4 packets of 2, 0, 1, 3 bytes behind a header of 2, pipe of 3, limit 2, shutdown of either end at any time, a `Packet` used again or not |
| `selector` | are descriptors owned, modes as good as `is_blocking` was, registries consistent? | 2 sockets, one of them used again, 1 listener, 3 descriptors, 1 address |
| `selector_remove` (violated) | does `remove` of a disconnected socket leave the others alone? | 2 sockets, 1 listener, 3 descriptors, 2 addresses, nothing used again |
| `socket_reused` (violated) | does `get_blocking` tell the mode of a socket that was used before? | both sockets used again, 2 addresses |
| `listener_failed` (violated) | is a socket that says it is connected open? | the same, everything used again, failed listeners discarded |
| `server` | sessions, leaks, service, reaping | 2 clients and the listener, 4 descriptors, requests of 2 pieces, batches of 2 events |
| `websocket` | intact frames, limit, Pongs, being told of the end | the client sends a fragment over the limit, the server a Ping, each a closing frame; payloads of 0, 1 and 3 in the three classes of length, two masking keys |
| `http` | content, acceptance, bounds, answers | 24 messages, reads of 1 to 5 tokens |
| `packet` | is what is extracted what was packed, and is every read inside? | 2 packets, one per byte order, 2 values (a map of two pairs of an enum and a string; an object of a number, a char pointer and raw data), bytes of 4 values, words of 2, positions modulo 64 (0 and one that wraps) |
| `tls` | ownership, contexts, order, progress | messages of 1 and 2 records, room for one record, 2 connections, 2 interrupted calls; non-blocking sockets send one-record messages |
| `tls_resend` (violated) | is a message of several records sent once when a non-blocking send is interrupted? | the same, long messages sent again |
| `simple_http` | do URLs and messages say what was composed? | 40 texts to parse as a URL (no query or fragment right behind the host, no path of one slash alone), 3 calls of setters, a body with both kinds of line end, a value with every character that means something to a parser |

Why the bounds are enough to meet the interesting cases: the pipe holds less than a frame,
so that every send is cut and every header can arrive in two parts; a packet is empty, one
longer, one over the limit; three descriptors for three objects, one of them standard
input's, make the table full and every number be used again; with one address an `accept` or another
`connect` has the number of a failed one, and in `socket_reused` two addresses let a failed
candidate precede a good one; two events per batch with two clients and a listener make
`wait` leave a ready socket out and let one event of a batch remove a client that another
concerns; five tokens per read cut within and across the blank line, the chunk size and
the line breaks, and `UIntSize = 32` makes a chunk size plus 4 wrap. In `packet`, a word
of 2 digits to the base 4 has 16 values, so that a packet can be longer than its length field
says (and is not sent then) and a length from garbage is larger than the buffer it is in; a
modulus of 64 makes a seek of 40 wrap to a negative offset and a position of 63 wrap into the header
area; and the link copies one packet into another of the
other byte order that may hold something already. In `tls`, a message of two records
over room for one makes every send wait, and two connections with one server object make the
second accept free what the first left. In `simple_http`, three settings are a type, a
variable and a header, or two variables and the URI, in every order; the query of two
arguments and the header's end are cut in two where that matters, other cuts are in `http`.

In `websocket`, each class of length has one size, so that the client's frame has the longest form
and is over the limit, the Ping and its Pong the middle one, and closing frames the shortest; and
units that are no frame are taken for a masked or an unmasked header.

`stream` also checks the refinement `ChannelSpec`: with `Messages` as the packets'
payloads, `accepted` as the packets whose frame is wholly in the stream and `open` as the
receiver's having met no fatal status, every step of the code is a step of `PacketChannel`
or none.

**Fairness.** In `stream` only the receiver's steps are fair: a thread in
`receive_all` runs, and the kernel reports a timeout that was configured; this is enough
for `ReceiveTerminates`, which says nothing of what the peer does: a receive ends when a timeout
is configured, when the socket is non-blocking, when the connection ends, or when another thread
shuts the socket down. `AllDelivered` assumes in its own statement that the sending thread runs
too, and says why else a packet may stay away. In `server` the thread runs,
`epoll_wait` does not pass over a ready socket for ever (Linux rotates the ready list), and
peers read the responses sent to them. The last is a real assumption: `Http::send` goes
round as long as the socket would block, so one client that does not read holds up all the
others. In `websocket` the receiving threads go round their loops, answer and leave when they are
about to; nothing obliges an end to send, to close, or to obey a status. `ClosedIsSeen` therefore
says only what the library gives: when one end is gone, a `receive` of the other one reports it,
wherever in a frame it is. In `http`
the thread runs and what was sent arrives. In `tls` threads
run, an application disconnects what failed, and a server without a connection accepts the
next: `ConnectReturns` therefore says that a peer that runs this code is never waited for in
vain, and a peer that is silent is outside of it. `packet` and `simple_http` state safety only.
No run obliges a peer to send, to answer or to close.

### What was found

Runs that show it:

- `SocketSelector::remove`, documented for sockets that may have been disconnected, uses
  the old number, which may be another member's by then (`selector_remove`).
- A socket that was set non-blocking and is closed and connected, or accepted into, again has a
  blocking file and says that it is non-blocking, against `Socket.h:94` to 96; then
  `set_blocking(false)` does nothing (`socket_reused`). What does hold is `ModeKept`, in `selector`:
  the mode is told rightly exactly if `is_blocking` was TRUE when the connection was made.
- A listener whose `bind` failed keeps the number of the file it closed, says it is
  connected, and closes the number again (`listener_failed`).
- `SSLSocket::send_raw`, called again after WouldBlock as its documentation asks, begins at
  the first byte although records of the message were written: they arrive twice
  (`tls_resend`).
- The loops of the WebSocket examples go round again on every status but Success
  (`SimpleWebsocketServer.cpp:63`, `SimpleWebsocketClient.cpp:50`), though `WebFrame.h:117` says of
  a fatal one "Call disconnect()". `receive` closes nothing, so `connected()` stays true, the loop
  never ends, and the server's thread accepts no other client. In `websocket` both kinds of
  application are possible; with one that goes on, the socket stays open for good, which
  `ClosedIsSeen` allows.

Read off the models, without a run of its own:

- `Packet::receive` returns `MaxPacketSizeExceeded` without the disconnect that
  `Socket.h:199` documents: the branch `TooLarge` of `ReceiveHeader` leaves the receiver open.
- `Socket.h:170` says that after `shutdown` "you can receive data but not send"; the call is
  made with `SHUT_RDWR`, and only bytes that had already arrived are received.
- `WebSocket::disconnect` on a server masks its closing frame (`WebSocket.h:108`), which
  clients answer with `Error` instead of reporting `Disconnect`.
- A header of exactly the longest length is refused when TCP cuts it within the blank line
  (`HttpRequest.cpp:39`). Likewise, in a chunked response the framing of chunks that were not
  yet taken apart counts towards the body's limit; the messages of `http` stay away from it.
- A packet of 4 GiB or more is sent with its length cut (`Packet.h:738`); `seek_cursor` far
  past the end goes to the start instead of the end that `Packet.h:662` to 664 promise, and
  `set_cursor` of a number just below 2^64 goes into the header area (`packet` does it); a vector
  is resized to a length from the wire before anything is checked (`Packet.h:138`).
- `SSLSocket::set_blocking(false)` makes the descriptor blocking, so that a receive never
  returns WouldBlock; its `receive_timeout` stays 0, so that the branch at
  `SSLSocket.cpp:125` is dead; a silent peer holds `connect` in the handshake whatever the
  timeout.
- A member of a selector that is disconnected and connected again is on `added_sockets` and no
  longer on the kernel's list, so that its events are lost (`SocketSelector.cpp:48`).
- `URL`: a query or fragment directly behind the host becomes the path (against `URL.h:11`);
  a path of one slash is dropped; a second `parse` appends to the path and keeps what the new
  text lacks; `sftp` is in the map twice, so that it is FTP with port 21 and
  `scheme_to_string(SFTP)` throws; `mailto:x` has host `mailto` and port `x`; the fragment is
  sent to the server, where it sticks to the last argument.
- HTTP text: an argument without an equals sign swallows the next one's name; `%0a` in lower
  case is decoded wrongly, and a percent sign followed by one character reads past the end; a
  POST with post data has no Content-Length, so that its variables are lost when TCP cuts it
  behind the header; a path that contains `HTTP` is cut there; Base64 of fewer than two bytes
  reads out of range.

## 4. The proofs

TLAPS proves, for every value of the constants:

| Module | Theorems | From |
|---|---|---|
| `PacketStreamProofs` | `TypeCorrect`, `QuietReceives`, `BuffersSafe`, `StreamIsFrames`, `ReceiverKeepsFraming`, `PacketsDeliveredIntact` | the types of the constants; the last three claim something of careful applications only |
| `PacketRefinement` | `ImplementsChannel` | the same, and `Careful` |
| `SelectorProofs` | `NothingDangles` | the types of the constants |
| | `TypesHold`, `DescriptorsOwned`, `ModesKept`, `MembersWatched` | `~Discards` |
| `HttpProofs` | `HttpTypes`, `HttpQuiet`, `HttpBounded` | the types of the constants |
| | `ContentArrivesIntact`, `WellFormedAccepted` | messages are marked as the grammar judges them (`Judged`), the body's limit is below 2^32 (`LimitFits`) |
| `WebSocketProofs` | `WebSocketTypes`, `LimitHolds`, `FramesArriveIntact` | the types of the constants |
| | `PongsAlwaysEcho` | no script sends a Pong of its own (`OnlyAnswers`) |
| `SecureSocketProofs` | `SecureTypes`, `FilesAlwaysHeld` | the types of the constants |
| | `RecordsSentOnce` | `~LongResends` |
| `PacketBufferProofs` | `BufferTyped`, `NothingReadOutside`, `WrittenAlwaysRead` | applications' values are of their types (`WellTyped`); buffers fit in memory (`BuffersFit`, always) |
| `EventServerProofs` | `ServerTypes`, `SessionsAlwaysKept` | one listener, added before the loop begins, and a table of two at least |

*PacketStream.* None of the three safety invariants is inductive. `SafeInv` adds to them
`HeaderProgress`: while the header is read, `consumed = rx_base + rx_got`. A quiet status
leaves `receive_all` only with nothing got, so that nothing was consumed. It says nothing of
framing and also holds for careless applications. `FramingInv` adds to `SafeInv`, for
careful applications, that the stream is the frames up to `tx_sent` bytes of the current
one (`StreamFramed`), that a sender between two sends stands at the end of a frame
(`SenderRests`), that the receiver, until it fails, stands in the frame after the last one
delivered (`ReceiverAligned`), and that the bytes it has read so far are that packet's
(`ReceiverHolds`). That the header decodes to the right length, the step everything turns
on, follows because the bytes in `rx_header` are those of one frame's header.

*The refinement.* With `FramingInv` before and after a step: the `::send` that takes the
last byte of a frame is `Accept`; the step that completes a receive is `Deliver`, for
`ReceiverAligned` afterwards puts the delivered packet among the accepted ones and
`DeliveredIntact` afterwards makes it the message that was submitted (`Received` leaves aside the
tail of an earlier message that a reused `Packet` may keep behind it); a fatal status, or
the receiver's leaving, is `Fail`, and a careful receiver never recovers from it. Everything
else is a stutter.

*Selector.* `OwnDescriptor` is not inductive: between `socket` and the end of `connect` an
object holds a number that it does not yet count as its connection. `TableInv` adds that an
object whose address is being tried has an open file and a candidate left (`Trying`). The
mode needs the file's flag at each point of `connect` (`ModeInv`, by `SocketMode` for each
socket): `ModesKept` then says of any use of a socket, the second included, that a connection begins
blocking, with `is_blocking` as it was left, and that from there on a wrong flag stays wrong and a right
one right. That the flag is right (`ModeAgrees`) is refuted by `socket_reused`. `NoDangling` is inductive with the fact that an entry's number is on the interest
list for that entry only (`PointsInv`), and needs no assumption. `Watched` needs ownership
as well: what one object closes is no other's number.

*Http.* `HttpInv` joins the types with three facts: what has been read and what `receive`
knows of it (`Untouched`), how long the body may be at each point of `parse` (`Limits`), and
that the offset moves in chunked responses only (`Offsets`). Lemmas on `find` and `erase`
give positions and lengths; `find` is the least of the positions that match, which exists
because the natural numbers are well founded.

The run lists 24 messages and says of each whether it is in order and what its content is. To
prove `ContentIntact` and `Accepted` of all messages, `Http` defines both from the tokens.
`WellFormed`: the message starts as HTTP does, its header ends at a blank line (`HeadedBy`) soon
enough, its lengths are numbers, and behind the header stand a body as long as was promised
(`WholeBody`) or chunks that end with one of size 0 (`WholeChunks`), whose data are the content.
`IllFormed`: no header can be read (`Unreadable`), the body is shorter than promised or promised
too long (`ShortBody`), or behind some whole chunks none stands (`BrokenChunks`). `Judged` says
that a message marked `ok` is the one and any other the other; `MCHttp` has TLC evaluate that for
the messages of the run. `LimitFits` is there because a size plus four is computed in an unsigned
int; the limit of the code is 0xA00000 (`CMakeLists.txt:21`).

Neither sort has the messages whose fate depends on how TCP cuts them, and the conditions of
the grammar say which those are. The header with its blank line, but for the last token, must be
within the limit (`parse` measures a header that has not ended with what there is of the blank
line); in a message with LF line ends two CRLFs must not follow on each other; a body, or a chunk
with the data before it, must be within the limit with what the last read may bring; and nothing
may stand behind the body of a request or of a response without a length. A chunk's size of 2^32
and more, which the code cuts, is in neither sort as well.

`ContentInv` describes a receive by what `body` holds. `Holds(offset, from)`: behind its first
`offset` tokens `body` is the text from `from` to what has been read. Until the header ends this
is `Holds(0, 0)` (`Underway`); a part then stands in `body` exactly if it stands in the text and
has been read (`PartsRead`), so that `header_end` is nowhere or where the grammar says
(`HeaderFound`), whatever the cutting. `HeadInv` adds that the blank line has not been read while
`parse` waits for it, which bounds what is read with it. Behind the header, `BodyInv` is
`Holds(0, Behind(end, blank))` with less read than was promised, and `ChunkInv` says that for some
chunk `k` the data of the chunks before it, which are the content so far, precede the text from
chunk `k` on. `ChunkParsed` goes from `k` to `k + 1` (`ChunkParsedState`): the two erases take out
five tokens, the size and two line breaks (`UnchunkedTokens`). `parse` waits at chunk `k` until all
of it is there and never throws there (`ChunkRead`); where no chunk stands it takes none
(`NoChunkRead`). As the positions of the chunks are a function that the grammar provides, no
induction over the chunks is needed. An `Unreadable` message never gets past its header
(`Unread`).

*WebSocket.* `WebInv` joins the types with what they leave out (`DataTyped`: what is on the
wire and in a frame) and with `WithinLimit`. `HasLength` is the only step into the key or the
payload from outside, and it comes after the check, whichever of the three lengths was read and
whether or not the units it was read from were a header. Nothing is assumed of the scripts, the
keys, the faults or the framing.

`FramesIntact` needs what `FramingInv` is to packets. `FramesInv` says, of an end whose peer never
stopped in mid frame and whose handshake took nothing along: what it got is a prefix of what the
peer sent (`Prefixed`); while it reads a payload, `head` is that of the next frame (`Announced`);
and the units before it on the wire are the rest of that frame and all frames after it, each
serialised with one of the keys (`Chained`), unless the wire was lost with the peer (`Lost`).
None of it is said of an end that was told of the connection's end. `Phases` says when the two ends
open and close, which the handshake's steps need. That `unmask`
undoes `mask` is set arithmetic: the key is added and taken away. `PongsInv` adds what an end
owes: the payload of the Ping in `frame` while it is about to answer or has left without, nothing
otherwise. `OnlyAnswers`
is needed, as an application may send Pongs that answer nothing.

*EventServer.* The selector's theorems assume nothing of who calls it; here the caller is known,
and more holds. `ServerInv` says that objects with a number and files with an owner correspond
(`Owned`), that both registries name the same connected objects (`Registered`), that sessions and
members come and go together (`Paired`), who keeps a socket at each point of the loop (`Held`), and
that no more is parsed than was sent (`Counted`). What is in a batch is always a member, since a
client is dropped only when the loop visits it: so no visit meets a deleted session. `Destroys`
closes a number that is on no registry, because the members' numbers are their own.

*SecureSocket.* `FilesHeld` is not inductive. When `accept` hands its descriptor over, the
object closes the one it had; were the two the same connection, the object would be left with a
closed one. `InOrder` excludes it: connections are accepted in the order in which they were
made, so that the backlog ascends, the one that is being accepted is older than all of it, and
the object's is older still. `Handshaking` adds that a client in its handshake has a context on
its own descriptor, which `ContextsMatch` needs when the handshake ends. `HeldOneByOne` turns
the equation of `FilesHeld` into a statement about one file at a time. `SentInv` proves `SentOnce`:
the client's connection holds exactly the messages before `tx` between two sends (`Rests`), and
the first `sent` records of the current one during a send (`Writes`); a record that mbedtls holds
back is the first of a message of one record or belongs to a blocking socket, whose loop goes on
where it was. That a long message is not sent again after `WouldBlock` is an assumption because
the code does not hold without it: the run `tls_resend` shows that.

*PacketBuffer.* `BufferInv` adds to the types that the calls still to be made are of the
applications' types (`Calls`), that cursors stay between the header and the end unless they strayed,
and that those that did are as far from the end of memory as a buffer's end (`Cursors`): a cursor in
the header area, where a `set_cursor` that wraps puts it, reads no more than is there either.
`Positions` are any values of a `size_t`. Two things are assumed. `WellTyped`, because C++'s types see
to it: a set of values, closed under the parts of a value, holds what the applications pack, each
with a content of its type, and a set of types what they extract. `MCPacketBuffer` states as an
assumption that TLC evaluates that the values of the run are such. `BuffersFit`: no buffer is within 4 GiB of the size of the
address space, for the sum in `assert_bytes_remaining` wraps otherwise, and the check passes for a
cursor far outside. The lemmas on numbers and bytes (`NumberDigits`: a number is that of its
digits; `NetworkOrder`: what a host of one byte order encodes, any other decodes) are what makes a
length that was written the length that is read.

`WrittenIsRead` speaks of nested values and of extractions with any number of steps. Instead of an
induction over either, `Reaches(bytes, x, y)` says that every set of states of an extraction that
has `x` and is closed under single calls (`Steps`) has `y`. `Written` says that the extraction of every
item in a buffer, from its type and first byte, reaches what is left of it to pack, its end and its leaves. A
step of `Pack` extends this by the one call of `>>`, or for a string the two, that takes what was appended
(`PackReaches`); growing and sending a buffer keep it (`ReachesExtended`), for network order makes
it the same on all hosts. `Reading` says that an extraction that began at an item, of its type,
reaches the item's end: an extraction has only one next call, so each call leaves that true
(`ReachesAfter`), and one that can make no call has reached it (`ReachesNoMore`), so that it
cannot throw before. No bound on depth, length, items or packets is left, and nothing but
`WellTyped` and `BuffersFit` is assumed.

Only model-checked are:

- the liveness properties (`AllDelivered`, `ReceiveTerminates`, `Served`, `Reaped`, `ClosedIsSeen`,
  `Finishes`, `ConnectReturns`, `AllTaken`): TLAPS has neither ENABLED nor fairness to offer;
- all of `simple_http`, whose texts are taken apart by recursive operators.

Where a function is defined by recursion over the numbers (`Power`, `Number`, `Data`), the proofs
do induction in its first-order form: a set of numbers that is not empty has a least element
(`WFMin` of the library), and the least counterexample is none.

`stream` checks the invariants for careful applications; for careless ones, whose
framing is lost after a failure, `QuietReceives` and `BuffersSafe` are proved and not run.

## 5. What is not modelled

`Sha1` and mbedtls are third-party code (WebSocket's key check is a right or wrong answer; of
mbedtls the contract of handshake, write and read is modelled). The table of mimetypes and the
texts of statuses are data. Setters of addresses and timeouts, equality of URLs,
`status_to_string`, loading of certificates, Windows code and error numbers are left out:
they store a value or format text. The simple WebSocket and HTTP examples are part of
`WebSocket` and `SimpleHttp`. What a caller can do only with undefined results is not an
action: Base64 of one byte, `url_decode` of a lone percent sign, memory that cannot be had.
Of HTTP, a
message with LF line ends whose body contains a blank line of CRLFs (its header end depends
on the cutting) and a request followed by more data (which stays in its body) are outside
the messages of the run and of the theorems.

## 6. The plan

Done: the plan of the first round (stream, descriptors and selector, server, WebSocket, HTTP)
and of the second (typed data, TLS, URL and message texts, shutdown, the shared mask key, the
proofs of WebSocket, TLS and typed data, the grammar of HTTP messages and the proofs from it).
Left, in this order:

1. A two-way `PacketStream`: two peers that both send before they receive, with a sender that
   spins (`Packet.h:745`); the question is which sizes of packets and buffers can wait for
   each other.
2. Frames and packets that are sent twice (`WebFrame.cpp:73` masks the payload in the object).
3. The setters of `URL` and a `parse` into an object that was used; `shutdown` of a listener
   from another thread while `accept` waits.
