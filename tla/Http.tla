---------------------------------- MODULE Http ----------------------------------
(***************************************************************************)
(* Http::receive of one message over a stream socket, with the incremental *)
(* parsers HttpRequest::parse and HttpResponse::parse.  TCP cuts the       *)
(* message anywhere; parse is called with one piece after the other and    *)
(* keeps what it has seen in `body`.  A message is a sequence of tokens:   *)
(* the two halves of the start line, header lines that matter, line        *)
(* breaks, chunk sizes and data.                                           *)
(***************************************************************************)
EXTENDS Integers, Sequences

CONSTANTS
    Messages,         \* what peers may send: kind, text, content, and whether it is ok
    MaxHeaderSize,    \* MAX_HTTP_HEADER_SIZE
    MaxBodySize,      \* MAX_HTTP_BODY_SIZE
    ChunkSize,        \* RECV_CHUNK_SIZE
    UIntSize,         \* numbers of an unsigned int (2^32 in the code)
    Timeouts,         \* may receive_raw return Timeout or WouldBlock?
    Faults            \* may the peer close in the middle of a message?

start1 == <<"start", 1>>            \* "GE" of "GET ...", "HT" of "HTTP/1.1 ..."
start2 == <<"start", 2>>
cr == <<"cr", 0>>
lf == <<"lf", 0>>
chunked == <<"chunked", 0>>         \* transfer-encoding: chunked
length(n) == <<"length", n>>        \* content-length: n, or no number when n is -1
size(n) == <<"size", n>>            \* a chunk's size in hex
data(i) == <<"data", i>>
junk == <<"junk", 0>>               \* any other header line, or what is no HTTP
CRLF == <<cr, lf>>
Token == {start1, start2, cr, lf, chunked, junk} \cup ({"length", "size", "data"} \X (Nat \cup {-1}))

ASSUME HttpAssumption ==
    /\ \A m \in Messages : m.text \in Seq(Token)
    /\ MaxHeaderSize \in Nat /\ MaxBodySize \in Nat
    /\ ChunkSize \in Nat \ {0} /\ UIntSize \in Nat \ {0, 1}
    /\ {Timeouts, Faults} \subseteq BOOLEAN

VARIABLES
    message,          \* the message on its way
    taken,            \* how many of its tokens the receiver has read
    closed,           \* the peer has closed the connection
    pc,               \* idle, reading (receive_raw), or what parse does: header, body, chunks
    status,           \* what the last receive returned
    total_received,
    body,             \* Http::body: the header too, until it has ended
    header_ended, content_length,
    encoded,          \* transfer_encodings holds Chunked
    chunk_offset, chunk_len

connection == <<message, taken, closed>>
object == <<body, header_ended, content_length, encoded, chunk_offset>>
vars == <<connection, pc, status, total_received, object, chunk_len>>

Init ==
    /\ message \in Messages /\ taken = 0 /\ closed = FALSE
    /\ pc = "idle" /\ status = "Unknown" /\ total_received = 0
    /\ body = <<>> /\ header_ended = FALSE /\ content_length = 0
    /\ encoded = FALSE /\ chunk_offset = 0 /\ chunk_len = 1

--------------------------------------------------------------------------------
(* std::string, with positions that count from 0.                              *)

npos == -1

Least(positions) == CHOOSE p \in positions : \A q \in positions : p <= q

\* s.find(pattern, from)
find(s, pattern, from) ==
    LET found == {p \in from..Len(s) - Len(pattern) :
                    SubSeq(s, p + 1, p + Len(pattern)) = pattern}
    IN  IF found = {} THEN npos ELSE Least(found)

\* s.erase(pos, n)
erase(s, pos, n) == SubSeq(s, 1, pos) \o SubSeq(s, pos + n + 1, Len(s))

--------------------------------------------------------------------------------
(* Http::receive.                                                              *)

Quiet == {"WouldBlock", "Timeout"}

ReceiveBegin ==
    /\ pc = "idle" /\ status \in {"Unknown"} \cup Quiet
    /\ pc' = "reading" /\ total_received' = 0
    /\ UNCHANGED <<connection, status, object, chunk_len>>

Returns(result) ==
    /\ pc' = "idle"
    /\ status' = result

\* receive_raw gets n tokens, and parse appends them to the body.
ReceivePart ==
    /\ pc = "reading"
    /\ \E n \in 1..ChunkSize :
          /\ taken + n <= Len(message.text)
          /\ taken' = taken + n
          /\ total_received' = total_received + n
          /\ body' = body \o SubSeq(message.text, taken + 1, taken + n)
    /\ pc' = IF header_ended THEN "body" ELSE "header"
    /\ UNCHANGED <<message, closed, status, header_ended, content_length, encoded,
                   chunk_offset, chunk_len>>

\* Slip: WouldBlock is returned with half a message in the object.
ReceiveResultPlain(result) == result

\* What receive makes of a failed receive_raw.
ReceiveResult(result) ==
    IF total_received = 0 THEN result
    ELSE IF result = "WouldBlock" THEN "again" ELSE "Disconnected"

ReceiveFails ==
    /\ pc = "reading"
    /\ \E result \in (IF Timeouts THEN Quiet ELSE {}) \cup (IF closed THEN {"Disconnected"} ELSE {}) :
          /\ ReceiveResult(result) # "again"
          /\ Returns(ReceiveResult(result))
    /\ UNCHANGED <<connection, total_received, object, chunk_len>>

PeerCloses ==
    /\ Faults /\ ~closed
    /\ closed' = TRUE
    /\ UNCHANGED <<message, taken, pc, status, total_received, object, chunk_len>>

--------------------------------------------------------------------------------
(* parse: the header.                                                          *)

ParseReturns(result) ==
    IF result = "NotEnoughData" THEN pc' = "reading" /\ UNCHANGED status ELSE Returns(result)

IsRequest == message.kind = "request"

\* A request's first token says whether it may be a request type, a response is looked at
\* when there are four characters of it.
NotHttp ==
    /\ IsRequest \/ Len(body) >= 2
    /\ \E i \in DOMAIN body \cap 1..2 : body[i] # <<start1, start2>>[i]

header_end ==
    IF find(body, CRLF \o CRLF, 0) # npos THEN find(body, CRLF \o CRLF, 0)
    ELSE find(body, <<lf, lf>>, 0)
header_end_size == IF find(body, CRLF \o CRLF, 0) # npos THEN 4 ELSE 2

\* Slip: only a header that has ended is measured.
TooBigOnceEnded == header_end > MaxHeaderSize

TooBig ==
    \/ header_end = npos /\ Len(body) > MaxHeaderSize
    \/ header_end > MaxHeaderSize

Header == SubSeq(body, 1, header_end)

\* The first content-length counts.
ContentLength(header) ==
    LET lengths == {i \in DOMAIN header : header[i][1] = "length"}
    IN  IF lengths = {} THEN 0 ELSE header[Least(lengths)][2]

\* parse_header returns false: std::stoull finds no number.
Malformed == ContentLength(Header) = -1

\* The transfer encodings that parse_header_line stores.
Chunks(header) == \E i \in DOMAIN header : header[i] = chunked

\* Nothing is parsed: no HTTP, too long, or not all there.
HeaderUnread ==
    /\ pc = "header"
    /\ \/ NotHttp /\ ParseReturns("ParseError")
       \/ ~NotHttp /\ TooBig /\ ParseReturns("HttpHeaderTooBig")
       \/ ~NotHttp /\ ~TooBig /\ header_end = npos /\ ParseReturns("NotEnoughData")
    /\ header_ended' = (~NotHttp /\ header_end # npos)
    /\ UNCHANGED <<connection, total_received, body, content_length, encoded, chunk_offset,
                   chunk_len>>

HeaderRefused ==
    /\ pc = "header"
    /\ ~NotHttp /\ ~TooBig /\ header_end # npos /\ Malformed
    /\ header_ended' = TRUE /\ encoded' = Chunks(Header)
    /\ ParseReturns("ParseError")
    /\ UNCHANGED <<connection, total_received, body, content_length, chunk_offset, chunk_len>>

\* Slip: the size of the blank line is taken for four characters, always.
AfterHeaderFour == erase(body, 0, header_end + 4)

AfterHeader == erase(body, 0, header_end + header_end_size)

HeaderEnds ==
    /\ pc = "header"
    /\ ~NotHttp /\ ~TooBig /\ header_end # npos /\ ~Malformed
    /\ header_ended' = TRUE
    /\ content_length' = ContentLength(Header)
    /\ encoded' = Chunks(Header)
    /\ body' = AfterHeader
    /\ pc' = "body"
    /\ UNCHANGED <<connection, status, total_received, chunk_offset, chunk_len>>

--------------------------------------------------------------------------------
(* parse: the body.                                                            *)

BodyTooBig ==
    /\ pc = "body" /\ Len(body) > MaxBodySize
    /\ ParseReturns("HttpBodyTooBig")
    /\ UNCHANGED <<connection, total_received, object, chunk_len>>

\* A body with a length, or without one.
BodyParsed ==
    /\ pc = "body" /\ Len(body) <= MaxBodySize
    /\ IsRequest \/ ~encoded
    /\ ParseReturns(IF Len(body) < content_length THEN "NotEnoughData" ELSE "Success")
    /\ body' = IF ~IsRequest /\ content_length > 0 /\ Len(body) > content_length
               THEN SubSeq(body, 1, content_length) ELSE body
    /\ UNCHANGED <<connection, total_received, header_ended, content_length, encoded,
                   chunk_offset, chunk_len>>

ChunksBegin ==
    /\ pc = "body" /\ Len(body) <= MaxBodySize
    /\ ~IsRequest /\ encoded
    /\ chunk_len' = 1
    /\ pc' = "chunks"
    /\ UNCHANGED <<connection, status, total_received, object>>

MoreChunks == chunk_len > 0 /\ chunk_offset < Len(body)
length_end == find(body, CRLF, chunk_offset)
hex_length == SubSeq(body, chunk_offset + 1, length_end)

\* std::stoul of the size, cut to an unsigned int; it throws when there is none.
Throws == ~(hex_length # <<>> /\ hex_length[1][1] = "size")
ChunkLength == hex_length[1][2] % UIntSize

\* Slip: only the chunk itself is waited for, not the line break behind it.
WantsMoreOfChunk(len) == Len(body) - length_end < (len + 2) % UIntSize

\* The chunk, the break after the size and the one after the chunk.
WantsMore(len) == Len(body) - length_end < (len + 4) % UIntSize

ChunkIncomplete ==
    /\ pc = "chunks" /\ MoreChunks
    /\ \/ length_end = npos
          /\ UNCHANGED chunk_len
       \/ /\ length_end # npos /\ ~Throws /\ WantsMore(ChunkLength)
          /\ chunk_len' = ChunkLength
    /\ ParseReturns("NotEnoughData")
    /\ UNCHANGED <<connection, total_received, object>>

\* Slip: the line break behind the size is not counted.
UnchunkedEarly(len) ==
    erase(erase(body, chunk_offset + Len(hex_length) + len, 2), chunk_offset, Len(hex_length) + 2)

\* Slip: the chunk goes with its size.
UnchunkedWhole(len) ==
    erase(erase(body, chunk_offset + Len(hex_length) + len + 2, 2),
          chunk_offset, Len(hex_length) + 2 + len)

\* The line break behind the chunk goes, then the size and its line break.
Unchunked(len) ==
    erase(erase(body, chunk_offset + Len(hex_length) + len + 2, 2),
          chunk_offset, Len(hex_length) + 2)

ChunkParsed ==
    /\ pc = "chunks" /\ MoreChunks
    /\ length_end # npos /\ ~Throws /\ ~WantsMore(ChunkLength)
    /\ chunk_offset + Len(hex_length) + ChunkLength + 2 <= Len(body)
    /\ body' = Unchunked(ChunkLength)
    /\ chunk_offset' = chunk_offset + ChunkLength
    /\ chunk_len' = ChunkLength
    /\ UNCHANGED <<connection, pc, status, total_received, header_ended, content_length, encoded>>

\* No chunk size, or an erase behind the end: an exception leaves parse and receive.
ChunkThrows ==
    /\ pc = "chunks" /\ MoreChunks /\ length_end # npos
    /\ \/ Throws
       \/ /\ ~Throws /\ ~WantsMore(ChunkLength)
          /\ chunk_offset + Len(hex_length) + ChunkLength + 2 > Len(body)
    /\ Returns("exception")
    /\ UNCHANGED <<connection, total_received, object, chunk_len>>

ChunksEnd ==
    /\ pc = "chunks" /\ ~MoreChunks
    /\ ParseReturns(IF chunk_len = 0 THEN "Success" ELSE "NotEnoughData")
    /\ UNCHANGED <<connection, total_received, object, chunk_len>>

--------------------------------------------------------------------------------
Parse ==
    \/ HeaderUnread \/ HeaderRefused \/ HeaderEnds \/ BodyTooBig \/ BodyParsed
    \/ ChunksBegin \/ ChunkIncomplete \/ ChunkParsed \/ ChunkThrows \/ ChunksEnd

Receive == ReceiveBegin \/ ReceivePart \/ ReceiveFails \/ Parse

Over == pc = "idle" /\ status \notin {"Unknown"} \cup Quiet /\ UNCHANGED vars

\* A receiver that waits for more than the message, as for a truncated one.
Waits == pc = "reading" /\ taken = Len(message.text) /\ UNCHANGED vars

Next == Receive \/ PeerCloses \/ Over \/ Waits

Spec == Init /\ [][Next]_vars

\* The receiving thread runs, and what the peer sent arrives.
FairSpec == Spec /\ WF_vars(ReceiveBegin \/ ReceivePart \/ Parse)

--------------------------------------------------------------------------------
(* What messages are in order, whatever the cutting.                           *)

Blanks == {CRLF \o CRLF, <<lf, lf>>}

\* The part stands in the text, behind the first p tokens.
At(text, p, part) == p + Len(part) <= Len(text) /\ \A i \in DOMAIN part : text[p + i] = part[i]

\* The first blank line is behind `end`.  One of CRLFs is looked for first, and must not
\* follow in the body when the header has LF line ends.
HeadedBy(text, end, blank) ==
    /\ At(text, end, blank)
    /\ \A p \in 0..end - 1, other \in Blanks : ~At(text, p, other)
    /\ blank = <<lf, lf>> => \A p \in 0..Len(text) : ~At(text, p, CRLF \o CRLF)

\* What precedes the blank line, and how much there is with it.
Before(text, end) == SubSeq(text, 1, end)
Behind(end, blank) == end + Len(blank)

IsChunked(m, end) == m.kind # "request" /\ Chunks(Before(m.text, end))

\* A body behind the first h tokens, of n tokens: all that is left, or what a response is
\* cut to; it is within the limit, with what the last read may bring.
WholeBody(m, h, n) ==
    /\ h + n <= Len(m.text) /\ m.content = SubSeq(m.text, h + 1, h + n)
    /\ m.kind = "request" \/ n = 0 => Len(m.text) = h + n
    /\ Len(m.text) - h <= MaxBodySize \/ n - 1 + ChunkSize <= MaxBodySize

\* Less than promised, or more than the limit.
ShortBody(m, h, n) == n > Len(m.text) - h \/ n > MaxBodySize

\* Chunk k stands from at[k] to at[k + 1]: its size, its data and two line breaks; the data
\* of the chunks before it fill Offset(at, k) tokens.
Size(at, k) == at[k + 1] - at[k] - 5
Offset(at, k) == at[k] - at[1] - 5 * (k - 1)

Framed(text, h, n, at) ==
    /\ at[1] = h
    /\ \A k \in 1..n : Size(at, k) >= 0 /\ At(text, at[k], <<size(Size(at, k))>> \o CRLF)

\* All chunks, the last one of size 0, each of them within the limit while it arrives.
WholeChunks(m, h, n, at) ==
    /\ Framed(m.text, h, n, at)
    /\ at[n + 1] = Len(m.text) /\ Len(m.content) = Offset(at, n + 1)
    /\ \A k \in 1..n :
          /\ Size(at, k) = 0 <=> k = n
          /\ At(m.text, at[k + 1] - 2, CRLF)
          /\ \A i \in 1..Size(at, k) : m.content[Offset(at, k) + i] = m.text[at[k] + 3 + i]
          /\ \/ Offset(at, k) + Len(m.text) - at[k] <= MaxBodySize
             \/ Offset(at, k) + Size(at, k) + 4 + ChunkSize <= MaxBodySize

\* No chunk stands behind the first p tokens: something else does, or no line, or a chunk
\* that never ends or, with the data before it, is over the limit.
NoChunk(text, p, offset) ==
    \/ p < Len(text) /\ text[p + 1][1] # "size"
    \/ \A q \in p..Len(text) : ~At(text, q, CRLF)
    \/ \E n \in 0..UIntSize - 1 :
          /\ At(text, p, <<size(n)>> \o CRLF)
          /\ n + 5 > Len(text) - p \/ offset + n + 5 > MaxBodySize

\* The chunks do not end with one of size 0.
BrokenChunks(m, h, n, at) ==
    /\ Framed(m.text, h, n, at)
    /\ \A k \in 1..n : Size(at, k) > 0 /\ Offset(at, k) + Size(at, k) + 5 <= MaxBodySize
    /\ NoChunk(m.text, at[n + 1], Offset(at, n + 1))

WellFormed(m) ==
    /\ m.content \in Seq(Token)
    /\ At(m.text, 0, <<start1, start2>>)
    /\ \E end \in 0..Len(m.text), blank \in Blanks :
          /\ HeadedBy(m.text, end, blank) /\ Behind(end, blank) - 1 <= MaxHeaderSize
          /\ ContentLength(Before(m.text, end)) # -1
          /\ IF IsChunked(m, end)
             THEN \E n \in 1..Len(m.text) : \E at \in [1..n + 1 -> Behind(end, blank)..Len(m.text)] :
                    WholeChunks(m, Behind(end, blank), n, at)
             ELSE WholeBody(m, Behind(end, blank), ContentLength(Before(m.text, end)))

\* No header: no HTTP, no blank line within the limit, or a length that is no number.
Unreadable(m) ==
    \/ \E i \in DOMAIN m.text \cap 1..2 : m.text[i] # <<start1, start2>>[i]
    \/ \A p \in 0..MaxHeaderSize, blank \in Blanks : ~At(m.text, p, blank)
    \/ \E end \in 0..Len(m.text), blank \in Blanks :
          HeadedBy(m.text, end, blank) /\ ContentLength(Before(m.text, end)) = -1

IllFormed(m) ==
    \/ Unreadable(m)
    \/ \E end \in 0..Len(m.text), blank \in Blanks :
          /\ HeadedBy(m.text, end, blank)
          /\ IF IsChunked(m, end)
             THEN \E n \in 0..Len(m.text) : \E at \in [1..n + 1 -> Behind(end, blank)..Len(m.text)] :
                    BrokenChunks(m, Behind(end, blank), n, at)
             ELSE ShortBody(m, Behind(end, blank), ContentLength(Before(m.text, end)))

\* The messages are of the one sort or the other, as they say.
Judged == \A m \in Messages : IF m.ok THEN WellFormed(m) ELSE IllFormed(m)

\* The largest body, with the line breaks of a chunk, is counted in an unsigned int.
LimitFits == MaxBodySize + 4 < UIntSize

--------------------------------------------------------------------------------
(* Properties.                                                                 *)

Statuses == {"Unknown", "Success", "WouldBlock", "Timeout", "Disconnected", "ParseError",
             "HttpHeaderTooBig", "HttpBodyTooBig", "exception"}

TypeOK ==
    /\ message \in Messages /\ taken \in 0..Len(message.text) /\ closed \in BOOLEAN
    /\ pc \in {"idle", "reading", "header", "body", "chunks"}
    /\ status \in Statuses
    /\ total_received \in 0..taken
    /\ body \in Seq(Token)
    /\ header_ended \in BOOLEAN /\ encoded \in BOOLEAN
    /\ content_length \in Nat
    /\ chunk_offset \in 0..Len(body) /\ chunk_len \in 0..UIntSize - 1

\* However TCP cut the message, receive returns Success only for the whole of it, and the
\* object then holds its content.
ContentIntact == status = "Success" => message.ok /\ body = message.content

\* A message that is well formed and within the limits is refused in no cutting of it.
Accepted ==
    status \in {"ParseError", "HttpHeaderTooBig", "HttpBodyTooBig", "exception"} => ~message.ok

\* "'WouldBlock' or 'Timeout': No data received. Object still valid though."
QuietMeansUntouched == status \in Quiet /\ pc = "idle" => taken = 0 /\ body = <<>>

Larger(m, n) == IF m > n THEN m ELSE n

\* The limits bound what one object buffers, whatever the peer sends.
Bounded == Len(body) <= Larger(MaxHeaderSize, MaxBodySize) + ChunkSize

\* A whole message is answered: receive does not wait for what will not come.
Finishes == (message.ok /\ ~closed /\ taken = Len(message.text)) ~> (status = "Success")
================================================================================
