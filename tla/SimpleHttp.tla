-------------------------------- MODULE SimpleHttp --------------------------------
(***************************************************************************)
(* An HTTP exchange as SimpleHttpClient and SimpleHttpServer make it: the  *)
(* client parses a URL, composes a request for it with HttpRequest's       *)
(* setters and sends it; the server parses what arrives, piece by piece,   *)
(* composes a response and sends that back.  The application encodes its   *)
(* arguments with url_encode, and may put a Base64 key into a header, as   *)
(* WebSocket's handshake does.                                             *)
(***************************************************************************)
EXTENDS Url, HttpMessages

CONSTANTS
    Components,       \* URLs, as URL.h:11 takes them apart
    Texts,            \* other texts that are parsed as a URL
    Types,            \* types and versions of requests
    Uris,             \* texts given to set_uri
    Keys, Meanings,   \* names of get and post variables, and what they hold
    Secrets,          \* what is put into a header in Base64
    Bodies,
    Statuses,         \* statuses and versions of responses
    MaxSettings       \* bound: calls of the request's setters

ASSUME SimpleHttpAssumption ==
    /\ Meanings \cup Secrets \subseteq Seq(Byte) /\ \A secret \in Secrets : Len(secret) >= 2
    /\ MaxSettings \in Nat
    /\ Types \subseteq ToSet(RequestTypes) \X RequestVersion

VARIABLES
    pc,               \* url, connect, compose, request, respond, response, or done
    url,              \* the client's URL object
    request, response, \* what the client and the server compose
    wire,             \* what is on its way
    received,         \* what the receiver's object has been parsed into
    got,              \* the request as the server got it
    parsed,           \* ghost: the components of the URL that was parsed
    settings,         \* calls of the request's setters so far
    meant,            \* ghost: the variables as the application means them, and its secret
    cut               \* ghost: whether the end of the request was still on its way

client == <<url, request, parsed, settings, meant>>
vars == <<pc, client, response, wire, received, got, cut>>

NoComponents == [word |-> <<>>]
NoMeaning == [get |-> Empty, post |-> Empty, secret |-> <<>>]

Init ==
    /\ pc = "url" /\ url = URL
    /\ request = Message /\ response = Message
    /\ wire = <<>> /\ received = Message /\ got = Message
    /\ parsed = NoComponents /\ settings = 0 /\ meant = NoMeaning /\ cut = FALSE

--------------------------------------------------------------------------------
(* The client.                                                                 *)

\* scheme:[//host[:port]][/path][?query][#fragment]; the scheme and its colon may be absent.
Written(c) ==
    (IF c.word = <<>> THEN <<>> ELSE c.word \o <<colon, slash, slash>>)
      \o c.host \o After(<<colon>>, c.port)
      \o c.path \o After(<<question>>, c.query) \o After(<<hash>>, c.fragment)

ParseUrl(text, components) ==
    /\ pc = "url" /\ pc' = "connect"
    /\ url' = parse(url, text)
    /\ parsed' = components
    /\ UNCHANGED <<request, response, wire, received, got, settings, meant, cut>>

\* Without a port the client gives up.  Of the URL only host and port are used from here on.
Connect ==
    /\ pc = "connect"
    /\ IF url.port = <<>> THEN pc' = "done" /\ UNCHANGED request
       ELSE pc' = "compose" /\ request' = set_uri(request, get_uri(url))
    /\ url' = [URL EXCEPT !.host = url.host, !.port = url.port] /\ parsed' = NoComponents
    /\ UNCHANGED <<response, wire, received, got, settings, meant, cut>>

Composes ==
    /\ pc = "compose" /\ settings < MaxSettings
    /\ settings' = settings + 1
    /\ UNCHANGED <<pc, url, response, wire, received, got, parsed, cut>>

set_uri_of(text) == Composes /\ request' = set_uri(request, text) /\ UNCHANGED meant

set_type(type, version) ==
    /\ Composes
    /\ request' = [request EXCEPT !.type = type, !.version = version]
    /\ UNCHANGED meant

\* A URI that holds a query, or a fragment, gets no further arguments.
get(key, bytes) ==
    /\ Composes
    /\ find(request.uri, <<question>>, 0) = npos /\ find(request.uri, <<hash>>, 0) = npos
    /\ request' = [request EXCEPT !.get = assign(@, to_lower(key), url_encode(bytes))]
    /\ meant' = [meant EXCEPT !.get = assign(@, to_lower(key), bytes)]

\* Post data goes into the body, so a request has one or the other.
post(key, bytes) ==
    /\ Composes /\ request.body = <<>>
    /\ request' = [request EXCEPT !.post = assign(@, to_lower(key), url_encode(bytes))]
    /\ meant' = [meant EXCEPT !.post = assign(@, to_lower(key), bytes)]

set_body(body) ==
    /\ Composes /\ DOMAIN request.post = {}
    /\ request' = [request EXCEPT !.body = body]
    /\ UNCHANGED meant

KeyHeader == <<Capital(330)>>       \* Sec-WebSocket-Key

header(secret) ==
    /\ Composes
    /\ request' = set_header(request, KeyHeader, base64(secret))
    /\ meant' = [meant EXCEPT !.secret = secret]

\* What connect stores, and Http::send gives to construct as the host.
remote_address == url.host \o <<colon>> \o url.port

Send ==
    /\ pc = "compose" /\ pc' = "request"
    /\ \E headers \in Orders(request.headers), gets \in Orders(request.get), posts \in Orders(request.post) :
          \E trailing \in BOOLEAN :
             wire' = construct_request(request, remote_address, headers, gets, posts, trailing)
    /\ UNCHANGED <<client, response, received, got, cut>>

--------------------------------------------------------------------------------
(* The server.                                                                 *)

\* Bound: a message arrives in one piece or two, the first of them one character, or the
\* header and some of what follows (anything else is in Http).
Pieces ==
    IF received = Message THEN {1} \cup HeaderEnd(wire) + Len(CRLF \o CRLF)..Len(wire) ELSE {Len(wire)}

\* The next n characters arrive, and parse is called with them.
Receive ==
    /\ pc = "request"
    /\ \E n \in Pieces :
          LET object == parse_request(received, SubSeq(wire, 1, n))
          IN  /\ IF Whole(object)
                 THEN /\ pc' = "respond" /\ got' = object /\ received' = Message
                      /\ wire' = <<>> /\ cut' = (n < Len(wire))
                 ELSE received' = object /\ wire' = after(wire, n) /\ UNCHANGED <<pc, got, cut>>
    /\ UNCHANGED <<client, response>>

\* Nobody looks at the request from here on.
Respond(status, version, body, type) ==
    /\ pc = "respond" /\ response = Message
    /\ response' = set_header([response EXCEPT !.status = status, !.version = version, !.body = body],
                              <<Capital(name_content_type)>>, type)
    /\ url' = URL /\ request' = Message /\ got' = Message /\ settings' = 0 /\ meant' = NoMeaning
    /\ cut' = FALSE
    /\ UNCHANGED <<pc, parsed, wire, received>>

SendResponse ==
    /\ pc = "respond" /\ response # Message /\ pc' = "response"
    /\ \E headers \in Orders(response.headers) : wire' = construct_response(response, headers)
    /\ UNCHANGED <<client, response, received, got, cut>>

ReceiveResponse ==
    /\ pc = "response"
    /\ \E n \in Pieces :
          LET object == parse_response(received, SubSeq(wire, 1, n))
          IN  /\ received' = object /\ wire' = after(wire, n)
              /\ pc' = IF Whole(object) THEN "done" ELSE pc
    /\ UNCHANGED <<client, response, got, cut>>

Done == pc = "done" /\ UNCHANGED vars

Next ==
    \/ \E c \in Components : ParseUrl(Written(c), c)
    \/ \E text \in Texts : ParseUrl(text, NoComponents)
    \/ Connect
    \/ \E text \in Uris : set_uri_of(text)
    \/ \E type \in Types : set_type(type[1], type[2])
    \/ \E key \in Keys, bytes \in Meanings : get(key, bytes) \/ post(key, bytes)
    \/ \E body \in Bodies : set_body(body)
    \/ \E secret \in Secrets : header(secret)
    \/ Send \/ Receive
    \/ \E status \in Statuses, body \in Bodies : Respond(status[1], status[2], body, text_html)
    \/ SendResponse \/ ReceiveResponse
    \/ Done

Spec == Init /\ [][Next]_vars

--------------------------------------------------------------------------------
(* What must hold.                                                             *)

\* A fresh URL object that parses a URL written by the grammar has its parts, with the port
\* of the scheme when there is none (URL.h:38); its get_uri is what follows the authority,
\* and parsing its get_url gives an equal object.
UrlRead ==
    parsed # NoComponents =>
        LET c == parsed
        IN  /\ url = [scheme |-> c.scheme, host |-> c.host, port |-> IF c.port = <<>> THEN c.usual ELSE c.port,
                      path |-> c.path, query |-> c.query, fragment |-> c.fragment]
            /\ get_uri(url) = Written([c EXCEPT !.word = <<>>, !.host = <<>>, !.port = <<>>])
            /\ parse(URL, get_url(url)) = url

\* What a decoder makes of Base64: six bits of every character, and eight to a byte.
Decodes(text, bytes) ==
    LET six(c) == CHOOSE i \in 0..63 : base64_table(i) = c
        bit(i) == (six(text[i \div 6 + 1]) \div 2^(5 - (i % 6))) % 2
        padding == Cardinality({i \in DOMAIN text : text[i] = equals})
    IN  /\ Len(text) % 4 = 0 /\ Len(bytes) = (Len(text) \div 4) * 3 - padding
        /\ \A i \in DOMAIN bytes :
              bytes[i] = FoldLeft(LAMBDA n, b : 2 * n + bit(8 * (i - 1) + b), 0, [b \in 1..8 |-> b - 1])

\* The variables of a query whose names and values are apart.
Variables(query) ==
    {<<split_string(v, equals)[1], split_string(v, equals)[2]>> :
        v \in ToSet(split_string(query, ampersand))}

Meant(map, sent) == /\ DOMAIN map = DOMAIN sent
                    /\ \A key \in DOMAIN sent : url_decode(map[key]) = sent[key]

\* The server's object says what the client's did, however TCP cuts the request and in
\* whatever order the maps are walked: type, version and path, the URL's query or the get
\* variables, decoded, the header's Base64, the host and the body; the post variables too,
\* but only when the whole request was there when its header ended.
RequestArrives ==
    got # Message =>
        LET question_pos == find(request.uri, <<question>>, 0)
            uri_end == IF question_pos = npos THEN Len(request.uri) ELSE question_pos
        IN  /\ got.type = (IF request.type = "Unknown" THEN "Get" ELSE request.type)
            /\ got.version = request.version
            /\ got.uri = substr(request.uri, 0, uri_end)
            /\ got.headers[<<name_host>>] = remote_address
            /\ meant.secret # <<>> => Decodes(got.headers[to_lower(KeyHeader)], meant.secret)
            /\ question_pos = npos => Meant(got.get, meant.get)
            /\ (question_pos # npos /\ find(request.uri, <<hash>>, 0) = npos) =>
                   {<<key, got.get[key]>> : key \in DOMAIN got.get} = Variables(after(request.uri, question_pos + 1))
            /\ DOMAIN request.post = {} => got.body = request.body
            /\ (got.type = "Post" /\ request.body = <<>> /\ ~cut) => Meant(got.post, meant.post)

\* And so does the client's about the server's response: status, version, type and body.
ResponseArrives ==
    (pc = "done" /\ response # Message) =>
        /\ received.status = response.status /\ received.version = response.version
        /\ received.body = response.body
        /\ received.headers[<<name_content_type>>] = text_html
================================================================================
