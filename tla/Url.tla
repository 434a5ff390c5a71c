------------------------------------ MODULE Url ------------------------------------
(***************************************************************************)
(* URL: a URL object, what parse makes of a text and what get_uri and      *)
(* get_url make of an object.  parse assigns only the members it finds,    *)
(* and appends to the path.                                                *)
(***************************************************************************)
EXTENDS Text

\* scheme_string_map: of two entries with one key the first is kept.
scheme_string_map == (http :> "HTTP") @@ (https :> "HTTPS") @@ (sftp :> "FTP") @@ (mailto :> "MAILTO") @@ (irc :> "IRC")

string_to_scheme(s) ==
    IF Len(s) = 1 /\ to_lower(s)[1] \in DOMAIN scheme_string_map
    THEN scheme_string_map[to_lower(s)[1]] ELSE "Unknown"

scheme_to_string(scheme) ==
    <<CHOOSE word \in DOMAIN scheme_string_map : scheme_string_map[word] = scheme>>

\* The port of a scheme, when the text has none.
guess(scheme, port) ==
    CASE scheme = "HTTP"  -> to_string(80)
      [] scheme = "HTTPS" -> to_string(443)
      [] scheme = "IRC"   -> to_string(6697)
      [] scheme = "FTP"   -> to_string(21)
      [] OTHER            -> port  \* the old one

URL == [scheme |-> "Unknown", host |-> <<>>, port |-> <<>>, path |-> <<>>, query |-> <<>>, fragment |-> <<>>]

--------------------------------------------------------------------------------
(* parse, part by part: each takes the text and the offset at which the part   *)
(* begins, and gives the object so far and the offset behind the part.         *)

SchemeEnd(text) == find(text, <<colon, slash, slash>>, 0)

WithScheme(url, text) ==
    IF SchemeEnd(text) = npos THEN [url |-> [url EXCEPT !.scheme = "Unknown"], rest |-> 0]
    ELSE [url  |-> [url EXCEPT !.scheme = string_to_scheme(substr(text, 0, SchemeEnd(text)))],
          rest |-> SchemeEnd(text) + 3]

\* Slip: the slash behind a port stays.
BehindPortItself(port_end) == port_end

BehindPort(port_end) == port_end + 1

\* "host:port", to the next slash.
WithPort(url, text, rest, pos) ==
    LET host == substr(text, rest, pos - rest)
        slash_pos == find(text, <<slash>>, rest + Len(host))
        port_end == IF slash_pos = npos THEN Len(text) ELSE slash_pos
    IN  [url  |-> [url EXCEPT !.host = host, !.port = substr(text, pos + 1, port_end - pos - 1)],
         rest |-> BehindPort(port_end)]

\* "host", to the next slash, or else question mark, or else hash; without any of them
\* and without a scheme all of it is the path.
WithoutPort(url, text, rest) ==
    LET guessed == [url EXCEPT !.port = guess(url.scheme, url.port)]
        ends == SelectSeq([i \in 1..3 |-> find(text, <<<<slash, question, hash>>[i]>>, rest)],
                          LAMBDA p : p # npos)
        pos == IF ends = <<>> THEN Len(text) ELSE ends[1]
    IN  IF ends # <<>> \/ rest # 0
        THEN [url |-> [guessed EXCEPT !.host = substr(text, rest, pos - rest)], rest |-> pos + 1]
        ELSE [url |-> guessed, rest |-> rest]

WithAuthority(url, text, rest) ==
    LET pos == find(text, <<colon>>, rest)
    IN  IF pos # npos THEN WithPort(url, text, rest, pos) ELSE WithoutPort(url, text, rest)

WithPath(url, text, rest) ==
    LET question_pos == find(text, <<question>>, rest)
        hash_pos == find(text, <<hash>>, rest)
        pos == IF question_pos # npos THEN question_pos
               ELSE IF hash_pos # npos THEN hash_pos ELSE Len(text)
    IN  [url |-> [url EXCEPT !.path = @ \o <<slash>> \o substr(text, rest, pos - rest)], rest |-> pos + 1]

\* The search begins one before the offset, where the path may have ended with the hash.
WithQuery(url, text, rest) ==
    LET pos == find(text, <<hash>>, rest - 1)
        found == IF pos = npos THEN url ELSE [url EXCEPT !.fragment = after(text, pos + 1)]
    IN  IF pos # npos
        THEN IF pos + 1 # rest THEN [found EXCEPT !.query = substr(text, rest, pos - rest)] ELSE found
        ELSE IF rest >= Len(text) THEN url ELSE [url EXCEPT !.query = after(text, rest)]

parse(url, text) ==
    LET s == WithScheme(url, text)
        a == WithAuthority(s.url, text, s.rest)
        p == WithPath(a.url, text, a.rest)
    IN  IF a.rest >= Len(text) THEN a.url ELSE WithQuery(p.url, text, p.rest)

--------------------------------------------------------------------------------
After(mark, part) == IF part = <<>> THEN <<>> ELSE mark \o part

get_uri(url) == url.path \o After(<<question>>, url.query) \o After(<<hash>>, url.fragment)

get_url(url) ==
    (IF url.host = <<>> THEN <<>>
     ELSE (IF url.scheme = "Unknown" THEN <<>> ELSE scheme_to_string(url.scheme) \o <<colon, slash, slash>>)
            \o url.host \o After(<<colon>>, url.port))
      \o get_uri(url)
================================================================================
