--------------------------------- MODULE HttpText ---------------------------------
(***************************************************************************)
(* What the texts of HTTP messages are made of and what is read from them: *)
(* url_encode, url_decode, Base64::encode, construct, and the parsers of   *)
(* header and post data.  How parse copes with cuts, limits and chunks is  *)
(* Http; here a header is taken apart once it is there.                    *)
(***************************************************************************)
EXTENDS Text

Byte == 0..255

Unreserved ==                       \* letters, digits and - _ . ! ~ * ' ( )
    48..57 \cup 97..122 \cup 65..90 \cup {45, 95, 46, 33, 126, 42, 39, 40, 41}

hex_lookup(digit) == IF digit < 10 THEN 48 + digit ELSE 55 + digit

\* Slip: an ampersand is taken for harmless.
KeepsAmpersand(c) == c \in Unreserved \cup {ampersand}

Literal(c) == c \in Unreserved

url_encode(bytes) ==
    FlattenSeq([i \in DOMAIN bytes |->
        LET c == bytes[i]
        IN  IF Literal(c) THEN <<c>>
            ELSE IF c = space THEN <<plus>>
            ELSE <<percent, hex_lookup(c \div 16), hex_lookup(c % 16)>>])

\* A capital hex digit; what this makes of any other character is no digit.
hex_value(c) == IF c - 48 > 9 THEN c - 55 ELSE c - 48

\* For texts with two capital hex digits behind every percent sign.
url_decode(s) ==
    LET decoded[a \in 1..Len(s) + 1] ==
            IF a > Len(s) THEN <<>>
            ELSE IF s[a] = percent /\ a + 2 <= Len(s)
                 THEN <<hex_value(s[a + 1]) * 16 + hex_value(s[a + 2])>> \o decoded[a + 3]
                 ELSE <<IF s[a] = plus THEN space ELSE s[a]>> \o decoded[a + 1]
    IN  decoded[1]

--------------------------------------------------------------------------------
(* Base64::encode, for two bytes or more: input.size() - 2 wraps for fewer.    *)

Bits(byte, from, to) == (byte \div 2^from) % 2^(to - from)

base64_table(i) ==
    IF i < 26 THEN 65 + i ELSE IF i < 52 THEN 71 + i ELSE IF i < 62 THEN i - 4 ELSE IF i = 62 THEN plus ELSE slash

\* How many whole sets of three bytes there are, as the loop counts them.
Sets(size) == (size - 2 + 2) \div 3

Encoded3(x, y, z) ==
    <<Bits(x, 2, 8), Bits(x, 0, 2) * 16 + Bits(y, 4, 8), Bits(y, 0, 4) * 4 + Bits(z, 6, 8), Bits(z, 0, 6)>>

Remainder(bytes) ==
    CASE bytes = <<>>    -> <<>>
      [] Len(bytes) = 2  -> [i \in 1..3 |-> base64_table(Encoded3(bytes[1], bytes[2], 0)[i])] \o <<equals>>
      [] Len(bytes) = 1  -> [i \in 1..2 |-> base64_table(Encoded3(bytes[1], 0, 0)[i])] \o <<equals, equals>>

base64(bytes) ==
    LET Set(k) == Encoded3(bytes[3 * k - 2], bytes[3 * k - 1], bytes[3 * k])
    IN  FlattenSeq([k \in 1..Sets(Len(bytes)) |-> [i \in 1..4 |-> base64_table(Set(k)[i])]])
          \o Remainder(after(bytes, 3 * Sets(Len(bytes))))

--------------------------------------------------------------------------------
(* Http: the parts that requests and responses share.                          *)

RequestVersion == {"V1", "V1_1"}
Version(version) == <<HTTP, slash, IF version = "V1" THEN one_zero ELSE one_one>>

\* request_type_to_string is one word: 510 for GET, and so on.
RequestTypes == <<"Get", "Post", "Put", "Delete", "Patch">>
request_type_to_string(type) == <<510 + (CHOOSE i \in DOMAIN RequestTypes : RequestTypes[i] = type)>>
string_to_request_type(s) ==
    IF s # <<>> /\ s[1] - 510 \in DOMAIN RequestTypes THEN RequestTypes[s[1] - 510] ELSE "Unknown"

\* A fresh HttpRequest or HttpResponse.
Message ==
    [type |-> "Unknown", uri |-> <<slash>>, version |-> "V1_1", status |-> 200,
     headers |-> Empty, get |-> Empty, post |-> Empty, body |-> <<>>,
     header_ended |-> FALSE, content_length |-> 0]

set_uri(message, text) ==
    IF text = <<>> THEN message
    ELSE [message EXCEPT !.uri = IF text[1] = slash THEN text ELSE <<slash>> \o text]

set_header(message, key, value) == [message EXCEPT !.headers = assign(@, to_lower(key), value)]

\* Entries without the token; empty ones are dropped.
split_string(s, token) ==
    LET Put(parts, c) ==
            IF c = token THEN Append(parts, <<>>)
            ELSE [parts EXCEPT ![Len(parts)] = Append(@, c)]
        split[i \in 0..Len(s)] == IF i = 0 THEN <<<<>>>> ELSE Put(split[i - 1], s[i])
    IN  SelectSeq(split[Len(s)], LAMBDA part : part # <<>>)

\* The line breaks at the end of the last argument go.
Trimmed(s) ==
    SubSeq(s, 1, Greatest({0} \cup {i \in DOMAIN s : s[i] \notin {CR, LF}}))

\* Pairs of name and value, in order.  An argument without an equals sign takes the next
\* one's, and a name that reaches over it.
parse_argument_list(str) ==
    LET list[from \in 0..Len(str)] ==
            LET equal_pos == find(str, <<equals>>, from)
                and_pos == find(str, <<ampersand>>, from)
                name == substr(str, from, equal_pos - from)
            IN  IF equal_pos = npos THEN <<>>
                ELSE IF and_pos = npos THEN <<<<name, after(Trimmed(str), equal_pos + 1)>>>>
                ELSE <<<<name, substr(str, equal_pos + 1, and_pos - equal_pos - 1)>>>> \o list[and_pos + 1]
    IN  IF str = <<>> THEN <<>> ELSE list[IF str[1] = question THEN 1 ELSE 0]

Printable(c) == c \in 32..126 \/ c > 255

\* A line without a colon, or with nothing behind it, is no header; the first one of a
\* name counts.
parse_header_line(headers, str) ==
    LET colon_pos == find(str, <<colon>>, 0)
        data_begin == find_first_not_of(str, {space}, colon_pos + 1)
        data_end == Least({p \in data_begin..Len(str) - 1 : ~Printable(str[p + 1])})
    IN  IF colon_pos = npos \/ data_begin = npos THEN headers
        ELSE emplace(headers, to_lower(substr(str, 0, colon_pos)),
                     substr(str, data_begin, IF data_end = npos THEN npos ELSE data_end - data_begin))

parse_header_lines(lines) == FoldLeft(parse_header_line, Empty, Tail(lines))

HeaderLine(name, value) == name \o <<colon, space>> \o value \o CRLF

\* The headers in the order of the map, and one of these that is missing.
Headers(headers, order) == FlattenSeq([i \in DOMAIN order |-> HeaderLine(order[i], headers[order[i]])])
Missing(headers, written, value) ==
    IF to_lower(written) \in DOMAIN headers THEN <<>> ELSE HeaderLine(written, value)

keep_alive == <<320>>
text_html == <<321>>
================================================================================
