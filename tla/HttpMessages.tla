------------------------------- MODULE HttpMessages -------------------------------
(***************************************************************************)
(* HttpRequest and HttpResponse: the text that construct makes of an       *)
(* object, and the object that parse makes of the text.                    *)
(***************************************************************************)
EXTENDS HttpText

\* name=value&name=value; whether an ampersand follows the last one is the caller's to say.
Arguments(map, order, trailing) ==
    FlattenSeq([i \in DOMAIN order |->
        order[i] \o <<equals>> \o map[order[i]]
          \o (IF i < Len(order) \/ trailing THEN <<ampersand>> ELSE <<>>)])

RequestLine(request, order) ==
    request_type_to_string(IF request.type = "Unknown" THEN "Get" ELSE request.type)
      \o <<space>> \o request.uri
      \o (IF DOMAIN request.get = {} THEN <<>> ELSE <<question>> \o Arguments(request.get, order, FALSE))
      \o <<space>> \o Version(request.version) \o CRLF

\* The loop over post_data compares with the end of get_data: whether the ends of two maps
\* are equal is the library's choice, and so is the ampersand behind the last argument.
PostString(request, order, trailing) ==
    IF DOMAIN request.post = {} THEN <<>> ELSE Arguments(request.post, order, trailing) \o CRLF

ContentLength(request, post_string) == Len(request.body) + Len(post_string)

construct_request(request, host, headers, gets, posts, trailing) ==
    LET post_string == PostString(request, posts, trailing)
    IN  RequestLine(request, gets)
          \o Headers(request.headers, headers)
          \o Missing(request.headers, <<Capital(name_connection)>>, keep_alive)
          \o Missing(request.headers, <<Capital(name_host)>>, host)
          \o (IF request.body = <<>> THEN <<>>
              ELSE HeaderLine(<<Capital(name_content_length)>>, to_string(ContentLength(request, post_string))))
          \o CRLF \o post_string \o request.body

construct_response(response, headers) ==
    Version(response.version) \o <<space>> \o to_string(response.status) \o <<space>> \o CRLF
      \o Headers(response.headers, headers)
      \o Missing(response.headers, <<name_connection>>, keep_alive)
      \o Missing(response.headers, <<name_content_type>>, text_html)
      \o (IF response.body = <<>> THEN <<>>
          ELSE Missing(response.headers, <<name_content_length>>, to_string(Len(response.body))))
      \o CRLF \o response.body

--------------------------------------------------------------------------------
(* parse.                                                                      *)

HeaderEnd(body) == find(body, CRLF \o CRLF, 0)

\* content-length, when there is one.
Length(headers) ==
    IF <<name_content_length>> \in DOMAIN headers THEN stoull(headers[<<name_content_length>>]) ELSE 0

\* str.compare(pos, n, "HTTP/1.0")
ReadVersion(line, pos, n) == IF substr(line, pos, n) = Version("V1") THEN "V1" ELSE "V1_1"

\* From the first slash to the question mark, or to the space before "HTTP".
parse_header_uri(message, line) ==
    LET uri_begin == find(line, <<slash>>, 0)
        uri_end == find(line, <<HTTP>>, 0) - 1
        get_begin == find(line, <<question>>, 0)
        get_vars == IF get_begin = npos THEN <<>>
                    ELSE parse_argument_list(substr(line, get_begin, uri_end - get_begin))
        path_end == IF get_begin = npos THEN uri_end ELSE get_begin
    IN  [set_uri(message, substr(line, uri_begin, path_end - uri_begin)) EXCEPT
           !.get = FoldLeft(LAMBDA map, c : emplace(map, to_lower(c[1]), c[2]), @, get_vars),
           !.version = ReadVersion(line, uri_end + 1, 3)]

\* Where the post data ends: at the last empty line, or where the body does.
PostEnd(body) == IF rfind(body, CRLF \o CRLF) # npos THEN rfind(body, CRLF \o CRLF) ELSE rfind(body, <<LF, LF>>)

parse_post_body(message) ==
    LET body == message.body
        post_begin == find_first_not_of(body, {CR, LF}, 0)
        post_end == PostEnd(body)
        post == parse_argument_list(substr(body, post_begin, IF post_end = npos THEN npos ELSE post_end - post_begin))
    IN  IF post_begin \in {post_end, npos} THEN message
        ELSE [message EXCEPT !.post = FoldLeft(LAMBDA map, c : assign(map, to_lower(c[1]), c[2]), @, post)]

\* The object behind its header, with the rest of what has arrived as its body.
request_header(message, body) ==
    LET lines == split_string(substr(body, 0, HeaderEnd(body)), LF)
        headers == parse_header_lines(lines)
    IN  [parse_header_uri([message EXCEPT !.type = string_to_request_type(lines[1])], lines[1]) EXCEPT
           !.headers = headers, !.content_length = Length(headers),
           !.header_ended = TRUE, !.body = after(body, HeaderEnd(body) + 4)]

response_header(message, body) ==
    LET lines == split_string(substr(body, 0, HeaderEnd(body)), LF)
        headers == parse_header_lines(lines)
        status_begin == find(lines[1], <<space>>, 0)
        end_pos == find(lines[1], <<space>>, status_begin + 1)
    IN  [message EXCEPT
           !.status = stoull(substr(lines[1], status_begin, end_pos - status_begin)),
           !.version = ReadVersion(lines[1], 0, status_begin),
           !.headers = headers, !.content_length = Length(headers),
           !.header_ended = TRUE, !.body = after(body, HeaderEnd(body) + 4)]

\* The header is taken apart when it is whole and was not before; otherwise a piece is only
\* appended.
OnlyAppended(message, body) == message.header_ended \/ HeaderEnd(body) = npos

\* Slip: the body's length is not looked at.
WholeHeader(message) == message.header_ended

Whole(message) == message.header_ended /\ Len(message.body) >= message.content_length

parse_request(message, piece) ==
    LET body == message.body \o piece
        parsed == IF OnlyAppended(message, body) THEN [message EXCEPT !.body = body]
                  ELSE request_header(message, body)
    IN  IF Whole(parsed) /\ parsed.type = "Post" THEN parse_post_body(parsed) ELSE parsed

\* What exceeds a content length is cut off.
parse_response(message, piece) ==
    LET body == message.body \o piece
        parsed == IF OnlyAppended(message, body) THEN [message EXCEPT !.body = body]
                  ELSE response_header(message, body)
    IN  IF Whole(parsed) /\ parsed.content_length > 0
        THEN [parsed EXCEPT !.body = substr(@, 0, parsed.content_length)] ELSE parsed
================================================================================
