------------------------------- MODULE MCSimpleHttp -------------------------------
(* Instances of SimpleHttp for TLC. *)
EXTENDS SimpleHttp

h == <<104>>
p == <<112>>
q == <<113, equals, 49>>            \* q=1
qr == q \o <<ampersand, 114, equals, 50>>

\* Every part present and absent.  Left out is what the parser does not tell apart: a scheme
\* or port without a host, a query or fragment without a path, a host alone; and a path
\* that is one slash with nothing behind it, which it drops.  Only one scheme comes with
\* all of the paths and ports.
Schemes == {[word |-> <<>>, scheme |-> "Unknown", usual |-> <<>>],
            [word |-> <<http>>, scheme |-> "HTTP", usual |-> to_string(80)],
            [word |-> <<Capital(https)>>, scheme |-> "HTTPS", usual |-> to_string(443)],
            [word |-> <<irc>>, scheme |-> "IRC", usual |-> to_string(6697)]}
AllParts ==
    {s @@ [host |-> host, port |-> port, path |-> path, query |-> query, fragment |-> fragment] :
        s \in Schemes, host \in {<<>>, h}, port \in {<<>>, to_string(8080)},
        path \in {<<>>, <<slash>>, <<slash>> \o p},
        query \in {<<>>, qr}, fragment \in {<<>>, <<102>>}}
AllUrls ==
    {c \in AllParts :
        /\ c.word \in {<<http>>, <<irc>>} => c.port = <<>> /\ c.path = <<>>
        /\ c.word # <<>> /\ c.path # <<>> /\ c.port # <<>> => c.query # <<>> /\ c.fragment # <<>>
        /\ c.host = <<>> => c.word = <<>> /\ c.port = <<>>
        /\ c.path = <<slash>> => c.query # <<>> \/ c.fragment # <<>>
        /\ c.path = <<>> => c.query = <<>> /\ c.fragment = <<>> /\ (c.word # <<>> \/ c.port # <<>>)}

\* A query or a lone slash, and schemes that are unknown or answered by another.
OtherTexts == {h \o <<question>> \o q, h \o <<slash>>, <<sftp, colon, slash, slash>> \o h,
               <<mailto, colon>> \o p, <<666, colon, slash, slash>> \o h \o <<slash>> \o p}

SomeTypes == {<<"Put", "V1">>, <<"Post", "V1_1">>}
SomeUris == {p \o <<slash>> \o p}
SomeKeys == {<<65>>, <<98, 99>>}

\* Every character that means something to a parser, and a byte over 127.
SomeMeanings == {<<120, equals, ampersand, percent, plus, question, slash, hash, space, CR, LF, 255>>}
SomeSecrets == {<<3, 250, 7, 129, 200>>, <<1, 2, 3, 129>>}
SomeBodies == {<<>>, <<120, LF, LF, equals, CR, LF, CR, LF, 121>>}
SomeStatuses == {<<200, "V1_1">>, <<404, "V1">>}
================================================================================
