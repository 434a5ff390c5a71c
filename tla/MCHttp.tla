---------------------------------- MODULE MCHttp ----------------------------------
(* Instances of Http for TLC. *)
EXTENDS Http

Datas(from, n) == [i \in 1..n |-> data(from + i)]
Chunk(from, n) == <<size(n)>> \o CRLF \o Datas(from, n) \o CRLF
LastChunk == <<size(0)>> \o CRLF \o CRLF
Blank == CRLF \o CRLF
Start == <<start1, start2>>

Good(kind, text, n) == [kind |-> kind, text |-> text, content |-> Datas(0, n), ok |-> TRUE]
Bad(kind, text) == [kind |-> kind, text |-> text, content |-> <<>>, ok |-> FALSE]

\* Well formed: without a body, with a length, with more than that, chunked, with LF line
\* ends only.
GoodMessages == {
    Good("request", Start \o Blank, 0),
    Good("request", Start \o <<junk, length(3)>> \o Blank \o Datas(0, 3), 3),
    Good("request", Start \o <<lf, lf>>, 0),
    Good("request", Start \o <<length(2)>> \o <<lf, lf>> \o Datas(0, 2), 2),
    Good("response", Start \o Blank, 0),
    Good("response", Start \o <<length(3), junk>> \o Blank \o Datas(0, 3), 3),
    Good("response", Start \o <<length(1)>> \o <<lf, lf>> \o Datas(0, 1), 1),
    Good("response", Start \o <<length(2)>> \o Blank \o Datas(0, 4), 2),
    Good("response", Start \o <<chunked>> \o Blank \o LastChunk, 0),
    Good("response", Start \o <<chunked>> \o Blank \o Chunk(0, 2) \o Chunk(2, 1) \o LastChunk, 3)}

\* Not: no HTTP, no number, too long, truncated, a chunk without a size or of a size that
\* an unsigned int cannot hold with the line breaks.
BadMessages == {
    Bad("request", <<junk, start2>> \o Blank),
    Bad("request", <<start1>> \o Blank),
    Bad("request", Start \o <<length(-1)>> \o Blank),
    Bad("request", Start \o [i \in 1..6 |-> junk] \o Blank),
    Bad("request", Start \o [i \in 1..20 |-> junk]),
    Bad("response", <<start1, junk>> \o Blank),
    Bad("response", <<start1>> \o <<lf, lf>>),
    Bad("response", Start \o [i \in 1..8 |-> junk] \o Blank),
    Bad("response", Start \o <<length(-1)>> \o Blank),
    Bad("response", Start \o <<length(20)>> \o Blank \o Datas(0, 16)),
    Bad("response", Start \o <<length(4)>> \o Blank \o Datas(0, 3)),
    Bad("response", Start \o <<chunked>> \o Blank \o <<junk>> \o CRLF),
    Bad("response", Start \o <<chunked>> \o Blank \o <<size(UIntSize - 2)>> \o CRLF \o Datas(0, 3)),
    Bad("response", Start \o <<chunked>> \o Blank \o Chunk(0, 2) \o <<size(3)>> \o CRLF \o Datas(2, 2))}

AllMessages == GoodMessages \cup BadMessages

\* What the theorems about the content assume.
ASSUME Classified == Judged /\ LimitFits
================================================================================
