----------------------------------- MODULE Text -----------------------------------
(***************************************************************************)
(* std::string as the text modules use it: a sequence of characters, which *)
(* are their codes.  What the code only ever handles as a whole is one     *)
(* character here, with a code over 255: a word of a protocol, a numeral.  *)
(* Positions count from 0.                                                 *)
(***************************************************************************)
EXTENDS Integers, Sequences, FiniteSets, SequencesExt, TLC

LF == 10
CR == 13
space == 32
hash == 35
percent == 37
ampersand == 38
plus == 43
slash == 47
colon == 58
equals == 61
question == 63

CRLF == <<CR, LF>>

\* Words in lower case are 300.., the same words with capitals are 400.., those that are
\* capitals only are 500.., and the numeral of n is 1000 + n.
http == 300
https == 301
irc == 302
sftp == 303
mailto == 304
name_connection == 310
name_host == 311
name_content_length == 312
name_content_type == 313
Capital(word) == word + 100
HTTP == 500
one_zero == 501                     \* 1.0
one_one == 502                      \* 1.1

to_string(n) == <<1000 + n>>

\* std::stoull, std::stoi of a text that holds a number: leading spaces are skipped.
Digits(s) == SelectSeq(s, LAMBDA c : c # space)
stoull(s) == Digits(s)[1] - 1000

tolower(c) ==
    IF c \in 65..90 THEN c + 32
    ELSE IF c \in 400..499 THEN c - 100 ELSE c

to_lower(s) == [i \in DOMAIN s |-> tolower(s[i])]

--------------------------------------------------------------------------------
npos == -1

Least(positions) == IF positions = {} THEN npos ELSE CHOOSE p \in positions : \A q \in positions : p <= q
Greatest(positions) == IF positions = {} THEN npos ELSE CHOOSE p \in positions : \A q \in positions : q <= p

Matches(s, pattern) ==
    {p \in 0..Len(s) - Len(pattern) : \A i \in DOMAIN pattern : s[p + i] = pattern[i]}

find(s, pattern, from) == Least({p \in Matches(s, pattern) : p >= from})
rfind(s, pattern) == Greatest(Matches(s, pattern))

find_first_not_of(s, set, from) == Least({p \in from..Len(s) - 1 : s[p + 1] \notin set})

\* s.substr(pos, n), pos within s: a length that wrapped below zero is longer than any text.
substr(s, pos, n) == SubSeq(s, pos + 1, IF n < 0 \/ pos + n > Len(s) THEN Len(s) ELSE pos + n)

after(s, pos) == SubSeq(s, pos + 1, Len(s))

--------------------------------------------------------------------------------
(* The application's maps from texts to texts, and the orders in which an      *)
(* unordered_map may be walked.                                                *)

Empty == [key \in {} |-> <<>>]

assign(map, key, value) == [k \in DOMAIN map \cup {key} |-> IF k = key THEN value ELSE map[k]]

emplace(map, key, value) == IF key \in DOMAIN map THEN map ELSE assign(map, key, value)

Orders(map) == SetToSeqs(DOMAIN map)
================================================================================
