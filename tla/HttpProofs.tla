------------------------------- MODULE HttpProofs -------------------------------
(* Proofs about Http, for all messages, cuttings, sizes and limits. *)
EXTENDS Http, TLAPS, SequenceTheorems, WellFoundedInduction

--------------------------------------------------------------------------------
(* Strings.                                                                    *)

\* A set of positions has a least one.
LEMMA LeastExists ==
    ASSUME NEW positions \in SUBSET Nat, positions # {}
    PROVE  \E p \in positions : \A q \in positions : p <= q
<1> DEFINE below == {p \in Nat \X Nat : p[1] < p[2]}
<1>1. IsWellFoundedOn(below, Nat)
  BY NatLessThanWellFounded DEF OpToRel
<1>2. \A p, q \in Nat : q < p => <<q, p>> \in below
  OBVIOUS
<1> HIDE DEF below
<1>3. PICK p \in positions : \A q \in positions : <<q, p>> \notin below
  BY <1>1, WFMin, Zenon
<1>4. ASSUME NEW q \in positions PROVE p <= q
  <2>1. p \in Nat /\ q \in Nat
    OBVIOUS
  <2>2. ~(q < p)
    BY <1>2, <1>3, <2>1, Zenon
  <2> QED  BY <2>1, <2>2
<1> QED  BY <1>4

LEMMA LeastInSet ==
    ASSUME NEW positions \in SUBSET Nat, positions # {}
    PROVE  /\ Least(positions) \in positions
           /\ \A q \in positions : Least(positions) <= q
BY LeastExists DEF Least

\* find returns npos or a position from which the pattern fits behind `from`.
LEMMA FindRange ==
    ASSUME NEW s \in Seq(Token), NEW pattern \in Seq(Token), NEW from \in Nat
    PROVE  \/ find(s, pattern, from) = npos
           \/ /\ find(s, pattern, from) \in Nat
              /\ from <= find(s, pattern, from)
              /\ find(s, pattern, from) + Len(pattern) <= Len(s)
<1> DEFINE found == {p \in from..Len(s) - Len(pattern) :
                       SubSeq(s, p + 1, p + Len(pattern)) = pattern}
<1>1. Len(s) \in Nat /\ Len(pattern) \in Nat
  BY LenProperties
<1>2. found \in SUBSET Nat /\ \A p \in found : from <= p /\ p + Len(pattern) <= Len(s)
  BY <1>1
<1>3. find(s, pattern, from) = IF found = {} THEN npos ELSE Least(found)
  BY DEF find
<1> HIDE DEF found
<1>4. CASE found = {}
  BY <1>3, <1>4
<1>5. CASE found # {}
  <2>1. Least(found) \in found
    BY <1>2, <1>5, LeastInSet
  <2>2. find(s, pattern, from) \in found
    BY <1>3, <1>5, <2>1
  <2> QED  BY <1>2, <2>2
<1> QED  BY <1>4, <1>5

\* A part of a string is a string; its length is the distance of its ends.
LEMMA PartType ==
    ASSUME NEW s \in Seq(Token), NEW m \in Int, NEW n \in Int, 1 <= m, n <= Len(s)
    PROVE  /\ SubSeq(s, m, n) \in Seq(Token)
           /\ Len(SubSeq(s, m, n)) = IF m <= n THEN n - m + 1 ELSE 0
<1>1. \A i \in m..n : s[i] \in Token
  <2>1. Len(s) \in Nat
    BY LenProperties
  <2>2. ASSUME NEW i \in m..n PROVE i \in 1..Len(s)
    BY <2>1, <2>2
  <2> QED  BY <2>2, ElementOfSeq
<1> QED  BY <1>1, SubSeqProperties

\* erase takes out what there is of n characters.
LEMMA EraseLength ==
    ASSUME NEW s \in Seq(Token), NEW pos \in Nat, NEW n \in Nat, pos <= Len(s)
    PROVE  /\ erase(s, pos, n) \in Seq(Token)
           /\ Len(erase(s, pos, n)) = IF pos + n <= Len(s) THEN Len(s) - n ELSE pos
<1> DEFINE total == Len(s)
           front == Len(SubSeq(s, 1, pos))
           back == Len(SubSeq(s, pos + n + 1, total))
           rest == Len(erase(s, pos, n))
<1>1. total \in Nat /\ pos <= total
  BY LenProperties
<1>2. /\ SubSeq(s, 1, pos) \in Seq(Token)
      /\ front = IF 1 <= pos THEN pos - 1 + 1 ELSE 0
  BY <1>1, PartType
<1>3. /\ SubSeq(s, pos + n + 1, total) \in Seq(Token)
      /\ back = IF pos + n + 1 <= total THEN total - (pos + n + 1) + 1 ELSE 0
  BY <1>1, PartType
<1>4. erase(s, pos, n) \in Seq(Token) /\ rest = front + back
  BY <1>2, <1>3, ConcatProperties DEF erase
<1> HIDE DEF front, back, rest, total
<1>5. rest = IF pos + n <= total THEN total - n ELSE pos
  BY <1>1, <1>2, <1>3, <1>4
<1> QED  BY <1>4, <1>5 DEF rest, total

\* A part stands where the tokens between two positions are its tokens.
LEMMA PartStands ==
    ASSUME NEW s \in Seq(Token), NEW part \in Seq(Token), Len(part) # 0, NEW p \in Nat,
           p + Len(part) <= Len(s)
    PROVE  SubSeq(s, p + 1, p + Len(part)) = part <=> At(s, p, part)
<1>1. Len(s) \in Nat /\ Len(part) \in Nat /\ DOMAIN part = 1..Len(part) /\ DOMAIN s = 1..Len(s)
  BY LenProperties
<1> DEFINE m == p + 1
           n == p + Len(part)
           middle == SubSeq(s, m, n)
<1>2. m \in Int /\ n \in Int /\ 1 <= m /\ n <= Len(s) /\ m <= n /\ n - m + 1 = Len(part)
  BY <1>1
<1>3. \A i \in m..n : s[i] \in Token
  <2>1. ASSUME NEW i \in m..n PROVE i \in 1..Len(s)
    BY <1>1, <1>2
  <2> QED  BY <2>1, ElementOfSeq
<1>4. /\ middle \in Seq(Token) /\ Len(middle) = n - m + 1
      /\ \A i \in 1..n - m + 1 : middle[i] = s[m + i - 1]
  BY <1>2, <1>3, SubSeqProperties
<1> HIDE DEF middle
<1>5. \A i \in 1..Len(part) : middle[i] = s[p + i]
  <2> SUFFICES ASSUME NEW i \in 1..Len(part) PROVE middle[i] = s[p + i]
    OBVIOUS
  <2>1. m + i - 1 = p + i
    BY <1>1
  <2> QED  BY <1>2, <1>4, <2>1
<1>6. middle = part <=> \A i \in 1..Len(part) : middle[i] = part[i]
  BY <1>2, <1>4, SeqEqual
<1>7. At(s, p, part) <=> \A i \in 1..Len(part) : s[p + i] = part[i]
  BY <1>1 DEF At
<1> QED  BY <1>5, <1>6, <1>7 DEF middle

\* find returns the first position behind `from` where the pattern stands, npos for none.
LEMMA FindFirst ==
    ASSUME NEW s \in Seq(Token), NEW pattern \in Seq(Token), Len(pattern) # 0, NEW from \in Nat
    PROVE  \/ /\ find(s, pattern, from) = npos
              /\ \A p \in Nat : from <= p => ~At(s, p, pattern)
           \/ /\ find(s, pattern, from) \in Nat /\ from <= find(s, pattern, from)
              /\ At(s, find(s, pattern, from), pattern)
              /\ \A p \in Nat : from <= p /\ p < find(s, pattern, from) => ~At(s, p, pattern)
<1> DEFINE found == {p \in from..Len(s) - Len(pattern) :
                       SubSeq(s, p + 1, p + Len(pattern)) = pattern}
<1>1. Len(s) \in Nat /\ Len(pattern) \in Nat
  BY LenProperties
<1>2. found \in SUBSET Nat
  BY <1>1
<1>3. find(s, pattern, from) = IF found = {} THEN npos ELSE Least(found)
  BY DEF find
<1>4. ASSUME NEW p \in Nat, from <= p PROVE p \in found <=> At(s, p, pattern)
  <2>1. CASE p + Len(pattern) <= Len(s)
    <3>1. p \in found <=> SubSeq(s, p + 1, p + Len(pattern)) = pattern
      BY <1>1, <1>4, <2>1
    <3> QED  BY <2>1, <3>1, PartStands
  <2>2. CASE ~(p + Len(pattern) <= Len(s))
    <3>1. p \notin found
      BY <1>1, <2>2
    <3> QED  BY <2>2, <3>1 DEF At
  <2> QED  BY <2>1, <2>2
<1>5. \A p \in found : p \in Nat /\ from <= p
  BY <1>1
<1> HIDE DEF found
<1>6. CASE found = {}
  BY <1>3, <1>4, <1>6
<1>7. CASE found # {}
  <2>1. Least(found) \in found
    BY <1>2, <1>7, LeastInSet
  <2>2. \A q \in found : Least(found) <= q
    BY <1>2, <1>7, LeastInSet
  <2>3. \A p \in Nat : from <= p /\ p < Least(found) => p \notin found
    BY <1>5, <2>1, <2>2
  <2> QED  BY <1>3, <1>4, <1>5, <1>7, <2>1, <2>3
<1> QED  BY <1>6, <1>7

\* erase moves what is behind to the front.
LEMMA EraseTokens ==
    ASSUME NEW s \in Seq(Token), NEW pos \in Nat, NEW n \in Nat, pos + n <= Len(s)
    PROVE  /\ erase(s, pos, n) \in Seq(Token) /\ Len(erase(s, pos, n)) = Len(s) - n
           /\ \A i \in 1..pos : erase(s, pos, n)[i] = s[i]
           /\ \A i \in 1..Len(s) - n : pos < i => erase(s, pos, n)[i] = s[i + n]
<1>1. Len(s) \in Nat /\ DOMAIN s = 1..Len(s) /\ pos <= Len(s)
  BY LenProperties
<1>2. erase(s, pos, n) \in Seq(Token) /\ Len(erase(s, pos, n)) = Len(s) - n
  BY <1>1, EraseLength
<1> DEFINE front == SubSeq(s, 1, pos)
           from == pos + n + 1
           total == Len(s)
           back == SubSeq(s, from, total)
<1>3. \A i \in 1..total : s[i] \in Token
  BY ElementOfSeq
<1>4. /\ front \in Seq(Token) /\ Len(front) = pos
      /\ \A i \in 1..pos : front[i] = s[i]
  <2>1. \A i \in 1..pos : s[i] \in Token
    BY <1>1, <1>3
  <2>2. /\ front \in Seq(Token)
        /\ Len(front) = IF 1 <= pos THEN pos - 1 + 1 ELSE 0
        /\ \A i \in 1..pos - 1 + 1 : front[i] = s[1 + i - 1]
    BY <2>1, SubSeqProperties
  <2>3. \A i \in 1..pos : front[i] = s[i]
    <3> SUFFICES ASSUME NEW i \in 1..pos PROVE front[i] = s[i]
      OBVIOUS
    <3>1. i \in 1..pos - 1 + 1 /\ 1 + i - 1 = i
      OBVIOUS
    <3> HIDE DEF front
    <3> QED  BY <2>2, <3>1
  <2> QED  BY <2>2, <2>3
<1>5. /\ back \in Seq(Token) /\ Len(back) = total - pos - n
      /\ \A i \in 1..total - pos - n : back[i] = s[pos + n + i]
  <2>1. \A i \in from..total : s[i] \in Token
    BY <1>1, <1>3
  <2>2. from \in Nat /\ total \in Nat /\ total - from + 1 = total - pos - n
    BY <1>1
  <2>3. /\ back \in Seq(Token)
        /\ Len(back) = IF from <= total THEN total - from + 1 ELSE 0
        /\ \A i \in 1..total - from + 1 : back[i] = s[from + i - 1]
    BY <2>1, <2>2, SubSeqProperties
  <2>4. \A i \in 1..total - pos - n : back[i] = s[pos + n + i]
    <3> SUFFICES ASSUME NEW i \in 1..total - pos - n PROVE back[i] = s[pos + n + i]
      OBVIOUS
    <3>1. i \in 1..total - from + 1 /\ from + i - 1 = pos + n + i
      BY <1>1
    <3> HIDE DEF back, from
    <3> QED  BY <2>3, <3>1
  <2> QED  BY <1>1, <2>2, <2>3, <2>4
<1> HIDE DEF front, back
<1>6. \A i \in 1..Len(front) + Len(back) :
        (front \o back)[i] = IF i <= Len(front) THEN front[i] ELSE back[i - Len(front)]
  BY <1>4, <1>5, ConcatProperties
<1>7. erase(s, pos, n) = front \o back /\ Len(front) + Len(back) = total - n
  <2>1. erase(s, pos, n) = front \o back
    BY DEF erase, front, back
  <2> QED  BY <1>1, <1>4, <1>5, <2>1
<1>8. ASSUME NEW i \in 1..pos PROVE erase(s, pos, n)[i] = s[i]
  <2>1. i \in 1..total - n /\ i <= pos
    BY <1>1
  <2> QED  BY <1>4, <1>6, <1>7, <2>1
<1>9. ASSUME NEW i \in 1..total - n, pos < i PROVE erase(s, pos, n)[i] = s[i + n]
  <2>1. i - pos \in 1..total - pos - n /\ pos + n + (i - pos) = i + n /\ ~(i <= pos)
    BY <1>1, <1>9
  <2> QED  BY <1>4, <1>5, <1>6, <1>7, <2>1
<1> QED  BY <1>2, <1>8, <1>9

--------------------------------------------------------------------------------
(* What parse finds in the body.                                               *)

LEMMA PatternTypes == CRLF \in Seq(Token) /\ CRLF \o CRLF \in Seq(Token) /\ <<lf, lf>> \in Seq(Token)
                      /\ Len(CRLF) = 2 /\ Len(CRLF \o CRLF) = 4 /\ Len(<<lf, lf>>) = 2
<1>1. cr \in Token /\ lf \in Token
  BY DEF Token
<1> HIDE DEF cr, lf
<1>2. CRLF \in Seq(Token) /\ <<lf, lf>> \in Seq(Token) /\ Len(CRLF) = 2 /\ Len(<<lf, lf>>) = 2
  BY <1>1 DEF CRLF
<1>3. CRLF \o CRLF \in Seq(Token) /\ Len(CRLF \o CRLF) = Len(CRLF) + Len(CRLF)
  BY <1>2, ConcatProperties
<1> QED  BY <1>2, <1>3

\* The blank line is where header_end says.
LEMMA HeaderEndRange ==
    ASSUME body \in Seq(Token)
    PROVE  /\ header_end_size \in {2, 4}
           /\ \/ header_end = npos
              \/ header_end \in Nat /\ header_end + header_end_size <= Len(body)
<1> DEFINE long == find(body, CRLF \o CRLF, 0)
           short == find(body, <<lf, lf>>, 0)
<1>1. long = npos \/ (long \in Nat /\ long + 4 <= Len(body))
  BY PatternTypes, FindRange
<1>2. short = npos \/ (short \in Nat /\ short + 2 <= Len(body))
  BY PatternTypes, FindRange
<1>3. /\ header_end = IF long # npos THEN long ELSE short
      /\ header_end_size = IF long # npos THEN 4 ELSE 2
  BY DEF header_end, header_end_size
<1> HIDE DEF long, short
<1> QED  BY <1>1, <1>2, <1>3

\* What is left behind the header is no longer than what there was.
LEMMA AfterHeaderType ==
    ASSUME body \in Seq(Token), header_end # npos
    PROVE  /\ Header \in Seq(Token)
           /\ AfterHeader \in Seq(Token) /\ Len(AfterHeader) <= Len(body)
<1>1. /\ header_end \in Nat /\ header_end_size \in Nat
      /\ header_end + header_end_size <= Len(body) /\ Len(body) \in Nat
  BY HeaderEndRange, LenProperties
<1>2. header_end <= Len(body)
  BY <1>1
<1>3. Header \in Seq(Token)
  BY <1>1, <1>2, PartType DEF Header
<1> DEFINE n == header_end + header_end_size
<1>4. n \in Nat /\ n <= Len(body) /\ 0 <= Len(body) /\ AfterHeader = erase(body, 0, n)
  BY <1>1 DEF AfterHeader
<1> HIDE DEF n
<1>5. /\ erase(body, 0, n) \in Seq(Token)
      /\ Len(erase(body, 0, n)) = IF 0 + n <= Len(body) THEN Len(body) - n ELSE 0
  <2>1. 0 \in Nat
    OBVIOUS
  <2> QED  BY <2>1, <1>4, EraseLength
<1> QED  BY <1>1, <1>3, <1>4, <1>5

LEMMA ContentLengthType ==
    ASSUME NEW header \in Seq(Token)
    PROVE  ContentLength(header) \in Nat \cup {-1}
<1> DEFINE lengths == {i \in DOMAIN header : header[i][1] = "length"}
<1>1. DOMAIN header = 1..Len(header) /\ Len(header) \in Nat
  BY LenProperties
<1>2. lengths \in SUBSET Nat
  BY <1>1
<1>3. \A i \in lengths : header[i] \in Token /\ header[i][1] = "length"
  BY <1>1, ElementOfSeq
<1>4. \A t \in Token : t[1] = "length" => t[2] \in Nat \cup {-1}
  BY DEF Token, start1, start2, cr, lf, chunked, junk
<1>5. ContentLength(header) = IF lengths = {} THEN 0 ELSE header[Least(lengths)][2]
  BY DEF ContentLength
<1> HIDE DEF lengths
<1>6. CASE lengths = {}
  BY <1>5, <1>6
<1>7. CASE lengths # {}
  <2>1. Least(lengths) \in lengths
    BY <1>2, <1>7, LeastInSet
  <2> QED  BY <1>3, <1>4, <1>5, <1>7, <2>1
<1> QED  BY <1>6, <1>7

\* A chunk's size stands between chunk_offset and the line break found.
LEMMA ChunkSizeRange ==
    ASSUME body \in Seq(Token), chunk_offset \in 0..Len(body), length_end # npos
    PROVE  /\ hex_length \in Seq(Token)
           /\ Len(hex_length) \in Nat
           /\ chunk_offset + Len(hex_length) + 2 <= Len(body)
<1>1. chunk_offset \in Nat /\ Len(body) \in Nat
  BY LenProperties
<1>2. length_end \in Nat /\ chunk_offset <= length_end /\ length_end + 2 <= Len(body)
  BY <1>1, PatternTypes, FindRange DEF length_end
<1>3. /\ hex_length \in Seq(Token)
      /\ Len(hex_length) = IF chunk_offset + 1 <= length_end THEN length_end - (chunk_offset + 1) + 1 ELSE 0
  BY <1>1, <1>2, PartType DEF hex_length
<1>4. Len(hex_length) = length_end - chunk_offset
  BY <1>1, <1>2, <1>3
<1> QED  BY <1>1, <1>2, <1>3, <1>4

LEMMA ChunkLengthType ==
    ASSUME hex_length \in Seq(Token), ~Throws
    PROVE  ChunkLength \in 0..UIntSize - 1
<1>1. hex_length # <<>> /\ hex_length[1][1] = "size"
  BY DEF Throws
<1>2. hex_length[1] \in Token
  BY <1>1, EmptySeq, ElementOfSeq, LenProperties
<1>3. \A t \in Token : t[1] = "size" => t[2] \in Int
  BY DEF Token, start1, start2, cr, lf, chunked, junk
<1>4. hex_length[1][2] \in Int
  BY <1>1, <1>2, <1>3
<1> QED  BY <1>4, HttpAssumption DEF ChunkLength

\* The two erases leave the chunk's data, and no more than there was.
LEMMA UnchunkedType ==
    ASSUME body \in Seq(Token), chunk_offset \in 0..Len(body), length_end # npos,
           NEW len \in Nat, chunk_offset + Len(hex_length) + len + 2 <= Len(body)
    PROVE  /\ Unchunked(len) \in Seq(Token)
           /\ chunk_offset + len <= Len(Unchunked(len))
           /\ Len(Unchunked(len)) <= Len(body)
<1> DEFINE h == Len(hex_length)
           pos == chunk_offset + h + len + 2
           between == erase(body, pos, 2)
<1>1. chunk_offset \in Nat /\ Len(body) \in Nat /\ h \in Nat
  BY LenProperties, ChunkSizeRange
<1>2. pos \in Nat /\ pos <= Len(body)
  BY <1>1
<1>3. /\ between \in Seq(Token)
      /\ Len(between) = IF pos + 2 <= Len(body) THEN Len(body) - 2 ELSE pos
  BY <1>2, EraseLength
<1> DEFINE n == h + 2
<1>4. Unchunked(len) = erase(between, chunk_offset, n) /\ n \in Nat
  BY <1>1 DEF Unchunked
<1> HIDE DEF between
<1>5. pos <= Len(between) /\ Len(between) <= Len(body) /\ Len(between) \in Nat
  BY <1>1, <1>2, <1>3, LenProperties
<1>6. chunk_offset <= Len(between) /\ chunk_offset + n <= Len(between)
      /\ chunk_offset + len <= Len(between) - n
  BY <1>1, <1>5
<1> HIDE DEF n
<1>7. /\ erase(between, chunk_offset, n) \in Seq(Token)
      /\ Len(erase(between, chunk_offset, n)) =
            IF chunk_offset + n <= Len(between) THEN Len(between) - n ELSE chunk_offset
  BY <1>1, <1>3, <1>4, <1>6, EraseLength
<1> QED  BY <1>1, <1>4, <1>5, <1>6, <1>7

--------------------------------------------------------------------------------
(* The inductive invariant.                                                    *)

\* Nothing has been read, or receive knows of all that has been read.
Untouched ==
    /\ pc = "idle" /\ status \in {"Unknown"} \cup Quiet => taken = 0
    /\ pc # "idle" => total_received = taken
    /\ pc \in {"header", "body", "chunks"} => taken # 0
    /\ taken = 0 => body = <<>> /\ ~header_ended

\* Where parse stands, and how long the body may be there.
LongestBody == Larger(MaxHeaderSize, MaxBodySize)
Limits ==
    /\ Len(body) <= LongestBody + ChunkSize
    /\ pc = "reading" => Len(body) <= IF header_ended THEN MaxBodySize ELSE MaxHeaderSize
    /\ pc = "header" => ~header_ended
    /\ pc = "body" => header_ended
    /\ pc = "chunks" => header_ended /\ Len(body) <= MaxBodySize

\* The offset moves in chunked responses only.
Offsets ==
    /\ chunk_offset # 0 => header_ended /\ encoded /\ ~IsRequest
    /\ pc = "chunks" => encoded /\ ~IsRequest

HttpInv == TypeOK /\ Untouched /\ Limits /\ Offsets

LEMMA LimitFacts ==
    /\ MaxHeaderSize \in Nat /\ MaxBodySize \in Nat /\ ChunkSize \in Nat /\ LongestBody \in Nat
    /\ MaxHeaderSize <= LongestBody /\ MaxBodySize <= LongestBody /\ 1 < UIntSize /\ UIntSize \in Nat
BY HttpAssumption DEF LongestBody, Larger

LEMMA InitHolds == Init => HttpInv
<1> SUFFICES ASSUME Init PROVE HttpInv
  OBVIOUS
<1> USE DEF Init
<1>1. message.text \in Seq(Token) /\ Len(message.text) \in Nat /\ Len(body) = 0 /\ body \in Seq(Token)
  BY HttpAssumption, LenProperties, EmptySeq
<1>2. TypeOK
  <2>1. /\ taken \in 0..Len(message.text) /\ total_received \in 0..taken
        /\ chunk_offset \in 0..Len(body) /\ chunk_len \in 0..UIntSize - 1
    BY <1>1, LimitFacts
  <2>2. closed \in BOOLEAN /\ pc = "idle" /\ status = "Unknown" /\ message \in Messages
        /\ header_ended \in BOOLEAN /\ encoded \in BOOLEAN /\ content_length \in Nat
    OBVIOUS
  <2> QED  BY ONLY <1>1, <2>1, <2>2 DEF TypeOK, Statuses
<1>3. Untouched /\ Offsets
  BY DEF Untouched, Offsets
<1>4. Limits
  BY <1>1, LimitFacts DEF Limits
<1> QED  BY <1>2, <1>3, <1>4 DEF HttpInv

LEMMA ReceiveSteps ==
    ASSUME HttpInv, ReceiveBegin \/ ReceiveFails \/ PeerCloses \/ Over \/ Waits
    PROVE  HttpInv'
<1> USE DEF HttpInv
<1>1. CASE ReceiveBegin
  <2>1. TypeOK'
    BY <1>1 DEF ReceiveBegin, TypeOK, connection, object
  <2>2. Untouched'
    BY <1>1 DEF ReceiveBegin, Untouched, connection, object
  <2>3. Limits' /\ Offsets'
    BY <1>1, LimitFacts DEF ReceiveBegin, Untouched, Limits, Offsets, Quiet, IsRequest, connection, object, LongestBody
  <2> QED  BY <2>1, <2>2, <2>3
<1>2. CASE ReceiveFails
  <2>1. /\ pc = "reading" /\ pc' = "idle" /\ status' \in Quiet \cup {"Disconnected"}
        /\ status' \in Quiet => total_received = 0
        /\ UNCHANGED <<connection, total_received, object, chunk_len>>
    BY <1>2 DEF ReceiveFails, ReceiveResult, Returns, Quiet
  <2>2. TypeOK'
    BY <2>1 DEF TypeOK, connection, object, Quiet, Statuses
  <2>3. Untouched'
    BY <2>1 DEF Untouched, connection, object, Quiet
  <2>4. Limits' /\ Offsets'
    BY <2>1 DEF Limits, Offsets, IsRequest, connection, object, LongestBody
  <2> QED  BY <2>2, <2>3, <2>4
<1>3. CASE PeerCloses
  BY <1>3 DEF PeerCloses, TypeOK, Untouched, Limits, Offsets, object, IsRequest, LongestBody, Statuses
<1>4. CASE Over \/ Waits
  BY <1>4 DEF Over, Waits, vars, connection, TypeOK, Untouched, Limits, Offsets, object, IsRequest, LongestBody, Statuses
<1> QED  BY <1>1, <1>2, <1>3, <1>4

LEMMA PartStep ==
    ASSUME HttpInv, ReceivePart
    PROVE  HttpInv'
<1> USE DEF HttpInv
<1>1. PICK n \in 1..ChunkSize :
        /\ taken + n <= Len(message.text)
        /\ taken' = taken + n
        /\ total_received' = total_received + n
        /\ body' = body \o SubSeq(message.text, taken + 1, taken + n)
  BY DEF ReceivePart
<1>2. /\ pc = "reading" /\ pc' = IF header_ended THEN "body" ELSE "header"
      /\ UNCHANGED <<message, closed, status, header_ended, content_length, encoded,
                     chunk_offset, chunk_len>>
  BY DEF ReceivePart
<1>3. /\ body \in Seq(Token) /\ message.text \in Seq(Token) /\ taken \in Nat /\ n \in Nat /\ n # 0
      /\ Len(message.text) \in Nat /\ Len(body) \in Nat /\ total_received = taken
  BY <1>2, LimitFacts, HttpAssumption, LenProperties DEF TypeOK, Untouched
<1> DEFINE part == SubSeq(message.text, taken + 1, taken + n)
<1>4. part \in Seq(Token) /\ Len(part) = n
  <2>1. 1 <= taken + 1 /\ taken + 1 \in Int /\ taken + n \in Int /\ taken + 1 <= taken + n
        /\ (taken + n) - (taken + 1) + 1 = n
    BY <1>3
  <2>2. /\ part \in Seq(Token)
        /\ Len(part) = IF taken + 1 <= taken + n THEN (taken + n) - (taken + 1) + 1 ELSE 0
    BY <1>1, <1>3, <2>1, PartType
  <2> QED  BY <2>1, <2>2
<1> HIDE DEF part
<1>5. body' \in Seq(Token) /\ Len(body') = Len(body) + n /\ body' = body \o part
  BY <1>1, <1>3, <1>4, ConcatProperties DEF part
<1>6. TypeOK'
  BY <1>1, <1>2, <1>3, <1>5 DEF TypeOK, Statuses
<1>7. Untouched'
  BY <1>1, <1>2, <1>3 DEF Untouched
<1>8. Limits'
  <2>1. n <= ChunkSize /\ Len(body) <= LongestBody
    BY <1>2, <1>3, LimitFacts DEF Limits
  <2>2. Len(body') <= LongestBody + ChunkSize
    BY <1>3, <1>5, <2>1, LimitFacts
  <2>3. LongestBody' = LongestBody
    BY DEF LongestBody, Larger
  <2> QED  BY <1>2, <2>2, <2>3 DEF Limits
<1>9. Offsets'
  BY <1>2 DEF Offsets, IsRequest
<1> QED  BY <1>6, <1>7, <1>8, <1>9

LEMMA HeaderSteps ==
    ASSUME HttpInv, HeaderUnread \/ HeaderRefused \/ HeaderEnds
    PROVE  HttpInv'
<1> USE DEF HttpInv
<1>1. /\ pc = "header" /\ ~header_ended /\ taken # 0 /\ total_received = taken /\ chunk_offset = 0
      /\ body \in Seq(Token) /\ Len(body) \in Nat /\ Len(body) <= LongestBody + ChunkSize
      /\ LongestBody' = LongestBody
  BY LenProperties
  DEF HeaderUnread, HeaderRefused, HeaderEnds, Untouched, Limits, Offsets, TypeOK, LongestBody, Larger
<1>2. CASE HeaderUnread
  <2>1. /\ UNCHANGED <<connection, total_received, body, content_length, encoded, chunk_offset,
                       chunk_len>>
        /\ header_ended' \in BOOLEAN
    BY <1>2 DEF HeaderUnread
  <2>2. \/ pc' = "idle" /\ status' \in {"ParseError", "HttpHeaderTooBig"}
        \/ pc' = "reading" /\ status' = status /\ header_ended' = FALSE /\ Len(body) <= MaxHeaderSize
    <3>1. CASE NotHttp /\ ParseReturns("ParseError")
      BY <3>1 DEF ParseReturns, Returns
    <3>2. CASE ~NotHttp /\ TooBig /\ ParseReturns("HttpHeaderTooBig")
      BY <3>2 DEF ParseReturns, Returns
    <3>3. CASE ~NotHttp /\ ~TooBig /\ header_end = npos /\ ParseReturns("NotEnoughData")
      <4>1. pc' = "reading" /\ status' = status
        BY <3>3 DEF ParseReturns
      <4>2. header_ended' = FALSE
        BY <1>2, <3>3, Zenon DEF HeaderUnread
      <4>3. ~(Len(body) > MaxHeaderSize)
        BY <3>3, Zenon DEF TooBig
      <4>4. Len(body) <= MaxHeaderSize
        BY <1>1, <4>3, LimitFacts
      <4> QED  BY <4>1, <4>2, <4>4
    <3> QED  BY <1>2, <3>1, <3>2, <3>3 DEF HeaderUnread
  <2>3. TypeOK'
    BY <2>1, <2>2 DEF TypeOK, Statuses, connection
  <2>4. Untouched'
    BY <1>1, <2>1, <2>2 DEF Untouched, connection, Quiet
  <2>5. Limits' /\ Offsets'
    BY <1>1, <2>1, <2>2 DEF Limits, Offsets, connection, IsRequest
  <2> QED  BY <2>3, <2>4, <2>5
<1>3. CASE HeaderRefused
  <2>1. /\ UNCHANGED <<connection, total_received, body, content_length, chunk_offset, chunk_len>>
        /\ header_ended' = TRUE /\ encoded' \in BOOLEAN /\ pc' = "idle" /\ status' = "ParseError"
    BY <1>3 DEF HeaderRefused, ParseReturns, Returns, Chunks
  <2>2. TypeOK'
    BY <2>1 DEF TypeOK, Statuses, connection
  <2>3. Untouched' /\ Limits' /\ Offsets'
    BY <1>1, <2>1 DEF Untouched, Limits, Offsets, connection, Quiet
  <2> QED  BY <2>2, <2>3
<1>4. CASE HeaderEnds
  <2>1. /\ UNCHANGED <<connection, status, total_received, chunk_offset, chunk_len>>
        /\ header_ended' = TRUE /\ encoded' \in BOOLEAN /\ pc' = "body"
        /\ body' = AfterHeader /\ content_length' = ContentLength(Header)
        /\ header_end # npos /\ ContentLength(Header) # -1
    BY <1>4 DEF HeaderEnds, Chunks, Malformed
  <2>2. body' \in Seq(Token) /\ Len(body') <= Len(body) /\ Len(body') \in Nat
    BY <1>1, <2>1, AfterHeaderType, LenProperties
  <2>3. content_length' \in Nat
    BY <1>1, <2>1, AfterHeaderType, ContentLengthType
  <2>4. TypeOK'
    <3>1. chunk_offset' \in 0..Len(body')
      BY <1>1, <2>1, <2>2
    <3> QED  BY <2>1, <2>2, <2>3, <3>1 DEF TypeOK, Statuses, connection
  <2>5. Untouched' /\ Offsets'
    BY <1>1, <2>1 DEF Untouched, Offsets, connection, Quiet
  <2>6. Limits'
    BY <1>1, <2>1, <2>2, LimitFacts DEF Limits
  <2> QED  BY <2>4, <2>5, <2>6
<1> QED  BY <1>2, <1>3, <1>4

LEMMA BodySteps ==
    ASSUME HttpInv, BodyTooBig \/ BodyParsed \/ ChunksBegin
    PROVE  HttpInv'
<1> USE DEF HttpInv
<1>1. /\ pc = "body" /\ header_ended /\ taken # 0 /\ total_received = taken
      /\ body \in Seq(Token) /\ Len(body) \in Nat /\ Len(body) <= LongestBody + ChunkSize
      /\ content_length \in Nat /\ LongestBody' = LongestBody /\ LongestBody \in Nat
  BY LenProperties, LimitFacts
  DEF BodyTooBig, BodyParsed, ChunksBegin, Untouched, Limits, TypeOK, LongestBody, Larger
<1>2. CASE BodyTooBig
  <2>1. /\ UNCHANGED <<connection, total_received, object, chunk_len>>
        /\ pc' = "idle" /\ status' = "HttpBodyTooBig"
    BY <1>2 DEF BodyTooBig, ParseReturns, Returns
  <2>2. TypeOK'
    BY <2>1 DEF TypeOK, Statuses, connection, object
  <2>3. Untouched' /\ Limits' /\ Offsets'
    BY <1>1, <2>1 DEF Untouched, Limits, Offsets, connection, object, Quiet, IsRequest
  <2> QED  BY <2>2, <2>3
<1>3. CASE BodyParsed
  <2>1. /\ UNCHANGED <<connection, total_received, header_ended, content_length, encoded,
                       chunk_offset, chunk_len>>
        /\ \/ pc' = "idle" /\ status' = "Success"
           \/ pc' = "reading" /\ status' = status
        /\ Len(body) <= MaxBodySize
        /\ IsRequest \/ ~encoded
    BY <1>3 DEF BodyParsed, ParseReturns, Returns
  <2>2. chunk_offset = 0
    BY <2>1 DEF Offsets
  <2>3. body' \in Seq(Token) /\ Len(body') <= Len(body) /\ Len(body') \in Nat
    <3>1. CASE body' = body
      BY <1>1, <3>1
    <3>2. CASE body' = SubSeq(body, 1, content_length) /\ content_length <= Len(body)
      <4>1. /\ SubSeq(body, 1, content_length) \in Seq(Token)
            /\ Len(SubSeq(body, 1, content_length)) =
                  IF 1 <= content_length THEN content_length - 1 + 1 ELSE 0
        BY <1>1, <3>2, PartType
      <4> QED  BY <1>1, <3>2, <4>1
    <3> QED  BY <1>1, <1>3, <3>1, <3>2 DEF BodyParsed
  <2>4. TypeOK'
    <3>1. chunk_offset' \in 0..Len(body')
      BY <2>1, <2>2, <2>3
    <3> QED  BY <2>1, <2>3, <3>1 DEF TypeOK, Statuses, connection
  <2>5. Untouched' /\ Offsets'
    BY <1>1, <2>1, <2>2 DEF Untouched, Offsets, connection, Quiet
  <2>6. Limits'
    BY <1>1, <2>1, <2>3, LimitFacts DEF Limits
  <2> QED  BY <2>4, <2>5, <2>6
<1>4. CASE ChunksBegin
  <2>1. /\ UNCHANGED <<connection, status, total_received, object>>
        /\ pc' = "chunks" /\ chunk_len' = 1 /\ encoded /\ ~IsRequest /\ Len(body) <= MaxBodySize
    BY <1>4 DEF ChunksBegin
  <2>2. TypeOK'
    <3>1. chunk_len' \in 0..UIntSize - 1
      BY <2>1, LimitFacts
    <3> QED  BY <2>1, <3>1 DEF TypeOK, Statuses, connection, object
  <2>3. Untouched' /\ Limits' /\ Offsets'
    BY <1>1, <2>1 DEF Untouched, Limits, Offsets, connection, object, IsRequest
  <2> QED  BY <2>2, <2>3
<1> QED  BY <1>2, <1>3, <1>4

LEMMA ChunkSteps ==
    ASSUME HttpInv, ChunkIncomplete \/ ChunkParsed \/ ChunkThrows \/ ChunksEnd
    PROVE  HttpInv'
<1> USE DEF HttpInv
<1>1. /\ pc = "chunks" /\ header_ended /\ encoded /\ ~IsRequest /\ taken # 0
      /\ total_received = taken /\ body \in Seq(Token) /\ Len(body) \in Nat
      /\ chunk_offset \in 0..Len(body) /\ chunk_offset \in Nat
      /\ Len(body) <= MaxBodySize /\ LongestBody' = LongestBody /\ LongestBody \in Nat
  BY LenProperties, LimitFacts
  DEF ChunkIncomplete, ChunkParsed, ChunkThrows, ChunksEnd, Untouched, Limits, Offsets, TypeOK,
      LongestBody, Larger
<1>2. CASE ChunkParsed
  <2>1. /\ UNCHANGED <<connection, pc, status, total_received, header_ended, content_length, encoded>>
        /\ length_end # npos /\ ~Throws
        /\ chunk_offset + Len(hex_length) + ChunkLength + 2 <= Len(body)
        /\ body' = Unchunked(ChunkLength)
        /\ chunk_offset' = chunk_offset + ChunkLength
        /\ chunk_len' = ChunkLength
    BY <1>2 DEF ChunkParsed
  <2>2. ChunkLength \in 0..UIntSize - 1 /\ ChunkLength \in Nat
    BY <1>1, <2>1, ChunkSizeRange, ChunkLengthType, LimitFacts
  <2>3. /\ body' \in Seq(Token) /\ Len(body') \in Nat
        /\ chunk_offset + ChunkLength <= Len(body') /\ Len(body') <= Len(body)
    BY <1>1, <2>1, <2>2, UnchunkedType, LenProperties
  <2>4. TypeOK'
    <3>1. chunk_offset' \in 0..Len(body')
      BY <1>1, <2>1, <2>2, <2>3
    <3> QED  BY <2>1, <2>2, <2>3, <3>1 DEF TypeOK, Statuses, connection
  <2>5. Untouched' /\ Offsets'
    BY <1>1, <2>1 DEF Untouched, Offsets, connection, IsRequest
  <2>6. Limits'
    BY <1>1, <2>1, <2>3, LimitFacts DEF Limits
  <2> QED  BY <2>4, <2>5, <2>6
<1>3. CASE ChunkIncomplete \/ ChunkThrows \/ ChunksEnd
  <2>1. /\ UNCHANGED <<connection, total_received, object>>
        /\ \/ pc' = "idle" /\ status' \in {"Success", "exception"}
           \/ pc' = "reading" /\ status' = status
    BY <1>3 DEF ChunkIncomplete, ChunkThrows, ChunksEnd, ParseReturns, Returns
  <2>2. chunk_len' = chunk_len \/ (length_end # npos /\ ~Throws /\ chunk_len' = ChunkLength)
    BY <1>3 DEF ChunkIncomplete, ChunkThrows, ChunksEnd
  <2>3. chunk_len' \in 0..UIntSize - 1
    BY <1>1, <2>2, ChunkSizeRange, ChunkLengthType DEF TypeOK
  <2>4. TypeOK'
    BY <2>1, <2>3 DEF TypeOK, Statuses, connection, object
  <2>5. Untouched' /\ Limits' /\ Offsets'
    BY <1>1, <2>1 DEF Untouched, Limits, Offsets, connection, object, Quiet, IsRequest
  <2> QED  BY <2>4, <2>5
<1> QED  BY <1>2, <1>3

LEMMA StepHolds == HttpInv /\ [Next]_vars => HttpInv'
<1> SUFFICES ASSUME HttpInv, [Next]_vars PROVE HttpInv'
  OBVIOUS
<1>1. CASE UNCHANGED vars
  BY <1>1 DEF vars, connection, object, HttpInv, TypeOK, Untouched, Limits, Offsets, IsRequest,
              LongestBody, Statuses
<1>2. CASE Next
  BY <1>2, ReceiveSteps, PartStep, HeaderSteps, BodySteps, ChunkSteps DEF Next, Receive, Parse
<1> QED  BY <1>1, <1>2

--------------------------------------------------------------------------------
(* The header of a message that arrives in pieces.                             *)

Text == message.text

\* Behind the first `offset` tokens of the body is what has been read of the text behind the
\* first `from`.
Holds(offset, from) ==
    /\ from <= taken /\ Len(body) = offset + (taken - from)
    /\ \A i \in 1..taken - from : body[offset + i] = Text[from + i]

\* What the proofs about a message need of the types.
Typed == body \in Seq(Token) /\ Text \in Seq(Token) /\ taken \in 0..Len(Text)

LEMMA BlankTokens ==
    /\ cr # lf /\ CRLF = <<cr, lf>> /\ CRLF \in Seq(Token)
    /\ \A blank \in Blanks : blank \in Seq(Token) /\ Len(blank) \in {2, 4}
    /\ Len(CRLF \o CRLF) = 4
    /\ (CRLF \o CRLF)[1] = cr /\ (CRLF \o CRLF)[2] = lf /\ (CRLF \o CRLF)[3] = cr /\ (CRLF \o CRLF)[4] = lf
    /\ Len(<<lf, lf>>) = 2 /\ <<lf, lf>>[1] = lf /\ <<lf, lf>>[2] = lf
<1>1. cr # lf
  BY DEF cr, lf
<1>2. CRLF = <<cr, lf>> /\ Len(CRLF) = 2 /\ CRLF[1] = cr /\ CRLF[2] = lf
  BY DEF CRLF
<1>3. \A blank \in Blanks : blank \in Seq(Token) /\ Len(blank) \in {2, 4}
  BY PatternTypes DEF Blanks
<1>4. \A i \in 1..4 : (CRLF \o CRLF)[i] = IF i <= 2 THEN CRLF[i] ELSE CRLF[i - 2]
  BY PatternTypes, <1>2, ConcatProperties
<1>5. (CRLF \o CRLF)[1] = cr /\ (CRLF \o CRLF)[2] = lf /\ (CRLF \o CRLF)[3] = cr /\ (CRLF \o CRLF)[4] = lf
  BY <1>2, <1>4
<1>6. <<lf, lf>>[1] = lf /\ <<lf, lf>>[2] = lf
  OBVIOUS
<1> QED  BY <1>1, <1>2, <1>3, <1>5, <1>6, PatternTypes

\* The parts that stand in the body are those that stand in the text and have been read.
LEMMA PartsRead ==
    ASSUME Typed, NEW offset \in Nat, NEW from \in Nat, Holds(offset, from),
           NEW part \in Seq(Token), NEW p \in Nat
    PROVE  At(body, offset + p, part) <=> At(Text, from + p, part) /\ from + p + Len(part) <= taken
<1>1. /\ taken \in Nat /\ Len(Text) \in Nat /\ taken <= Len(Text) /\ from <= taken
      /\ Len(body) = offset + (taken - from)
      /\ Len(part) \in Nat /\ DOMAIN part = 1..Len(part)
  BY LenProperties DEF Typed, Holds
<1>2. offset + p + Len(part) <= Len(body) <=> from + p + Len(part) <= taken
  BY <1>1
<1>3. ASSUME from + p + Len(part) <= taken, NEW i \in 1..Len(part)
      PROVE  body[offset + p + i] = Text[from + p + i]
  <2>1. p + i \in 1..taken - from /\ offset + (p + i) = offset + p + i /\ from + (p + i) = from + p + i
    BY <1>1, <1>3
  <2>2. body[offset + (p + i)] = Text[from + (p + i)]
    BY <2>1 DEF Holds
  <2> QED  BY <2>1, <2>2
<1>4. from + p + Len(part) <= taken => from + p + Len(part) <= Len(Text)
  BY <1>1
<1> QED  BY <1>1, <1>2, <1>3, <1>4 DEF At

\* Where `header_end` is, once the blank line has been read; before, it is nowhere.
LEMMA HeaderFound ==
    ASSUME Typed, Holds(0, 0), NEW end \in Nat, NEW blank \in Blanks, HeadedBy(Text, end, blank)
    PROVE  /\ taken < Behind(end, blank) => header_end = npos
           /\ Behind(end, blank) <= taken => header_end = end /\ header_end_size = Len(blank)
<1> DEFINE long == CRLF \o CRLF
           short == <<lf, lf>>
           l == find(body, long, 0)
           s == find(body, short, 0)
<1>1. /\ body \in Seq(Token) /\ taken \in Nat /\ Len(Text) \in Nat /\ taken <= Len(Text)
      /\ long \in Seq(Token) /\ short \in Seq(Token) /\ Len(long) = 4 /\ Len(short) = 2
      /\ DOMAIN long = 1..4 /\ DOMAIN short = 1..2
  BY PatternTypes, LenProperties DEF Typed
<1>2. /\ long[1] = cr /\ long[2] = lf /\ long[3] = cr /\ long[4] = lf
       /\ short[1] = lf /\ short[2] = lf /\ cr # lf
  BY BlankTokens
<1>3. Blanks = {long, short}
  BY DEF Blanks
<1>4. blank = short => \A p \in 0..Len(Text) : ~At(Text, p, long)
  BY DEF HeadedBy
<1>5. At(Text, end, blank)
  BY DEF HeadedBy
<1>6. \A p \in 0..end - 1, part \in Blanks : ~At(Text, p, part)
  BY DEF HeadedBy
<1>7. /\ header_end = IF l # npos THEN l ELSE s
      /\ header_end_size = IF l # npos THEN 4 ELSE 2
  BY DEF header_end, header_end_size
<1>8. \/ l = npos /\ \A p \in Nat : ~At(body, p, long)
      \/ l \in Nat /\ At(body, l, long) /\ \A p \in Nat : p < l => ~At(body, p, long)
  <2>1. 0 \in Nat /\ Len(long) # 0 /\ \A p \in Nat : 0 <= p
    BY <1>1
  <2> QED  BY <1>1, <2>1, FindFirst
<1>9. \/ s = npos /\ \A p \in Nat : ~At(body, p, short)
      \/ s \in Nat /\ At(body, s, short) /\ \A p \in Nat : p < s => ~At(body, p, short)
  <2>1. 0 \in Nat /\ Len(short) # 0 /\ \A p \in Nat : 0 <= p
    BY <1>1
  <2> QED  BY <1>1, <2>1, FindFirst
<1> HIDE DEF long, short, l, s
<1>10. ASSUME NEW part \in {long, short}, NEW p \in Nat
      PROVE  At(body, p, part) <=> At(Text, p, part) /\ p + Len(part) <= taken
  <2>1. part \in Seq(Token) /\ 0 \in Nat /\ 0 + p = p
    BY <1>1, <1>10
  <2> QED  BY <2>1, PartsRead
<1>11. \A p \in Nat, part \in {long, short} : p < end => ~At(Text, p, part)
  <2> SUFFICES ASSUME NEW p \in Nat, NEW part \in {long, short}, p < end PROVE ~At(Text, p, part)
    OBVIOUS
  <2>1. p \in 0..end - 1 /\ part \in Blanks
    BY <1>3
  <2> QED  BY <1>6, <2>1
<1>12. npos \notin Nat
  BY DEF npos
<1>13. CASE blank = long
  <2>1. Behind(end, blank) = end + 4
    BY <1>1, <1>13 DEF Behind
  <2>2. Text[end + 1] = cr /\ Text[end + 3] = cr
    BY <1>1, <1>5, <1>13, <1>2 DEF At
  <2>3. ASSUME NEW p \in Nat, At(Text, p, short), p + 2 <= taken, taken < end + 4 PROVE FALSE
    <3>1. Text[p + 1] = lf /\ Text[p + 2] = lf
      BY <1>1, <1>2, <2>3 DEF At
    <3>2. p = end \/ p = end + 1
      <4>1. ~(p < end)
        BY <1>11, <2>3
      <4> QED  BY <1>1, <2>3, <4>1
    <3> QED  BY <1>2, <2>2, <3>1, <3>2
  <2>4. CASE taken < end + 4
    <3>1. l = npos
      <4>1. ASSUME l # npos PROVE FALSE
        <5>1. l \in Nat /\ At(body, l, long)
          BY <1>8, <4>1
        <5>2. At(Text, l, long) /\ l + 4 <= taken
          BY <1>1, <1>10, <5>1
        <5>3. l < end
          BY <1>1, <2>4, <5>1, <5>2
        <5> QED  BY <1>11, <5>1, <5>2, <5>3
      <4> QED  BY <4>1
    <3>2. s = npos
      <4>1. ASSUME s # npos PROVE FALSE
        <5>1. s \in Nat /\ At(body, s, short)
          BY <1>9, <4>1
        <5>2. At(Text, s, short) /\ s + 2 <= taken
          BY <1>1, <1>10, <5>1
        <5> QED  BY <2>3, <2>4, <5>1, <5>2
      <4> QED  BY <4>1
    <3> QED  BY <1>1, <1>7, <2>1, <2>4, <3>1, <3>2
  <2>5. CASE end + 4 <= taken
    <3>1. At(body, end, long)
      BY <1>1, <1>10, <1>5, <1>13, <2>5
    <3>2. l \in Nat /\ At(body, l, long) /\ ~(end < l)
      BY <1>8, <3>1
    <3>3. At(Text, l, long)
      BY <1>10, <3>2
    <3>4. ~(l < end)
      BY <1>11, <3>2, <3>3
    <3>5. l = end
      BY <3>2, <3>4
    <3> QED  BY <1>1, <1>7, <1>12, <1>13, <2>1, <2>5, <3>5
  <2> QED  BY <1>1, <2>4, <2>5
<1>14. CASE blank = short
  <2>1. Behind(end, blank) = end + 2
    BY <1>1, <1>14 DEF Behind
  <2>2. l = npos
    <3>1. ASSUME l # npos PROVE FALSE
      <4>1. l \in Nat /\ At(body, l, long)
        BY <1>8, <3>1
      <4>2. At(Text, l, long) /\ l + 4 <= taken
        BY <1>1, <1>10, <4>1
      <4>3. l \in 0..Len(Text)
        BY <1>1, <4>1, <4>2
      <4> QED  BY <1>14, <1>4, <4>2, <4>3
    <3> QED  BY <3>1
  <2>3. CASE taken < end + 2
    <3>1. s = npos
      <4>1. ASSUME s # npos PROVE FALSE
        <5>1. s \in Nat /\ At(body, s, short)
          BY <1>9, <4>1
        <5>2. At(Text, s, short) /\ s + 2 <= taken
          BY <1>1, <1>10, <5>1
        <5>3. s < end
          BY <1>1, <2>3, <5>1, <5>2
        <5> QED  BY <1>11, <5>1, <5>2, <5>3
      <4> QED  BY <4>1
    <3> QED  BY <1>1, <1>7, <2>1, <2>2, <2>3, <3>1
  <2>4. CASE end + 2 <= taken
    <3>1. At(body, end, short)
      BY <1>1, <1>10, <1>5, <1>14, <2>4
    <3>2. s \in Nat /\ At(body, s, short) /\ ~(end < s)
      BY <1>9, <3>1
    <3>3. At(Text, s, short)
      BY <1>10, <3>2
    <3>4. ~(s < end)
      BY <1>11, <3>2, <3>3
    <3>5. s = end
      BY <3>2, <3>4
    <3> QED  BY <1>1, <1>7, <1>14, <2>1, <2>2, <2>4, <3>5
  <2> QED  BY <1>1, <2>3, <2>4
<1> QED  BY <1>13, <1>14, <1>3

\* Then the header is that of the text, and the rest of what has been read stays.
LEMMA HeaderTaken ==
    ASSUME Typed, Holds(0, 0), NEW end \in Nat, NEW blank \in Blanks, HeadedBy(Text, end, blank),
           Behind(end, blank) <= taken
    PROVE  /\ Header = Before(Text, end)
           /\ AfterHeader \in Seq(Token)
           /\ Len(AfterHeader) = taken - Behind(end, blank)
           /\ \A i \in 1..taken - Behind(end, blank) : AfterHeader[i] = Text[Behind(end, blank) + i]
<1>1. /\ header_end = end /\ header_end_size = Len(blank) /\ Len(blank) \in {2, 4}
      /\ taken \in Nat /\ Len(Text) \in Nat /\ taken <= Len(Text) /\ Len(body) = taken
      /\ body \in Seq(Token) /\ Text \in Seq(Token)
      /\ \A i \in 1..taken : body[i] = Text[i]
  <2>1. 0 + (taken - 0) = taken /\ taken - 0 = taken /\ \A i \in 1..taken : 0 + i = i
    BY DEF Typed
  <2>2. Len(body) = taken /\ \A i \in 1..taken : body[i] = Text[i]
    BY <2>1 DEF Holds
  <2>3. header_end = end /\ header_end_size = Len(blank)
    BY HeaderFound
  <2>4. Len(blank) \in {2, 4} /\ Len(Text) \in Nat
    BY BlankTokens, LenProperties DEF Typed
  <2> QED  BY <2>2, <2>3, <2>4 DEF Typed
<1> DEFINE h == end + Len(blank)
<1>2. h \in Nat /\ h <= taken /\ Behind(end, blank) = h /\ 0 + h <= Len(body) /\ end <= taken
  BY <1>1 DEF Behind
<1>3. Header = Before(Text, end)
  <2> DEFINE a == SubSeq(body, 1, end)
             b == SubSeq(Text, 1, end)
  <2>1. \A i \in 1..end : body[i] \in Token /\ Text[i] \in Token /\ body[i] = Text[i]
    <3> SUFFICES ASSUME NEW i \in 1..end PROVE body[i] \in Token /\ Text[i] \in Token /\ body[i] = Text[i]
      OBVIOUS
    <3>1. i \in 1..taken /\ i \in 1..Len(body) /\ i \in 1..Len(Text)
      BY <1>1, <1>2
    <3> QED  BY <1>1, <3>1, ElementOfSeq
  <2>2. a = b
    <3>1. /\ a \in Seq(Token) /\ Len(a) = IF 1 <= end THEN end - 1 + 1 ELSE 0
          /\ \A i \in 1..end - 1 + 1 : a[i] = body[1 + i - 1]
      BY <2>1, SubSeqProperties
    <3>2. /\ b \in Seq(Token) /\ Len(b) = IF 1 <= end THEN end - 1 + 1 ELSE 0
          /\ \A i \in 1..end - 1 + 1 : b[i] = Text[1 + i - 1]
      BY <2>1, SubSeqProperties
    <3> HIDE DEF a, b
    <3>3. ASSUME NEW i \in 1..end PROVE a[i] = b[i]
      <4>1. i \in 1..end - 1 + 1 /\ 1 + i - 1 = i
        OBVIOUS
      <4> QED  BY <2>1, <3>1, <3>2, <4>1
    <3>4. Len(a) = end /\ Len(b) = end
      BY <3>1, <3>2
    <3> QED  BY <3>1, <3>2, <3>3, <3>4, SeqEqual
  <2> QED  BY <1>1, <2>2 DEF Header, Before
<1>4. AfterHeader = erase(body, 0, h)
  BY <1>1 DEF AfterHeader
<1> HIDE DEF h
<1>5. /\ erase(body, 0, h) \in Seq(Token) /\ Len(erase(body, 0, h)) = Len(body) - h
      /\ \A i \in 1..Len(body) - h : 0 < i => erase(body, 0, h)[i] = body[i + h]
  <2>1. 0 \in Nat /\ body \in Seq(Token) /\ h \in Nat /\ 0 + h <= Len(body)
    BY <1>1, <1>2
  <2> QED  BY <2>1, EraseTokens
<1>6. ASSUME NEW i \in 1..taken - h PROVE erase(body, 0, h)[i] = Text[h + i]
  <2>1. i \in 1..Len(body) - h /\ 0 < i /\ i + h = h + i /\ h + i \in 1..taken
    BY <1>1, <1>2
  <2> QED  BY <1>1, <1>5, <2>1
<1> QED  BY <1>1, <1>2, <1>3, <1>4, <1>5, <1>6

--------------------------------------------------------------------------------
(* What is true of every message that is being received.                       *)

\* One message is received, and until its header has ended the body is what has been read.
Underway ==
    /\ pc # "idle" => status \in {"Unknown"} \cup Quiet
    /\ ~header_ended => Holds(0, 0)

LEMMA InvTyped == HttpInv => Typed /\ ChunkSize \in Nat /\ taken \in Nat /\ Len(Text) \in Nat /\ Len(body) \in Nat
BY HttpAssumption, LenProperties DEF HttpInv, TypeOK, Typed, Text

\* What is read is appended to what the body holds.
LEMMA HoldsPart ==
    ASSUME HttpInv, ReceivePart, NEW offset \in Nat, NEW from \in Nat, Holds(offset, from)
    PROVE  Holds(offset, from)' /\ \A i \in 1..offset : body'[i] = body[i]
<1>1. PICK n \in 1..ChunkSize :
        /\ taken + n <= Len(message.text)
        /\ taken' = taken + n
        /\ body' = body \o SubSeq(message.text, taken + 1, taken + n)
  BY DEF ReceivePart
<1>2. /\ body \in Seq(Token) /\ Text \in Seq(Token) /\ taken \in Nat /\ n \in Nat /\ n # 0
      /\ Len(Text) \in Nat /\ Len(body) \in Nat /\ Text' = Text /\ taken + n <= Len(Text)
  BY <1>1, InvTyped DEF Typed, Text, ReceivePart
<1> DEFINE m == taken + 1
           l == taken + n
           part == SubSeq(Text, m, l)
<1>3. part \in Seq(Token) /\ Len(part) = n /\ \A i \in 1..n : part[i] = Text[taken + i]
  <2>1. m \in Int /\ l \in Int /\ m <= l /\ l - m + 1 = n /\ \A i \in 1..n : m + i - 1 = taken + i
    BY <1>2
  <2>2. \A i \in m..l : Text[i] \in Token
    <3>1. ASSUME NEW i \in m..l PROVE i \in 1..Len(Text)
      BY <1>2, <3>1
    <3> QED  BY <1>2, <3>1, ElementOfSeq
  <2>3. /\ part \in Seq(Token) /\ Len(part) = l - m + 1
        /\ \A i \in 1..l - m + 1 : part[i] = Text[m + i - 1]
    BY <2>1, <2>2, SubSeqProperties
  <2> HIDE DEF m, l, part
  <2> QED  BY <2>1, <2>3
<1>4. body' = body \o part
  BY <1>1 DEF Text
<1> HIDE DEF part
<1>5. /\ Len(body') = Len(body) + n
      /\ \A i \in 1..Len(body) + n : body'[i] = IF i <= Len(body) THEN body[i] ELSE part[i - Len(body)]
  BY <1>2, <1>3, <1>4, ConcatProperties
<1>6. from <= taken /\ Len(body) = offset + (taken - from)
      /\ \A i \in 1..taken - from : body[offset + i] = Text[from + i]
  BY DEF Holds
<1>7. ASSUME NEW i \in 1..taken' - from PROVE body'[offset + i] = Text[from + i]
  <2>1. i \in Nat /\ offset + i \in 1..Len(body) + n
    BY <1>1, <1>2, <1>6
  <2>2. CASE i <= taken - from
    <3>1. i \in 1..taken - from /\ offset + i <= Len(body)
      BY <1>2, <1>6, <2>1, <2>2
    <3> QED  BY <1>5, <1>6, <2>1, <3>1
  <2>3. CASE ~(i <= taken - from)
    <3>1. /\ i - (taken - from) \in 1..n /\ ~(offset + i <= Len(body))
          /\ offset + i - Len(body) = i - (taken - from)
          /\ taken + (i - (taken - from)) = from + i
      BY <1>1, <1>2, <1>6, <2>1, <2>3
    <3> QED  BY <1>3, <1>5, <2>1, <3>1
  <2> QED  BY <2>2, <2>3
<1>8. from <= taken' /\ Len(body') = offset + (taken' - from)
  <2>1. taken' = taken + n /\ Len(body') = Len(body) + n
    BY <1>1, <1>5
  <2>2. from <= taken + n /\ Len(body) + n = offset + ((taken + n) - from)
    BY <1>2, <1>6
  <2> QED  BY <2>1, <2>2
<1>9. ASSUME NEW i \in 1..offset PROVE body'[i] = body[i]
  <2>1. i \in 1..Len(body) + n /\ i <= Len(body)
    BY <1>2, <1>6
  <2> QED  BY <1>5, <2>1
<1> QED  BY <1>2, <1>7, <1>8, <1>9 DEF Holds

LEMMA HoldsSame ==
    ASSUME UNCHANGED <<message, taken, body>>, NEW offset, NEW from, Holds(offset, from)
    PROVE  Holds(offset, from)'
BY DEF Holds, Text

LEMMA UnderwayStep ==
    ASSUME HttpInv, Underway, Next
    PROVE  Underway'
<1>1. CASE ReceiveBegin \/ ReceiveFails \/ PeerCloses \/ Over \/ Waits
  <2>1. UNCHANGED <<message, taken, body, header_ended>>
    BY <1>1 DEF ReceiveBegin, ReceiveFails, PeerCloses, Over, Waits, vars, connection, object
  <2>2. pc' # "idle" => status' \in {"Unknown"} \cup Quiet
    BY <1>1 DEF Underway, ReceiveBegin, ReceiveFails, Returns, PeerCloses, Over, Waits, vars
  <2> QED  BY <2>1, <2>2, HoldsSame DEF Underway
<1>2. CASE ReceivePart
  <2>1. pc = "reading" /\ status' = status /\ header_ended' = header_ended
    BY <1>2 DEF ReceivePart
  <2>2. ~header_ended => Holds(0, 0)'
    BY <1>2, HoldsPart DEF Underway
  <2> QED  BY <2>1, <2>2 DEF Underway
<1>3. CASE HeaderUnread
  <2>1. UNCHANGED <<message, taken, body>> /\ pc = "header" /\ (pc' # "idle" => status' = status)
    BY <1>3 DEF HeaderUnread, connection, ParseReturns, Returns
  <2>2. ~header_ended
    BY <2>1 DEF HttpInv, Limits
  <2> QED  BY <2>1, <2>2, HoldsSame DEF Underway
<1>4. CASE HeaderRefused \/ HeaderEnds
  <2>1. header_ended' = TRUE /\ pc = "header" /\ (pc' # "idle" => status' = status)
    BY <1>4 DEF HeaderRefused, HeaderEnds, ParseReturns, Returns
  <2> QED  BY <2>1 DEF Underway
<1>5. CASE BodyTooBig \/ BodyParsed \/ ChunksBegin
  <2>1. header_ended' = header_ended /\ pc = "body" /\ (pc' # "idle" => status' = status)
    BY <1>5 DEF BodyTooBig, BodyParsed, ChunksBegin, object, ParseReturns, Returns
  <2> QED  BY <2>1 DEF Underway, HttpInv, Limits
<1>6. CASE ChunkIncomplete \/ ChunkParsed \/ ChunkThrows \/ ChunksEnd
  <2>1. header_ended' = header_ended /\ pc = "chunks" /\ (pc' # "idle" => status' = status)
    BY <1>6 DEF ChunkIncomplete, ChunkParsed, ChunkThrows, ChunksEnd, object, ParseReturns, Returns
  <2> QED  BY <2>1 DEF Underway, HttpInv, Limits
<1> QED  BY <1>1, <1>2, <1>3, <1>4, <1>5, <1>6 DEF Next, Receive, Parse

--------------------------------------------------------------------------------
(* A message without a header.                                                 *)

\* The header never ends, or with it the receiving.
Unread == (header_ended => pc = "idle") /\ status # "Success"

\* A blank line that was found is one of the text.
LEMMA BlankFound ==
    ASSUME Typed, Holds(0, 0), header_end # npos
    PROVE  header_end \in Nat /\ 2 <= Len(body) /\ \E blank \in Blanks : At(Text, header_end, blank)
<1> DEFINE long == CRLF \o CRLF
           short == <<lf, lf>>
           l == find(body, long, 0)
           s == find(body, short, 0)
<1>1. /\ body \in Seq(Token) /\ Len(body) \in Nat /\ long \in Seq(Token) /\ short \in Seq(Token)
      /\ Len(long) = 4 /\ Len(short) = 2 /\ Blanks = {long, short}
      /\ Len(long) # 0 /\ Len(short) # 0 /\ 0 \in Nat
  BY PatternTypes, LenProperties DEF Typed, Blanks
<1>2. header_end = IF l # npos THEN l ELSE s
  BY DEF header_end
<1> HIDE DEF long, short
<1>3. l = npos \/ (l \in Nat /\ At(body, l, long))
  BY <1>1, FindFirst
<1>4. s = npos \/ (s \in Nat /\ At(body, s, short))
  BY <1>1, FindFirst
<1> HIDE DEF l, s
<1>5. PICK part \in Blanks : header_end \in Nat /\ At(body, header_end, part)
  BY <1>1, <1>2, <1>3, <1>4
<1>6. 0 + header_end = header_end /\ part \in Seq(Token) /\ Len(part) \in {2, 4}
  BY <1>1, <1>5
<1>7. At(Text, header_end, part)
  BY <1>5, <1>6, PartsRead
<1>8. header_end + Len(part) <= Len(body)
  BY <1>5 DEF At
<1>9. header_end \in Nat /\ 2 <= Len(body)
  <2>1. header_end \in Nat /\ Len(body) \in Nat
    BY <1>1, <1>5
  <2>2. Len(part) \in Nat /\ 2 <= Len(part)
    <3>1. Len(part) = 4 \/ Len(part) = 2
      <4>1. part = long \/ part = short
        BY <1>1, Zenon
      <4> QED  BY <1>1, <4>1, Zenon
    <3> QED  BY <3>1
  <2> QED  BY <1>8, <2>1, <2>2
<1> QED  BY <1>7, <1>9

LEMMA NothingToRead ==
    ASSUME Typed, Holds(0, 0), Unreadable(message), header_end # npos, ~NotHttp, ~TooBig
    PROVE  Malformed
<1>1. /\ header_end \in Nat /\ 2 <= Len(body) /\ Len(body) \in Nat /\ Len(body) = taken
      /\ DOMAIN body = 1..Len(body) /\ DOMAIN Text = 1..Len(Text) /\ Len(Text) \in Nat
      /\ taken <= Len(Text) /\ \A i \in 1..taken : body[i] = Text[i]
  <2>1. taken \in Nat /\ Len(Text) \in Nat /\ taken <= Len(Text)
    BY LenProperties DEF Typed
  <2>2. 0 + (taken - 0) = taken /\ taken - 0 = taken /\ \A i \in 1..taken : 0 + i = i
    BY <2>1
  <2> QED  BY <2>1, <2>2, BlankFound, LenProperties DEF Typed, Holds
<1>2. CASE \E i \in DOMAIN Text \cap 1..2 : Text[i] # <<start1, start2>>[i]
  <2>1. PICK i \in 1..2 : Text[i] # <<start1, start2>>[i]
    BY <1>2
  <2>2. i \in DOMAIN body \cap 1..2 /\ body[i] = Text[i]
    BY <1>1
  <2> QED  BY <1>1, <2>1, <2>2 DEF NotHttp
<1>3. CASE \A p \in 0..MaxHeaderSize, blank \in Blanks : ~At(Text, p, blank)
  <2>1. ~(header_end \in 0..MaxHeaderSize)
    BY <1>3, BlankFound
  <2>2. header_end > MaxHeaderSize
    BY <1>1, <2>1, HttpAssumption
  <2> QED  BY <2>2 DEF TooBig
<1>4. CASE \E end \in 0..Len(Text), blank \in Blanks :
             HeadedBy(Text, end, blank) /\ ContentLength(Before(Text, end)) = -1
  <2>1. PICK end \in 0..Len(Text), blank \in Blanks :
          HeadedBy(Text, end, blank) /\ ContentLength(Before(Text, end)) = -1
    BY <1>4
  <2>2. end \in Nat /\ taken \in Nat /\ Len(blank) \in {2, 4}
    BY <1>1, BlankTokens
  <2>3. ~(taken < Behind(end, blank))
    BY <2>1, <2>2, HeaderFound
  <2>4. Behind(end, blank) <= taken
    BY <2>2, <2>3 DEF Behind
  <2> QED  BY <2>1, <2>2, <2>4, HeaderTaken DEF Malformed
<1> QED  BY <1>2, <1>3, <1>4 DEF Unreadable, Text

LEMMA UnreadStep ==
    ASSUME HttpInv, Underway, Unreadable(message), Unread, Next
    PROVE  Unread'
<1>1. /\ pc = "body" => header_ended
      /\ pc = "chunks" => header_ended
      /\ pc = "header" => ~header_ended /\ Holds(0, 0) /\ Typed
  BY InvTyped DEF HttpInv, Limits, Underway
<1>2. CASE ReceiveBegin \/ ReceiveFails \/ PeerCloses \/ Over \/ Waits
  <2>1. /\ header_ended' = header_ended
        /\ status' \in {status, "Disconnected"} \cup Quiet
        /\ pc' \in {pc, "idle", "reading"}
    BY <1>2
    DEF ReceiveBegin, ReceiveFails, ReceiveResult, Returns, PeerCloses, Over, Waits, vars, object, Quiet
  <2>2. ReceiveBegin => ~header_ended
    BY DEF ReceiveBegin, HttpInv, Untouched, Quiet
  <2>3. pc' # pc => pc' = "idle" \/ ReceiveBegin
    BY <1>2
    DEF ReceiveFails, Returns, PeerCloses, Over, Waits, vars
  <2> QED  BY <2>1, <2>2, <2>3 DEF Unread, Quiet
<1>3. CASE ReceivePart
  BY <1>3 DEF ReceivePart, Unread
<1>4. CASE HeaderUnread
  <2>1. /\ pc = "header"
        /\ \/ pc' = "idle" /\ status' \in {"ParseError", "HttpHeaderTooBig"}
           \/ header_end = npos /\ status' = status
        /\ header_ended' = (~NotHttp /\ header_end # npos)
    BY <1>4 DEF HeaderUnread, ParseReturns, Returns
  <2> QED  BY <2>1 DEF Unread
<1>5. CASE HeaderRefused
  BY <1>5 DEF HeaderRefused, ParseReturns, Returns, Unread
<1>6. CASE HeaderEnds
  BY <1>1, <1>6, NothingToRead DEF HeaderEnds
<1>7. CASE BodyTooBig \/ BodyParsed \/ ChunksBegin
  BY <1>1, <1>7 DEF BodyTooBig, BodyParsed, ChunksBegin, Unread
<1>8. CASE ChunkIncomplete \/ ChunkParsed \/ ChunkThrows \/ ChunksEnd
  BY <1>1, <1>8 DEF ChunkIncomplete, ChunkParsed, ChunkThrows, ChunksEnd, Unread
<1> QED  BY <1>2, <1>3, <1>4, <1>5, <1>6, <1>7, <1>8 DEF Next, Receive, Parse

--------------------------------------------------------------------------------
(* A message with a header that ends behind its first `end` tokens.            *)

\* What the two properties say of the last result.
Outcome == ContentIntact /\ Accepted

\* The blank line has not been read while the header is waited for; what the header says is
\* remembered.
HeadInv(end, blank) ==
    /\ pc = "reading" /\ ~header_ended => taken < Behind(end, blank)
    /\ pc = "header" => taken < Behind(end, blank) + ChunkSize
    /\ header_ended /\ pc # "idle" =>
          /\ content_length = ContentLength(Before(Text, end))
          /\ encoded = Chunks(Before(Text, end))

\* The header of a message that is in order.
Begins(m, end, blank) ==
    /\ At(m.text, 0, <<start1, start2>>) /\ Behind(end, blank) - 1 <= MaxHeaderSize
    /\ ContentLength(Before(m.text, end)) # -1

LEMMA BehindType ==
    ASSUME NEW end \in Nat, NEW blank \in Blanks
    PROVE  Behind(end, blank) \in Nat /\ end + 2 <= Behind(end, blank)
<1>1. Len(blank) = 2 \/ Len(blank) = 4
  BY BlankTokens
<1> QED  BY <1>1 DEF Behind

\* While parse looks for the header, the body is what has been read.
LEMMA AtHeader ==
    ASSUME HttpInv, Underway, pc = "header"
    PROVE  Typed /\ Holds(0, 0) /\ ~header_ended /\ chunk_offset = 0
BY InvTyped DEF HttpInv, Limits, Offsets, Underway

\* A result that stays keeps the properties.
LEMMA OutcomeSame ==
    ASSUME HttpInv, Underway, Outcome, Next, status' = status
    PROVE  Outcome'
<1>1. CASE pc # "idle"
  <2>1. status' \in {"Unknown"} \cup Quiet
    BY <1>1 DEF Underway
  <2> QED  BY <2>1 DEF Outcome, ContentIntact, Accepted, Quiet
<1>2. CASE pc = "idle"
  <2>1. ReceiveBegin \/ PeerCloses \/ Over
    BY <1>2 DEF Next, Receive, Parse, ReceivePart, ReceiveFails, HeaderUnread, HeaderRefused, HeaderEnds,
                BodyTooBig, BodyParsed, ChunksBegin, ChunkIncomplete, ChunkParsed, ChunkThrows, ChunksEnd, Waits
  <2>2. UNCHANGED <<message, body>>
    BY <2>1 DEF ReceiveBegin, PeerCloses, Over, connection, object, vars
  <2> QED  BY <2>2 DEF Outcome, ContentIntact, Accepted
<1> QED  BY <1>1, <1>2

\* Steps outside of parse give no result that the properties speak of.
LEMMA OutcomeReceive ==
    ASSUME HttpInv, Underway, Outcome,
           ReceiveBegin \/ ReceiveFails \/ PeerCloses \/ Over \/ Waits \/ ReceivePart
    PROVE  Outcome'
<1>1. CASE ReceiveFails
  <2>1. status' \in Quiet \cup {"Disconnected"}
    BY <1>1 DEF ReceiveFails, ReceiveResult, Returns, Quiet
  <2> QED  BY <2>1 DEF Outcome, ContentIntact, Accepted, Quiet
<1>2. CASE ReceiveBegin \/ PeerCloses \/ Over \/ Waits \/ ReceivePart
  <2>1. status' = status /\ Next
    BY <1>2 DEF ReceiveBegin, PeerCloses, Over, Waits, ReceivePart, vars, Next, Receive
  <2> QED  BY <2>1, OutcomeSame
<1> QED  BY <1>1, <1>2

\* What HeaderEnds leaves.
LEMMA HeaderRead ==
    ASSUME HttpInv, Underway, NEW end \in Nat, NEW blank \in Blanks, HeadedBy(Text, end, blank), HeaderEnds
    PROVE  /\ Behind(end, blank) <= taken
           /\ Holds(0, Behind(end, blank))'
           /\ content_length' = ContentLength(Before(Text, end))
           /\ encoded' = Chunks(Before(Text, end))
           /\ ContentLength(Before(Text, end)) # -1
<1> DEFINE h == Behind(end, blank)
<1>1. /\ pc = "header" /\ header_end # npos /\ ~Malformed
      /\ content_length' = ContentLength(Header) /\ encoded' = Chunks(Header) /\ body' = AfterHeader
      /\ UNCHANGED <<message, taken>>
  BY DEF HeaderEnds, connection
<1>2. Typed /\ Holds(0, 0) /\ taken \in Nat /\ h \in Nat
  BY <1>1, AtHeader, InvTyped, BehindType
<1>3. h <= taken
  <2>1. ~(taken < h)
    BY <1>1, <1>2, HeaderFound
  <2> QED  BY <1>2, <2>1
<1>4. /\ Header = Before(Text, end)
      /\ Len(AfterHeader) = taken - h
      /\ \A i \in 1..taken - h : AfterHeader[i] = Text[h + i]
  BY <1>2, <1>3, HeaderTaken
<1>5. Holds(0, h)'
  <2>1. Text' = Text /\ taken' = taken /\ Len(body') = 0 + (taken - h)
    BY <1>1, <1>2, <1>4 DEF Text
  <2>2. \A i \in 1..taken - h : body'[0 + i] = Text[h + i]
    <3>1. \A i \in 1..taken - h : 0 + i = i
      BY <1>2
    <3> QED  BY <1>1, <1>4, <3>1
  <2> HIDE DEF h
  <2> QED  BY <1>3, <2>1, <2>2 DEF Holds
<1> QED  BY <1>1, <1>3, <1>4, <1>5 DEF Malformed

LEMMA HeadStep ==
    ASSUME HttpInv, Underway, NEW end \in Nat, NEW blank \in Blanks, HeadedBy(Text, end, blank),
           HeadInv(end, blank), Next
    PROVE  HeadInv(end, blank)'
<1> DEFINE h == Behind(end, blank)
<1>1. h \in Nat /\ 2 <= h /\ taken \in Nat /\ ChunkSize \in Nat
  BY BehindType, InvTyped
<1>2. CASE ReceiveBegin
  <2>1. /\ pc = "idle" /\ status \in {"Unknown"} \cup Quiet /\ pc' = "reading"
        /\ UNCHANGED <<message, taken, header_ended>>
    BY <1>2 DEF ReceiveBegin, connection, object
  <2>2. taken = 0 /\ ~header_ended
    BY <2>1 DEF HttpInv, Untouched
  <2> QED  BY <1>1, <2>1, <2>2 DEF HeadInv
<1>3. CASE ReceiveFails
  BY <1>3 DEF ReceiveFails, Returns, HeadInv
<1>4. CASE PeerCloses \/ Over \/ Waits
  BY <1>4 DEF PeerCloses, Over, Waits, HeadInv, vars, connection, object, Text
<1>5. CASE ReceivePart
  <2>1. PICK n \in 1..ChunkSize : taken' = taken + n
    BY <1>5 DEF ReceivePart
  <2>2. /\ pc = "reading" /\ pc' = IF header_ended THEN "body" ELSE "header"
        /\ UNCHANGED <<message, header_ended, content_length, encoded>>
    BY <1>5 DEF ReceivePart
  <2>3. ~header_ended => taken' < h + ChunkSize
    BY <1>1, <2>1, <2>2 DEF HeadInv
  <2> QED  BY <2>2, <2>3 DEF HeadInv, Text
<1>6. CASE HeaderUnread
  <2>1. /\ pc = "header" /\ UNCHANGED <<message, taken>>
        /\ pc' = "idle" \/ (pc' = "reading" /\ header_end = npos)
        /\ header_ended' => header_end # npos
    BY <1>6 DEF HeaderUnread, ParseReturns, Returns, connection
  <2>2. header_end = npos => taken < h
    <3>1. ~(h <= taken) \/ header_end = end
      BY <2>1, AtHeader, HeaderFound
    <3>2. end # npos
      BY DEF npos
    <3> QED  BY <1>1, <3>1, <3>2
  <2> QED  BY <2>1, <2>2 DEF HeadInv
<1>7. CASE HeaderRefused
  BY <1>7 DEF HeaderRefused, ParseReturns, Returns, HeadInv
<1>8. CASE HeaderEnds
  <2>1. pc' = "body" /\ UNCHANGED message
    BY <1>8 DEF HeaderEnds, connection
  <2> QED  BY <1>8, <2>1, HeaderRead DEF HeadInv, Text
<1>9. CASE \/ BodyTooBig \/ BodyParsed \/ ChunksBegin
           \/ ChunkIncomplete \/ ChunkParsed \/ ChunkThrows \/ ChunksEnd
  <2>1. /\ pc \in {"body", "chunks"} /\ pc' # "header"
        /\ UNCHANGED <<message, taken, header_ended, content_length, encoded>>
    BY <1>9 DEF BodyTooBig, BodyParsed, ChunksBegin, ChunkIncomplete, ChunkParsed, ChunkThrows,
                ChunksEnd, ParseReturns, Returns, connection, object
  <2>2. header_ended
    BY <2>1 DEF HttpInv, Limits
  <2> QED  BY <2>1, <2>2 DEF HeadInv, Text
<1> QED  BY <1>2, <1>3, <1>4, <1>5, <1>6, <1>7, <1>8, <1>9 DEF Next, Receive, Parse

\* parse finds nothing wrong with a header that is in order.
LEMMA HeaderInOrder ==
    ASSUME Typed, Holds(0, 0), NEW end \in Nat, NEW blank \in Blanks, HeadedBy(Text, end, blank),
           Begins(message, end, blank)
    PROVE  ~NotHttp /\ ~TooBig /\ (header_end # npos => ~Malformed)
<1> DEFINE h == Behind(end, blank)
<1>1. /\ taken \in Nat /\ Len(Text) \in Nat /\ taken <= Len(Text) /\ Len(body) = taken
      /\ DOMAIN body = 1..taken /\ \A i \in 1..taken : body[i] = Text[i]
  <2>1. taken \in Nat /\ Len(Text) \in Nat /\ taken <= Len(Text)
    BY LenProperties DEF Typed
  <2>2. 0 + (taken - 0) = taken /\ taken - 0 = taken /\ \A i \in 1..taken : 0 + i = i
    BY <2>1
  <2> QED  BY <2>1, <2>2, LenProperties DEF Typed, Holds
<1>2. h \in Nat /\ end + 2 <= h /\ h - 1 <= MaxHeaderSize /\ MaxHeaderSize \in Nat
  BY BehindType, HttpAssumption DEF Begins
<1>3. ~NotHttp
  <2>1. At(Text, 0, <<start1, start2>>)
    BY DEF Begins, Text
  <2>2. \A i \in 1..2 : Text[i] = <<start1, start2>>[i]
    <3> DEFINE both == <<start1, start2>>
    <3>1. DOMAIN both = 1..2
      OBVIOUS
    <3> HIDE DEF both
    <3>2. \A i \in 1..2 : Text[0 + i] = both[i]
      BY <2>1, <3>1 DEF At, both
    <3> QED  BY <3>2 DEF both
  <2>3. \A i \in DOMAIN body \cap 1..2 : body[i] = <<start1, start2>>[i]
    BY <1>1, <2>2
  <2> QED  BY <2>3 DEF NotHttp
<1>4. CASE taken < h
  <2>1. header_end = npos
    BY <1>4, HeaderFound
  <2>2. ~(Len(body) > MaxHeaderSize) /\ ~(npos > MaxHeaderSize)
    BY <1>1, <1>2, <1>4 DEF npos
  <2> QED  BY <1>3, <2>1, <2>2 DEF TooBig
<1>5. CASE h <= taken
  <2>1. header_end = end /\ Header = Before(Text, end)
    BY <1>5, HeaderFound, HeaderTaken
  <2>2. end # npos /\ ~(end > MaxHeaderSize)
    BY <1>2 DEF npos
  <2> QED  BY <1>3, <2>1, <2>2 DEF TooBig, Malformed, Begins, Text
<1> QED  BY <1>1, <1>2, <1>4, <1>5

\* So the steps over the header keep the properties.
LEMMA OutcomeHeader ==
    ASSUME HttpInv, Underway, Outcome, NEW end \in Nat, NEW blank \in Blanks, HeadedBy(Text, end, blank),
           message.ok => Begins(message, end, blank),
           HeaderUnread \/ HeaderRefused \/ HeaderEnds
    PROVE  Outcome'
<1>1. Typed /\ Holds(0, 0) /\ UNCHANGED message /\ Next
  BY AtHeader DEF HeaderUnread, HeaderRefused, HeaderEnds, connection, Next, Receive, Parse
<1>2. CASE ~message.ok
  <2>1. status' = status \/ status' \in {"ParseError", "HttpHeaderTooBig"}
    BY DEF HeaderUnread, HeaderRefused, HeaderEnds, ParseReturns, Returns
  <2> QED  BY <1>1, <1>2, <2>1, OutcomeSame DEF Outcome, ContentIntact, Accepted
<1>3. CASE message.ok
  <2>1. ~NotHttp /\ ~TooBig /\ (header_end # npos => ~Malformed)
    BY <1>1, <1>3, HeaderInOrder
  <2>2. status' = status
    BY <2>1 DEF HeaderUnread, HeaderRefused, HeaderEnds, ParseReturns
  <2> QED  BY <1>1, <2>2, OutcomeSame
<1> QED  BY <1>2, <1>3

--------------------------------------------------------------------------------
(* A body with a length, or without one.                                       *)

\* A message whose body is not in chunks, in order or short.
BodyMessage(m, end, blank) ==
    /\ HeadedBy(m.text, end, blank) /\ ~IsChunked(m, end)
    /\ IF m.ok
       THEN /\ Begins(m, end, blank) /\ m.content \in Seq(Token)
            /\ WholeBody(m, Behind(end, blank), ContentLength(Before(m.text, end)))
       ELSE ShortBody(m, Behind(end, blank), ContentLength(Before(m.text, end)))

\* Behind the header the body is what has been read there; what is waited for is less than
\* the length.
BodyInv(end, blank) ==
    header_ended /\ pc # "idle" =>
        /\ pc # "chunks" /\ Holds(0, Behind(end, blank))
        /\ pc = "reading" => taken - Behind(end, blank) < ContentLength(Before(Text, end))
        /\ pc = "body" => taken - Behind(end, blank) < ContentLength(Before(Text, end)) + ChunkSize

\* The length promised is a number, once the header has been read.
LEMMA LengthType ==
    ASSUME Typed, NEW end \in Nat, end <= Len(Text)
    PROVE  ContentLength(Before(Text, end)) \in Nat \cup {-1}
<1>1. Before(Text, end) \in Seq(Token)
  <2>1. end \in Int /\ 1 \in Int /\ 1 <= 1
    OBVIOUS
  <2> QED  BY <2>1, PartType DEF Before, Typed
<1> QED  BY <1>1, ContentLengthType

\* The body that is all there is the content.
LEMMA BodyIsContent ==
    ASSUME HttpInv, NEW h \in Nat, NEW n \in Nat, Holds(0, h), WholeBody(message, h, n),
           message.content \in Seq(Token), n <= Len(body)
    PROVE  message.content =
             IF ~IsRequest /\ n > 0 /\ Len(body) > n THEN SubSeq(body, 1, n) ELSE body
<1>1. /\ body \in Seq(Token) /\ Text \in Seq(Token) /\ taken \in Nat /\ Len(Text) \in Nat
      /\ Len(body) \in Nat /\ taken <= Len(Text)
  BY InvTyped DEF Typed
<1>2. h <= taken /\ Len(body) = taken - h /\ \A i \in 1..taken - h : body[i] = Text[h + i]
  <2>1. /\ h <= taken /\ Len(body) = 0 + (taken - h)
        /\ \A i \in 1..taken - h : body[0 + i] = Text[h + i]
    BY DEF Holds
  <2>2. \A i \in 1..taken - h : 0 + i = i
    BY <1>1
  <2> QED  BY <1>1, <2>1, <2>2
<1>3. /\ h + n <= Len(Text) /\ message.content = SubSeq(Text, h + 1, h + n)
      /\ IsRequest \/ n = 0 => Len(Text) = h + n
  BY DEF WholeBody, Text, IsRequest
<1> DEFINE content == message.content
           m == h + 1
           l == h + n
<1>4. Len(content) = n /\ \A i \in 1..n : content[i] = Text[h + i]
  <2>1. m \in Int /\ l \in Int /\ l - m + 1 = n /\ (~(m <= l) => n = 0) /\ \A i \in 1..n : m + i - 1 = h + i
    BY <1>3
  <2>2. \A i \in m..l : Text[i] \in Token
    <3>1. ASSUME NEW i \in m..l PROVE i \in 1..Len(Text)
      BY <1>1, <1>3
    <3> QED  BY <1>1, <3>1, ElementOfSeq
  <2>3. /\ Len(SubSeq(Text, m, l)) = IF m <= l THEN l - m + 1 ELSE 0
        /\ \A i \in 1..l - m + 1 : SubSeq(Text, m, l)[i] = Text[m + i - 1]
    BY <2>1, <2>2, SubSeqProperties
  <2>4. content = SubSeq(Text, m, l)
    BY <1>3
  <2> HIDE DEF content, m, l
  <2> QED  BY <2>1, <2>3, <2>4
<1>5. \A i \in 1..n : i \in 1..taken - h
  BY <1>1, <1>2
<1>6. \A i \in 1..n : content[i] = body[i]
  BY <1>2, <1>4, <1>5
<1> HIDE DEF content
<1>7. CASE Len(body) = n
  <2>1. content = body
    BY <1>1, <1>4, <1>6, <1>7, SeqEqual DEF content
  <2> QED  BY <1>1, <1>7, <2>1 DEF content
<1>8. CASE Len(body) # n
  <2>1. Len(body) > n /\ ~IsRequest /\ n > 0
    BY <1>1, <1>2, <1>3, <1>8
  <2>2. \A i \in 1..n : body[i] \in Token
    BY <1>1, <2>1, ElementOfSeq
  <2>3. /\ SubSeq(body, 1, n) \in Seq(Token)
        /\ Len(SubSeq(body, 1, n)) = IF 1 <= n THEN n - 1 + 1 ELSE 0
        /\ \A i \in 1..n - 1 + 1 : SubSeq(body, 1, n)[i] = body[1 + i - 1]
    BY <2>2, SubSeqProperties
  <2> DEFINE part == SubSeq(body, 1, n)
  <2>4. Len(part) = n /\ \A i \in 1..n : part[i] = body[i]
    <3>1. n - 1 + 1 = n /\ \A i \in 1..n : 1 + i - 1 = i
      OBVIOUS
    <3> HIDE DEF part
    <3> QED  BY <2>1, <2>3, <3>1 DEF part
  <2>5. part \in Seq(Token)
    BY <2>3
  <2> HIDE DEF part
  <2>6. content = part
    BY <1>4, <1>6, <2>4, <2>5, SeqEqual DEF content
  <2> QED  BY <2>1, <2>6 DEF content, part
<1> QED  BY <1>7, <1>8

LEMMA BodyStep ==
    ASSUME HttpInv, Underway, Outcome, NEW end \in Nat, NEW blank \in Blanks,
           BodyMessage(message, end, blank), HeadInv(end, blank), BodyInv(end, blank), Next
    PROVE  BodyInv(end, blank)' /\ Outcome'
<1> DEFINE h == Behind(end, blank)
           n == ContentLength(Before(Text, end))
<1>1. /\ h \in Nat /\ end + 2 <= h /\ taken \in Nat /\ ChunkSize \in Nat /\ Len(Text) \in Nat
      /\ taken <= Len(Text) /\ Typed /\ HeadedBy(Text, end, blank) /\ MaxBodySize \in Nat
      /\ body \in Seq(Token) /\ Len(body) \in Nat
  <2>1. h \in Nat /\ end + 2 <= h
    BY BehindType
  <2>2. HeadedBy(Text, end, blank)
    BY DEF BodyMessage, Text
  <2> HIDE DEF h
  <2> QED  BY <2>1, <2>2, InvTyped, HttpAssumption DEF Typed
<1>2. n \in Nat \cup {-1}
  <2>1. end + Len(blank) <= Len(Text)
    BY <1>1 DEF HeadedBy, At
  <2>2. end <= Len(Text)
    BY <1>1, <2>1 DEF Behind
  <2> QED  BY <1>1, <2>2, LengthType
<1>3. message.ok => Begins(message, end, blank)
  BY DEF BodyMessage
<1> HIDE DEF h
<1>4. ASSUME pc = "body"
      PROVE  /\ header_ended /\ Holds(0, h) /\ taken - h < n + ChunkSize /\ h <= taken
             /\ Len(body) = taken - h /\ content_length = n /\ (encoded <=> Chunks(Before(Text, end)))
  <2>1. header_ended
    BY <1>4 DEF HttpInv, Limits
  <2>2. Holds(0, h) /\ taken - h < n + ChunkSize
    BY <1>4, <2>1 DEF BodyInv, h
  <2>3. h <= taken /\ Len(body) = taken - h
    <3>1. h <= taken /\ Len(body) = 0 + (taken - h)
      BY <2>2 DEF Holds
    <3> QED  BY <1>1, <3>1
  <2> QED  BY <1>4, <2>1, <2>2, <2>3 DEF HeadInv
<1>5. pc # "chunks"
  BY DEF HttpInv, Limits, BodyInv
<1>6. CASE ReceiveBegin
  <2>1. pc = "idle" /\ status \in {"Unknown"} \cup Quiet /\ header_ended' = header_ended
    BY <1>6 DEF ReceiveBegin, object
  <2>2. ~header_ended'
    BY <2>1 DEF HttpInv, Untouched
  <2> QED  BY <1>6, <2>2, OutcomeReceive DEF BodyInv
<1>7. CASE ReceiveFails \/ PeerCloses \/ Over \/ Waits
  <2>1. UNCHANGED <<message, taken, body, header_ended>> /\ pc' \in {pc, "idle"}
    BY <1>7 DEF ReceiveFails, Returns, PeerCloses, Over, Waits, vars, connection, object
  <2>2. Text' = Text
    BY <2>1 DEF Text
  <2>3. BodyInv(end, blank)'
    <3> SUFFICES ASSUME header_ended', pc' # "idle"
                 PROVE  /\ pc' # "chunks" /\ Holds(0, h)'
                        /\ pc' = "reading" => taken' - h < n
                        /\ pc' = "body" => taken' - h < n + ChunkSize
      BY <2>2 DEF BodyInv, h
    <3>1. header_ended /\ pc' = pc /\ pc # "idle"
      BY <2>1
    <3>2. Holds(0, h)'
      BY <2>1, <3>1, HoldsSame DEF BodyInv, h
    <3> QED  BY <2>1, <3>1, <3>2 DEF BodyInv, h
  <2> QED  BY <1>7, <2>3, OutcomeReceive
<1>8. CASE ReceivePart
  <2>1. PICK k \in 1..ChunkSize : taken' = taken + k
    BY <1>8 DEF ReceivePart
  <2>2. /\ pc = "reading" /\ pc' = IF header_ended THEN "body" ELSE "header"
        /\ UNCHANGED <<message, header_ended>>
    BY <1>8 DEF ReceivePart
  <2>3. Text' = Text
    BY <2>2 DEF Text
  <2>4. ASSUME header_ended PROVE Holds(0, h)' /\ taken' - h < n + ChunkSize
    <3>1. Holds(0, h) /\ taken - h < n
      BY <2>2, <2>4 DEF BodyInv, h
    <3>2. Holds(0, h)'
      BY <1>1, <1>8, <3>1, HoldsPart
    <3> QED  BY <1>1, <1>2, <2>1, <3>1, <3>2
  <2>5. BodyInv(end, blank)'
    BY <2>2, <2>3, <2>4 DEF BodyInv, h
  <2> QED  BY <1>8, <2>5, OutcomeReceive
<1>9. CASE HeaderUnread \/ HeaderRefused
  <2>1. pc' = "idle" \/ ~header_ended'
    BY <1>9 DEF HeaderUnread, HeaderRefused, ParseReturns, Returns
  <2> QED  BY <1>1, <1>3, <1>9, <2>1, OutcomeHeader DEF BodyInv
<1>10. CASE HeaderEnds
  <2>1. pc = "header" /\ pc' = "body" /\ UNCHANGED <<message, taken>>
    BY <1>10 DEF HeaderEnds, connection
  <2>2. h <= taken /\ Holds(0, h)' /\ n # -1
    BY <1>1, <1>10, HeaderRead DEF h
  <2>3. taken < h + ChunkSize
    BY <2>1 DEF HeadInv, h
  <2>4. taken' - h < n + ChunkSize
    BY <1>1, <1>2, <2>1, <2>2, <2>3
  <2>5. BodyInv(end, blank)'
    <3>1. Text' = Text
      BY <2>1 DEF Text
    <3> QED  BY <2>1, <2>2, <2>4, <3>1 DEF BodyInv, h
  <2> QED  BY <1>1, <1>3, <1>10, <2>5, OutcomeHeader
<1>11. CASE BodyTooBig
  <2>1. pc = "body" /\ Len(body) > MaxBodySize /\ pc' = "idle" /\ status' = "HttpBodyTooBig" /\ message' = message
    BY <1>11 DEF BodyTooBig, ParseReturns, Returns, connection
  <2>2. ~message.ok
    <3> SUFFICES ASSUME message.ok PROVE FALSE
      OBVIOUS
    <3>1. WholeBody(message, h, n) /\ n # -1
      BY DEF BodyMessage, Begins, h, Text
    <3>2. Len(Text) - h <= MaxBodySize \/ n - 1 + ChunkSize <= MaxBodySize
      BY <3>1 DEF WholeBody, Text
    <3> QED  BY <1>1, <1>2, <1>4, <2>1, <3>1, <3>2
  <2> QED  BY <2>1, <2>2 DEF BodyInv, Outcome, ContentIntact, Accepted
<1>12. CASE BodyParsed
  <2>1. /\ pc = "body" /\ Len(body) <= MaxBodySize
        /\ IF Len(body) < content_length THEN pc' = "reading" /\ status' = status
           ELSE pc' = "idle" /\ status' = "Success"
        /\ body' = IF ~IsRequest /\ content_length > 0 /\ Len(body) > content_length
                   THEN SubSeq(body, 1, content_length) ELSE body
        /\ UNCHANGED <<message, taken, header_ended>>
    BY <1>12 DEF BodyParsed, ParseReturns, Returns, connection
  <2>2. Text' = Text /\ content_length \in Nat /\ n \in Nat
    BY <1>4, <2>1 DEF Text, HttpInv, TypeOK
  <2>3. CASE Len(body) < content_length
    <3>1. pc' = "reading" /\ status' = status /\ body' = body
      BY <1>1, <2>1, <2>2, <2>3
    <3>2. Holds(0, h)'
      BY <1>4, <2>1, <3>1, HoldsSame
    <3>3. taken' - h < n
      BY <1>4, <2>1, <2>3
    <3>4. Outcome'
      BY <1>12, <3>1, OutcomeSame DEF Next, Receive, Parse
    <3> QED  BY <2>2, <3>1, <3>2, <3>3, <3>4 DEF BodyInv, h
  <2>4. CASE ~(Len(body) < content_length)
    <3>1. pc' = "idle" /\ status' = "Success" /\ n <= Len(body)
      BY <1>1, <1>4, <2>1, <2>2, <2>4
    <3>2. message.ok
      <4> SUFFICES ASSUME ~message.ok PROVE FALSE
        OBVIOUS
      <4>1. n > Len(Text) - h \/ n > MaxBodySize
        BY DEF BodyMessage, ShortBody, h, Text
      <4> QED  BY <1>1, <1>4, <2>1, <2>2, <3>1, <4>1
    <3>3. WholeBody(message, h, n) /\ message.content \in Seq(Token)
      BY <3>2 DEF BodyMessage, h, Text
    <3>4. body' = message.content
      BY <1>1, <1>4, <2>1, <2>2, <3>1, <3>3, BodyIsContent
    <3> QED  BY <2>1, <3>1, <3>2, <3>4 DEF BodyInv, Outcome, ContentIntact, Accepted
  <2> QED  BY <2>3, <2>4
<1>13. CASE ChunksBegin
  <2>1. pc = "body" /\ ~IsRequest /\ encoded
    BY <1>13 DEF ChunksBegin
  <2>2. Chunks(Before(Text, end))
    BY <1>4, <2>1
  <2> QED  BY <2>1, <2>2 DEF BodyMessage, IsChunked, IsRequest, Text
<1>14. CASE ChunkIncomplete \/ ChunkParsed \/ ChunkThrows \/ ChunksEnd
  BY <1>5, <1>14 DEF ChunkIncomplete, ChunkParsed, ChunkThrows, ChunksEnd
<1> QED  BY <1>6, <1>7, <1>8, <1>9, <1>10, <1>11, <1>12, <1>13, <1>14 DEF Next, Receive, Parse

--------------------------------------------------------------------------------
(* A body in chunks.                                                           *)

\* The text behind p begins with a line that says s.
SizeLine(p, s) == At(Text, p, <<size(s)>> \o CRLF)

LEMMA SizeLineTokens ==
    ASSUME NEW p \in Nat, NEW s \in Nat, SizeLine(p, s)
    PROVE  /\ p + 3 <= Len(Text)
           /\ Text[p + 1] = size(s) /\ Text[p + 2] = cr /\ Text[p + 3] = lf
           /\ size(s)[1] = "size" /\ size(s)[2] = s /\ size(s) # cr
<1> DEFINE line == <<size(s)>> \o CRLF
<1>1. size(s)[1] = "size" /\ size(s)[2] = s /\ size(s) # cr
  BY DEF size, cr
<1>2. Len(line) = 3 /\ DOMAIN line = 1..3 /\ line[1] = size(s) /\ line[2] = cr /\ line[3] = lf
  <2> DEFINE first == <<size(s)>>
  <2>1. size(s) \in Token
    BY DEF size, Token
  <2>2. first \in Seq(Token) /\ Len(first) = 1 /\ first[1] = size(s)
    <3> HIDE DEF size
    <3> QED  BY <2>1
  <2>3. CRLF \in Seq(Token) /\ Len(CRLF) = 2 /\ CRLF[1] = cr /\ CRLF[2] = lf
    BY PatternTypes DEF CRLF
  <2> HIDE DEF first
  <2>4. /\ first \o CRLF \in Seq(Token) /\ Len(first \o CRLF) = 1 + 2
        /\ \A i \in 1..1 + 2 : (first \o CRLF)[i] = IF i <= 1 THEN first[i] ELSE CRLF[i - 1]
    BY <2>2, <2>3, ConcatProperties
  <2>5. line = first \o CRLF
    BY DEF first
  <2> HIDE DEF line
  <2>6. Len(line) = 3 /\ line[1] = first[1] /\ line[2] = CRLF[1] /\ line[3] = CRLF[2]
    BY <2>4, <2>5
  <2>7. DOMAIN line = 1..3
    BY <2>4, <2>5, <2>6, LenProperties
  <2> QED  BY <2>2, <2>3, <2>6, <2>7
<1> HIDE DEF line
<1>3. At(Text, p, line)
  BY DEF SizeLine, line
<1>4. p + 3 <= Len(Text) /\ \A i \in 1..3 : Text[p + i] = line[i]
  BY <1>2, <1>3 DEF At
<1> QED  BY <1>1, <1>2, <1>4

\* Where the loop over the chunks stands.
Stands(p) ==
    /\ HttpInv /\ pc = "chunks" /\ p \in Nat /\ Holds(chunk_offset, p)

LEMMA StandsFacts ==
    ASSUME NEW p, Stands(p)
    PROVE  /\ Typed /\ p \in Nat /\ chunk_offset \in Nat /\ taken \in Nat /\ Len(Text) \in Nat
           /\ body \in Seq(Token) /\ Len(body) \in Nat /\ taken <= Len(Text) /\ p <= taken
           /\ Len(body) = chunk_offset + (taken - p) /\ Len(body) <= MaxBodySize
           /\ chunk_len \in Nat /\ MaxBodySize \in Nat /\ UIntSize \in Nat
           /\ \A i \in 1..taken - p : body[chunk_offset + i] = Text[p + i]
<1>1. HttpInv /\ pc = "chunks" /\ p \in Nat /\ Holds(chunk_offset, p)
  BY DEF Stands
<1>2. chunk_offset \in Nat /\ chunk_len \in Nat /\ Len(body) <= MaxBodySize
  BY <1>1, InvTyped, HttpAssumption DEF HttpInv, TypeOK, Limits
<1>3. /\ p <= taken /\ Len(body) = chunk_offset + (taken - p)
      /\ \A i \in 1..taken - p : body[chunk_offset + i] = Text[p + i]
  BY <1>1 DEF Holds
<1>4. /\ Typed /\ taken \in Nat /\ Len(Text) \in Nat /\ body \in Seq(Token) /\ Len(body) \in Nat
      /\ taken <= Len(Text) /\ MaxBodySize \in Nat /\ UIntSize \in Nat
  BY <1>1, InvTyped, HttpAssumption DEF Typed
<1> QED  BY <1>1, <1>2, <1>3, <1>4

\* The end of the line that is found is one of the text.
LEMMA LineFound ==
    ASSUME NEW p, Stands(p)
    PROVE  \/ /\ length_end = npos
              /\ \A q \in Nat : At(Text, p + q, CRLF) => taken < p + q + 2
           \/ /\ length_end \in Nat /\ chunk_offset <= length_end
              /\ At(Text, p + (length_end - chunk_offset), CRLF)
              /\ p + (length_end - chunk_offset) + 2 <= taken
              /\ \A q \in Nat : At(Text, p + q, CRLF) /\ p + q + 2 <= taken => length_end - chunk_offset <= q
<1>1. /\ Typed /\ p \in Nat /\ chunk_offset \in Nat /\ taken \in Nat /\ body \in Seq(Token)
      /\ Holds(chunk_offset, p) /\ CRLF \in Seq(Token) /\ Len(CRLF) = 2 /\ Len(CRLF) # 0
  BY StandsFacts, PatternTypes DEF Stands
<1>2. ASSUME NEW q \in Nat
      PROVE  At(body, chunk_offset + q, CRLF) <=> At(Text, p + q, CRLF) /\ p + q + 2 <= taken
  BY <1>1, PartsRead
<1>3. \/ /\ length_end = npos
         /\ \A r \in Nat : chunk_offset <= r => ~At(body, r, CRLF)
      \/ /\ length_end \in Nat /\ chunk_offset <= length_end /\ At(body, length_end, CRLF)
         /\ \A r \in Nat : chunk_offset <= r /\ r < length_end => ~At(body, r, CRLF)
  BY <1>1, FindFirst DEF length_end
<1>4. CASE length_end = npos /\ \A r \in Nat : chunk_offset <= r => ~At(body, r, CRLF)
  <2>1. ASSUME NEW q \in Nat, At(Text, p + q, CRLF) PROVE taken < p + q + 2
    <3>1. chunk_offset + q \in Nat /\ chunk_offset <= chunk_offset + q
      BY <1>1
    <3>2. ~(p + q + 2 <= taken)
      BY <1>2, <1>4, <2>1, <3>1
    <3> QED  BY <1>1, <3>2
  <2> QED  BY <1>4, <2>1
<1>5. CASE /\ length_end \in Nat /\ chunk_offset <= length_end /\ At(body, length_end, CRLF)
           /\ \A r \in Nat : chunk_offset <= r /\ r < length_end => ~At(body, r, CRLF)
  <2> DEFINE l == length_end - chunk_offset
  <2>1. l \in Nat /\ chunk_offset + l = length_end
    BY <1>1, <1>5
  <2> HIDE DEF l
  <2>2. At(Text, p + l, CRLF) /\ p + l + 2 <= taken
    BY <1>2, <1>5, <2>1
  <2>3. ASSUME NEW q \in Nat, At(Text, p + q, CRLF), p + q + 2 <= taken PROVE l <= q
    <3>1. At(body, chunk_offset + q, CRLF)
      BY <1>2, <2>3
    <3>2. ~(chunk_offset + q < length_end)
      <4>1. chunk_offset + q \in Nat /\ chunk_offset <= chunk_offset + q
        BY <1>1
      <4> QED  BY <1>5, <3>1, <4>1
    <3> QED  BY <1>1, <2>1, <3>2
  <2> QED  BY <1>5, <2>2, <2>3 DEF l
<1> QED  BY <1>3, <1>4, <1>5

\* The size is what stands between the offset and the end of the line.
LEMMA SizeRead ==
    ASSUME NEW p, Stands(p), length_end \in Nat, chunk_offset <= length_end,
           p + (length_end - chunk_offset) + 2 <= taken
    PROVE  /\ hex_length \in Seq(Token) /\ Len(hex_length) = length_end - chunk_offset
           /\ length_end = chunk_offset => hex_length = <<>>
           /\ chunk_offset < length_end => hex_length # <<>> /\ hex_length[1] = Text[p + 1]
<1>1. /\ p \in Nat /\ chunk_offset \in Nat /\ taken \in Nat /\ body \in Seq(Token) /\ Len(body) \in Nat
      /\ Len(body) = chunk_offset + (taken - p) /\ p <= taken
      /\ \A i \in 1..taken - p : body[chunk_offset + i] = Text[p + i]
  BY StandsFacts
<1> DEFINE m == chunk_offset + 1
           l == length_end
<1>2. /\ m \in Int /\ l \in Int /\ l <= Len(body) /\ l - m + 1 = l - chunk_offset
      /\ m <= l <=> chunk_offset < l
  BY <1>1
<1>3. \A i \in m..l : body[i] \in Token
  <2>1. ASSUME NEW i \in m..l PROVE i \in 1..Len(body)
    BY <1>1, <1>2
  <2> QED  BY <1>1, <2>1, ElementOfSeq
<1>4. hex_length = SubSeq(body, m, l)
  BY DEF hex_length
<1> HIDE DEF m, l
<1>5. /\ hex_length \in Seq(Token)
      /\ Len(hex_length) = IF m <= l THEN l - m + 1 ELSE 0
      /\ \A i \in 1..l - m + 1 : hex_length[i] = body[m + i - 1]
  BY <1>2, <1>3, <1>4, SubSeqProperties
<1>6. Len(hex_length) = length_end - chunk_offset
  BY <1>1, <1>2, <1>5 DEF l
<1>7. CASE length_end = chunk_offset
  BY <1>1, <1>5, <1>6, <1>7, EmptySeq
<1>8. CASE chunk_offset < length_end
  <2>1. 1 \in 1..l - m + 1 /\ m + 1 - 1 = chunk_offset + 1 /\ 1 \in 1..taken - p
    BY <1>1, <1>8 DEF l, m
  <2>2. hex_length[1] = Text[p + 1]
    BY <1>1, <1>5, <2>1
  <2>3. Len(hex_length) # 0
    BY <1>1, <1>6, <1>8
  <2> QED  BY <1>5, <1>6, <1>8, <2>2, <2>3, EmptySeq
<1> QED  BY <1>5, <1>6, <1>7, <1>8

\* A line with a size is read when all of it is there, and not before.
LEMMA SizeLineRead ==
    ASSUME NEW p, Stands(p), NEW s \in Nat, SizeLine(p, s)
    PROVE  /\ taken < p + 3 => length_end = npos
           /\ p + 3 <= taken => /\ length_end = chunk_offset + 1 /\ length_end # npos
                                /\ Len(hex_length) = 1 /\ ~Throws
                                /\ ChunkLength = s % UIntSize
<1>1. /\ p \in Nat /\ chunk_offset \in Nat /\ taken \in Nat
      /\ p + 3 <= Len(Text) /\ Len(Text) \in Nat
      /\ Text[p + 1] = size(s) /\ Text[p + 2] = cr /\ Text[p + 3] = lf
      /\ size(s)[1] = "size" /\ size(s)[2] = s /\ size(s) # cr
  BY StandsFacts, SizeLineTokens
<1>2. ~At(Text, p, CRLF)
  <2>1. At(Text, p, CRLF) => Text[p + 1] = cr
    <3>1. DOMAIN <<cr, lf>> = 1..2 /\ <<cr, lf>>[1] = cr /\ 1 \in 1..2
      OBVIOUS
    <3> QED  BY <3>1, BlankTokens DEF At
  <2> QED  BY <1>1, <2>1
<1>3. At(Text, p + 1, CRLF)
  <2>1. p + 1 + 2 <= Len(Text) /\ p + 1 + 1 = p + 2 /\ p + 1 + 2 = p + 3
    BY <1>1
  <2>2. CRLF = <<cr, lf>> /\ Len(CRLF) = 2 /\ DOMAIN CRLF = 1..2 /\ CRLF[1] = cr /\ CRLF[2] = lf
    BY BlankTokens, PatternTypes
  <2>3. \A i \in 1..2 : Text[p + 1 + i] = CRLF[i]
    BY <1>1, <2>1, <2>2
  <2> QED  BY <2>1, <2>2, <2>3 DEF At
<1>4. CASE taken < p + 3
  <2>1. ASSUME length_end # npos PROVE FALSE
    <3> DEFINE l == length_end - chunk_offset
    <3>1. length_end \in Nat /\ chunk_offset <= length_end /\ At(Text, p + l, CRLF) /\ p + l + 2 <= taken
      BY <2>1, LineFound
    <3>2. l = 0
      BY <1>1, <1>4, <3>1
    <3>3. p + l = p
      BY <1>1, <3>2
    <3> QED  BY <1>2, <3>1, <3>3
  <2> QED  BY <1>1, <1>4, <2>1
<1>5. CASE p + 3 <= taken
  <2>1. 1 \in Nat /\ p + 1 + 2 <= taken /\ ~(taken < p + 1 + 2)
    BY <1>1, <1>5
  <2>2. length_end # npos
    BY <1>3, <2>1, LineFound DEF npos
  <2> DEFINE l == length_end - chunk_offset
  <2>3. /\ length_end \in Nat /\ chunk_offset <= length_end /\ At(Text, p + l, CRLF)
        /\ p + l + 2 <= taken /\ l <= 1
    BY <1>3, <2>1, <2>2, LineFound
  <2>4. l # 0
    <3>1. l = 0 => p + l = p
      BY <1>1
    <3> QED  BY <1>2, <2>3, <3>1
  <2>5. length_end = chunk_offset + 1
    BY <1>1, <2>3, <2>4
  <2>6. Len(hex_length) = 1 /\ hex_length # <<>> /\ hex_length[1] = size(s)
    <3>1. chunk_offset < length_end /\ length_end - chunk_offset = 1
      BY <1>1, <2>5
    <3> QED  BY <1>1, <2>3, <3>1, SizeRead
  <2>7. ~Throws /\ ChunkLength = s % UIntSize
    BY <1>1, <2>6 DEF Throws, ChunkLength
  <2> QED  BY <1>1, <1>5, <2>2, <2>5, <2>6, <2>7
<1> QED  BY <1>1, <1>4, <1>5

\* A number below 2^32 survives the cut to an unsigned int.
LEMMA SmallNumber ==
    ASSUME NEW s \in Nat, s < UIntSize
    PROVE  s % UIntSize = s
BY HttpAssumption

\* A chunk that fits is waited for until all of it is there, with its line breaks.
LEMMA ChunkRead ==
    ASSUME LimitFits, NEW p, Stands(p), NEW s \in Nat, SizeLine(p, s), s <= MaxBodySize, chunk_len # 0
    PROVE  /\ ChunkIncomplete \/ ChunksEnd => taken < p + s + 5
           /\ ~ChunkThrows
           /\ ChunkParsed => /\ p + s + 5 <= taken /\ ChunkLength = s /\ Len(hex_length) = 1
<1>1. /\ p \in Nat /\ chunk_offset \in Nat /\ taken \in Nat /\ Len(body) = chunk_offset + (taken - p)
      /\ p <= taken /\ MaxBodySize \in Nat /\ UIntSize \in Nat /\ Len(body) \in Nat /\ chunk_len \in Nat
  BY StandsFacts
<1>2. s + 4 < UIntSize /\ s % UIntSize = s /\ (s + 4) % UIntSize = s + 4
  <2>1. s + 4 < UIntSize /\ s < UIntSize /\ s + 4 \in Nat
    BY <1>1 DEF LimitFits
  <2> QED  BY <2>1, SmallNumber
<1>3. CASE taken < p + 3
  <2>1. length_end = npos
    BY <1>3, SizeLineRead
  <2> QED  BY <1>1, <1>3, <2>1 DEF ChunkThrows, ChunkParsed
<1>4. CASE p + 3 <= taken
  <2>1. /\ length_end = chunk_offset + 1 /\ length_end # npos /\ Len(hex_length) = 1 /\ ~Throws
        /\ ChunkLength = s
    BY <1>2, <1>4, SizeLineRead
  <2>2. WantsMore(ChunkLength) <=> taken < p + s + 5
    BY <1>1, <1>2, <2>1 DEF WantsMore
  <2>3. MoreChunks
    BY <1>1, <1>4 DEF MoreChunks
  <2>4. ~ChunksEnd
    BY <2>3 DEF ChunksEnd
  <2>5. ChunkIncomplete => taken < p + s + 5
    BY <2>1, <2>2 DEF ChunkIncomplete
  <2>6. ~WantsMore(ChunkLength) => chunk_offset + Len(hex_length) + ChunkLength + 2 <= Len(body)
    BY <1>1, <2>1, <2>2
  <2>7. ~ChunkThrows
    BY <1>1, <2>1, <2>6 DEF ChunkThrows
  <2>8. ChunkParsed => p + s + 5 <= taken
    BY <1>1, <2>2 DEF ChunkParsed
  <2> QED  BY <2>1, <2>4, <2>5, <2>7, <2>8
<1> QED  BY <1>1, <1>3, <1>4

\* Where no chunk stands none is parsed.
LEMMA NoChunkRead ==
    ASSUME LimitFits, NEW p, Stands(p), NoChunk(Text, p, chunk_offset)
    PROVE  ~ChunkParsed
<1> SUFFICES ASSUME ChunkParsed PROVE FALSE
  OBVIOUS
<1>1. /\ p \in Nat /\ chunk_offset \in Nat /\ taken \in Nat /\ Len(body) = chunk_offset + (taken - p)
      /\ p <= taken /\ taken <= Len(Text) /\ Len(Text) \in Nat
      /\ MaxBodySize \in Nat /\ UIntSize \in Nat /\ Len(body) \in Nat /\ Len(body) <= MaxBodySize
  BY StandsFacts
<1>2. /\ length_end # npos /\ ~Throws /\ ~WantsMore(ChunkLength)
      /\ chunk_offset + Len(hex_length) + ChunkLength + 2 <= Len(body)
  BY DEF ChunkParsed
<1>3. /\ length_end \in Nat /\ chunk_offset <= length_end
      /\ At(Text, p + (length_end - chunk_offset), CRLF)
      /\ p + (length_end - chunk_offset) + 2 <= taken
  BY <1>2, LineFound
<1>4. CASE p < Len(Text) /\ Text[p + 1][1] # "size"
  <2>1. hex_length # <<>> /\ hex_length[1][1] = "size"
    BY <1>2 DEF Throws
  <2>2. chunk_offset < length_end
    BY <1>1, <1>3, <2>1, SizeRead
  <2>3. hex_length[1] = Text[p + 1]
    BY <1>3, <2>2, SizeRead
  <2> QED  BY <1>4, <2>1, <2>3
<1>5. CASE \A q \in p..Len(Text) : ~At(Text, q, CRLF)
  <2>1. p + (length_end - chunk_offset) \in p..Len(Text)
    BY <1>1, <1>3
  <2> QED  BY <1>3, <1>5, <2>1
<1>6. ASSUME NEW s \in 0..UIntSize - 1, SizeLine(p, s),
             s + 5 > Len(Text) - p \/ chunk_offset + s + 5 > MaxBodySize
      PROVE  FALSE
  <2>1. s \in Nat /\ s < UIntSize
    BY <1>1
  <2>2. p + 3 <= taken
    <3>1. ~(taken < p + 3)
      BY <1>2, <1>6, <2>1, SizeLineRead
    <3> QED  BY <1>1, <3>1
  <2>3. ChunkLength = s /\ Len(hex_length) = 1 /\ length_end = chunk_offset + 1
    BY <1>6, <2>1, <2>2, SizeLineRead, SmallNumber
  <2>4. CASE s + 4 < UIntSize
    <3>1. (s + 4) % UIntSize = s + 4
      <4>1. s + 4 \in Nat
        BY <2>1
      <4> QED  BY <2>4, <4>1, SmallNumber
    <3>2. ~(Len(body) - (chunk_offset + 1) < s + 4)
      BY <1>2, <2>3, <3>1 DEF WantsMore
    <3> QED  BY <1>1, <1>6, <2>1, <3>2
  <2>5. CASE ~(s + 4 < UIntSize)
    BY <1>1, <1>2, <2>1, <2>3, <2>5 DEF LimitFits
  <2> QED  BY <2>4, <2>5
<1> QED  BY <1>4, <1>5, <1>6 DEF NoChunk, SizeLine

\* What the two erases leave of a chunk whose size is one token: what precedes it, its data,
\* what is behind it.
LEMMA UnchunkedTokens ==
    ASSUME body \in Seq(Token), chunk_offset \in Nat, Len(hex_length) = 1, NEW s \in Nat,
           chunk_offset + s + 5 <= Len(body)
    PROVE  /\ Unchunked(s) \in Seq(Token) /\ Len(Unchunked(s)) = Len(body) - 5
           /\ \A i \in 1..chunk_offset : Unchunked(s)[i] = body[i]
           /\ \A i \in 1..s : Unchunked(s)[chunk_offset + i] = body[chunk_offset + 3 + i]
           /\ \A i \in 1..Len(body) - 5 : chunk_offset + s < i => Unchunked(s)[i] = body[i + 5]
<1> DEFINE pos == chunk_offset + s + 3
           between == erase(body, pos, 2)
           left == erase(between, chunk_offset, 3)
<1>1. Len(body) \in Nat /\ pos \in Nat /\ pos + 2 <= Len(body)
  BY LenProperties
<1>2. Unchunked(s) = left
  <2>1. chunk_offset + 1 + s + 2 = pos
    OBVIOUS
  <2> QED  BY <2>1 DEF Unchunked
<1>3. /\ between \in Seq(Token) /\ Len(between) = Len(body) - 2
      /\ \A i \in 1..pos : between[i] = body[i]
      /\ \A i \in 1..Len(body) - 2 : pos < i => between[i] = body[i + 2]
  <2>1. 2 \in Nat
    OBVIOUS
  <2> HIDE DEF pos
  <2> QED  BY <1>1, <2>1, EraseTokens
<1> HIDE DEF between
<1>4. /\ left \in Seq(Token) /\ Len(left) = Len(between) - 3
      /\ \A i \in 1..chunk_offset : left[i] = between[i]
      /\ \A i \in 1..Len(between) - 3 : chunk_offset < i => left[i] = between[i + 3]
  <2>1. chunk_offset + 3 <= Len(between) /\ 3 \in Nat
    BY <1>1, <1>3
  <2> QED  BY <1>3, <2>1, EraseTokens
<1> HIDE DEF left
<1>5. Len(left) = Len(body) - 5 /\ Len(between) - 3 = Len(body) - 5
  BY <1>1, <1>3, <1>4
<1>6. ASSUME NEW i \in 1..chunk_offset PROVE left[i] = body[i]
  <2>1. i \in 1..pos
    OBVIOUS
  <2> QED  BY <1>3, <1>4, <2>1
<1>7. ASSUME NEW i \in 1..s PROVE left[chunk_offset + i] = body[chunk_offset + 3 + i]
  <2> DEFINE j == chunk_offset + i
  <2>1. /\ j \in 1..Len(between) - 3 /\ chunk_offset < j /\ j + 3 \in 1..pos
        /\ j + 3 = chunk_offset + 3 + i
    BY <1>1, <1>5
  <2> HIDE DEF j
  <2>2. left[j] = body[j + 3]
    BY <1>3, <1>4, <2>1
  <2> QED  BY <2>1, <2>2 DEF j
<1>8. ASSUME NEW i \in 1..Len(body) - 5, chunk_offset + s < i PROVE left[i] = body[i + 5]
  <2>1. /\ i \in 1..Len(between) - 3 /\ chunk_offset < i
        /\ i + 3 \in 1..Len(body) - 2 /\ pos < i + 3 /\ i + 3 + 2 = i + 5
    BY <1>1, <1>5, <1>8
  <2>2. left[i] = between[i + 3]
    BY <1>4, <2>1
  <2>3. between[i + 3] = body[i + 3 + 2]
    BY <1>3, <2>1
  <2> QED  BY <2>1, <2>2, <2>3
<1> QED  BY <1>2, <1>4, <1>5, <1>6, <1>7, <1>8

\* A message whose body is in chunks: n of them, at the positions `at`.
ChunkedMessage(m, end, blank, n, at) ==
    /\ HeadedBy(m.text, end, blank) /\ IsChunked(m, end)
    /\ n \in Nat /\ at \in [1..n + 1 -> Behind(end, blank)..Len(m.text)]
    /\ IF m.ok
       THEN /\ n # 0 /\ Begins(m, end, blank) /\ m.content \in Seq(Token)
            /\ WholeChunks(m, Behind(end, blank), n, at)
       ELSE BrokenChunks(m, Behind(end, blank), n, at)

\* All chunks before chunk k have been parsed: their data precede what has been read of the
\* text from chunk k on.
ChunkState(n, at, k) ==
    /\ Holds(Offset(at, k), at[k]) /\ chunk_offset = Offset(at, k)
    /\ message.ok => \A i \in 1..Offset(at, k) : body[i] = message.content[i]
    /\ message.ok /\ k = n + 1 => pc = "chunks" /\ chunk_len = 0
    /\ pc = "chunks" /\ chunk_len = 0 => message.ok /\ k = n + 1
    /\ message.ok /\ pc = "reading" => taken < at[k + 1]
    /\ message.ok /\ pc = "body" => taken < at[k + 1] + ChunkSize

ChunkInv(n, at) ==
    header_ended /\ pc # "idle" => \E k \in 1..n + 1 : ChunkState(n, at, k)

\* Where chunk k stands, and where the next one.
LEMMA ChunkPlace ==
    ASSUME HttpInv, NEW end \in Nat, NEW blank \in Blanks, NEW n, NEW at,
           ChunkedMessage(message, end, blank, n, at), NEW k \in 1..n + 1
    PROVE  /\ n \in Nat /\ k \in Nat /\ at[k] \in Nat /\ at[k] <= Len(Text) /\ Offset(at, k) \in Int
           /\ at[1] = Behind(end, blank)
           /\ k # n + 1 => /\ k \in 1..n /\ k + 1 \in 1..n + 1
                           /\ Size(at, k) \in Nat /\ at[k + 1] = at[k] + Size(at, k) + 5
                           /\ at[k + 1] \in Nat /\ at[k + 1] <= Len(Text)
                           /\ Offset(at, k + 1) = Offset(at, k) + Size(at, k)
                           /\ SizeLine(at[k], Size(at, k))
<1> DEFINE h == Behind(end, blank)
<1>1. h \in Nat /\ Len(Text) \in Nat /\ n \in Nat /\ Framed(Text, h, n, at)
  BY BehindType, InvTyped DEF ChunkedMessage, WholeChunks, BrokenChunks, Text
<1>2. \A i \in 1..n + 1 : at[i] \in Nat /\ at[i] <= Len(Text)
  <2>1. at \in [1..n + 1 -> h..Len(Text)]
    BY DEF ChunkedMessage, Text
  <2> HIDE DEF h
  <2> QED  BY <1>1, <2>1
<1> HIDE DEF h
<1>3. at[1] = h /\ at[1] \in Nat /\ Offset(at, k) \in Int
  <2>1. at[1] = h
    BY <1>1 DEF Framed
  <2> QED  BY <1>1, <1>2, <2>1 DEF Offset
<1>4. ASSUME k # n + 1
      PROVE  /\ k \in 1..n /\ k + 1 \in 1..n + 1
             /\ Size(at, k) \in Nat /\ at[k + 1] = at[k] + Size(at, k) + 5
             /\ Offset(at, k + 1) = Offset(at, k) + Size(at, k)
             /\ SizeLine(at[k], Size(at, k))
  <2>1. k \in 1..n /\ k + 1 \in 1..n + 1
    BY <1>1, <1>4
  <2>2. Size(at, k) >= 0 /\ SizeLine(at[k], Size(at, k))
    BY <1>1, <2>1 DEF Framed, SizeLine
  <2>3. Size(at, k) = at[k + 1] - at[k] - 5 /\ at[k] \in Nat /\ at[k + 1] \in Nat
    BY <1>2, <2>1 DEF Size
  <2>4. Offset(at, k + 1) = at[k + 1] - at[1] - 5 * k /\ Offset(at, k) = at[k] - at[1] - 5 * (k - 1)
    <3>1. k + 1 - 1 = k
      BY <2>1
    <3> QED  BY <3>1 DEF Offset
  <2>5. 5 * (k - 1) = 5 * k - 5
    BY <2>1
  <2>6. Size(at, k) \in Nat /\ at[k + 1] = at[k] + Size(at, k) + 5
    BY <2>2, <2>3
  <2>7. Offset(at, k + 1) = Offset(at, k) + Size(at, k)
    BY <1>3, <2>1, <2>3, <2>4, <2>5
  <2> QED  BY <2>1, <2>2, <2>6, <2>7
<1> QED  BY <1>1, <1>2, <1>3, <1>4 DEF h

\* Each of the chunks is within the limit while it arrives.
LEMMA ChunkFits ==
    ASSUME HttpInv, NEW end \in Nat, NEW blank \in Blanks, NEW n, NEW at,
           ChunkedMessage(message, end, blank, n, at), NEW k \in 1..n + 1, k # n + 1,
           Offset(at, k) \in Nat
    PROVE  /\ Size(at, k) <= MaxBodySize
           /\ message.ok => \/ Offset(at, k) + Len(Text) - at[k] <= MaxBodySize
                            \/ Offset(at, k) + Size(at, k) + 4 + ChunkSize <= MaxBodySize
           /\ message.ok => (Size(at, k) = 0 <=> k = n)
           /\ ~message.ok => Size(at, k) # 0
<1> DEFINE o == Offset(at, k)
           s == Size(at, k)
           p == at[k]
<1>1. /\ o \in Nat /\ s \in Nat /\ p \in Nat /\ k \in 1..n /\ at[k + 1] = p + s + 5
      /\ at[k + 1] <= Len(Text) /\ Len(Text) \in Nat /\ ChunkSize \in Nat /\ MaxBodySize \in Nat
  BY ChunkPlace, InvTyped, HttpAssumption
<1>2. CASE message.ok
  <2>1. WholeChunks(message, Behind(end, blank), n, at)
    BY <1>2 DEF ChunkedMessage
  <2>2. /\ o + Len(Text) - p <= MaxBodySize \/ o + s + 4 + ChunkSize <= MaxBodySize
        /\ s = 0 <=> k = n
    BY <1>1, <2>1 DEF WholeChunks, Text
  <2>3. p + s + 5 <= Len(Text)
    BY <1>1
  <2> HIDE DEF o, s, p
  <2>4. s <= MaxBodySize
    BY <1>1, <2>2, <2>3
  <2> QED  BY <1>2, <2>2, <2>4 DEF o, s, p
<1>3. CASE ~message.ok
  <2>1. BrokenChunks(message, Behind(end, blank), n, at)
    BY <1>3 DEF ChunkedMessage
  <2>2. s > 0 /\ o + s + 5 <= MaxBodySize
    BY <1>1, <2>1 DEF BrokenChunks
  <2> HIDE DEF o, s, p
  <2>3. s <= MaxBodySize /\ s # 0
    BY <1>1, <2>2
  <2> QED  BY <1>3, <2>3 DEF o, s, p
<1> QED  BY <1>2, <1>3

\* A chunk that is parsed moves the state to the next chunk.
LEMMA ChunkParsedState ==
    ASSUME HttpInv, LimitFits, NEW end \in Nat, NEW blank \in Blanks, NEW n, NEW at,
           ChunkedMessage(message, end, blank, n, at), NEW k \in 1..n + 1, k # n + 1,
           ChunkState(n, at, k), ChunkParsed
    PROVE  ChunkState(n, at, k + 1)'
<1> DEFINE o == Offset(at, k)
           s == Size(at, k)
           p == at[k]
           q == at[k + 1]
<1>1. /\ pc = "chunks" /\ pc' = "chunks" /\ body' = Unchunked(ChunkLength)
      /\ chunk_offset' = chunk_offset + ChunkLength /\ chunk_len' = ChunkLength
      /\ UNCHANGED <<message, taken>> /\ chunk_len # 0
  BY DEF ChunkParsed, MoreChunks, connection
<1>2. /\ Stands(p) /\ chunk_offset = o /\ Holds(o, p)
      /\ message.ok => \A i \in 1..o : body[i] = message.content[i]
  BY <1>1, ChunkPlace DEF ChunkState, Stands
<1>3. o \in Nat /\ p \in Nat /\ taken \in Nat /\ body \in Seq(Token) /\ Len(body) \in Nat
      /\ Len(body) = o + (taken - p) /\ p <= taken /\ \A i \in 1..taken - p : body[o + i] = Text[p + i]
  BY <1>2, StandsFacts
<1>4. /\ s \in Nat /\ q = p + s + 5 /\ q \in Nat /\ Offset(at, k + 1) = o + s /\ SizeLine(p, s)
      /\ k \in 1..n /\ k \in Nat /\ n \in Nat
  BY ChunkPlace
<1>5. /\ s <= MaxBodySize
      /\ message.ok => (s = 0 <=> k = n)
      /\ ~message.ok => s # 0
  BY <1>3, ChunkFits
<1>6. q <= taken /\ ChunkLength = s /\ Len(hex_length) = 1
  <2> HIDE DEF o, s, p, q
  <2> QED  BY <1>1, <1>2, <1>4, <1>5, ChunkRead
<1> DEFINE len == Len(body)
<1>7. /\ len \in Nat /\ len = o + (taken - p) /\ p + s + 5 <= taken /\ o + s + 5 <= len
      /\ len - 5 = o + s + (taken - q)
  <2>1. o \in Nat /\ p \in Nat /\ s \in Nat /\ taken \in Nat /\ q = p + s + 5
    BY <1>3, <1>4
  <2>2. len \in Nat /\ len = o + (taken - p) /\ p + s + 5 <= taken
    BY <1>3, <1>4, <1>6
  <2> HIDE DEF o, s, p, q, len
  <2>3. o + s + 5 <= len
    BY <2>1, <2>2
  <2>4. len - 5 = o + s + (taken - q)
    BY <2>1, <2>2
  <2> QED  BY <2>2, <2>3, <2>4
<1>8. /\ Len(body') = Len(body) - 5
      /\ \A i \in 1..o : body'[i] = body[i]
      /\ \A i \in 1..s : body'[o + i] = body[o + 3 + i]
      /\ \A i \in 1..Len(body) - 5 : o + s < i => body'[i] = body[i + 5]
  <2> HIDE DEF o, s, p, q
  <2>1. o + s + 5 <= Len(body)
    BY <1>7
  <2> QED  BY <1>1, <1>2, <1>3, <1>4, <1>6, <2>1, UnchunkedTokens
<1>9. message.ok => \A i \in 1..s : message.content[o + i] = Text[p + 3 + i]
  BY <1>4 DEF ChunkedMessage, WholeChunks, Text
<1> HIDE DEF o, s, p, q
<1>10. Holds(o + s, q)'
  <2>1. q <= taken' /\ Len(body') = o + s + (taken' - q) /\ Text' = Text
    BY <1>1, <1>6, <1>8, <1>7 DEF Text
  <2>2. ASSUME NEW i \in 1..taken - q PROVE body'[o + s + i] = Text[q + i]
    <3>1. /\ o + s + i \in 1..Len(body) - 5 /\ o + s < o + s + i
          /\ s + 5 + i \in 1..taken - p
          /\ o + s + i + 5 = o + (s + 5 + i) /\ p + (s + 5 + i) = q + i
      BY <1>3, <1>4, <1>6
    <3>2. body'[o + s + i] = body[o + s + i + 5]
      BY <1>8, <3>1
    <3>3. body[o + (s + 5 + i)] = Text[p + (s + 5 + i)]
      BY <1>3, <3>1
    <3> QED  BY <3>1, <3>2, <3>3
  <2> QED  BY <1>1, <2>1, <2>2 DEF Holds
<1>11. ASSUME message.ok, NEW i \in 1..o + s PROVE body'[i] = message.content[i]
  <2>1. CASE i \in 1..o
    BY <1>2, <1>8, <1>11, <2>1
  <2>2. CASE i \notin 1..o
    <3> DEFINE j == i - o
    <3>1. /\ j \in 1..s /\ o + j = i /\ j + 3 \in 1..taken - p
          /\ o + 3 + j = o + (j + 3) /\ p + 3 + j = p + (j + 3)
      BY <1>3, <1>4, <1>6, <2>2
    <3> HIDE DEF j
    <3>2. body'[o + j] = body[o + 3 + j]
      BY <1>8, <3>1
    <3>3. body[o + (j + 3)] = Text[p + (j + 3)]
      BY <1>3, <3>1
    <3>4. message.content[o + j] = Text[p + 3 + j]
      BY <1>9, <1>11, <3>1
    <3> QED  BY <3>1, <3>2, <3>3, <3>4
  <2> QED  BY <2>1, <2>2
<1>12. /\ message.ok /\ k + 1 = n + 1 => chunk_len' = 0
       /\ chunk_len' = 0 => message.ok /\ k + 1 = n + 1
  BY <1>1, <1>4, <1>5, <1>6
<1>13. chunk_offset' = o + s
  BY <1>1, <1>2, <1>6
<1>14. Offset(at, k + 1) = o + s /\ at[k + 1] = q
  BY <1>4 DEF q
<1> QED  BY <1>1, <1>10, <1>11, <1>12, <1>13, <1>14 DEF ChunkState

\* The state of the chunks does not change with the result and what follows from it.
LEMMA ChunkSame ==
    ASSUME NEW n, NEW at, NEW k, ChunkState(n, at, k), UNCHANGED <<message, taken, body, chunk_offset>>,
           \/ pc' = pc /\ chunk_len' = chunk_len
           \/ /\ message.ok => k # n + 1
              /\ pc' \in {"reading", "chunks"} /\ (pc' = "chunks" => chunk_len' # 0)
              /\ message.ok /\ pc' = "reading" => taken < at[k + 1]
    PROVE  ChunkState(n, at, k)'
<1>1. Holds(Offset(at, k), at[k])'
  BY HoldsSame DEF ChunkState
<1>2. /\ chunk_offset' = Offset(at, k)
      /\ message'.ok => \A i \in 1..Offset(at, k) : body'[i] = message'.content[i]
  BY DEF ChunkState
<1>3. /\ message'.ok /\ k = n + 1 => pc' = "chunks" /\ chunk_len' = 0
      /\ pc' = "chunks" /\ chunk_len' = 0 => message'.ok /\ k = n + 1
      /\ message'.ok /\ pc' = "reading" => taken' < at[k + 1]
      /\ message'.ok /\ pc' = "body" => taken' < at[k + 1] + ChunkSize
  BY DEF ChunkState
<1> QED  BY <1>1, <1>2, <1>3 DEF ChunkState

\* Behind the header the first chunk is waited for.
LEMMA ChunkFirst ==
    ASSUME HttpInv, Underway, NEW end \in Nat, NEW blank \in Blanks, NEW n, NEW at,
           ChunkedMessage(message, end, blank, n, at), HeadInv(end, blank), HeaderEnds
    PROVE  ChunkState(n, at, 1)'
<1> DEFINE h == Behind(end, blank)
<1>1. pc = "header" /\ pc' = "body" /\ UNCHANGED <<message, taken, chunk_offset>>
  BY DEF HeaderEnds, connection
<1>2. HeadedBy(Text, end, blank) /\ chunk_offset = 0
  BY <1>1, AtHeader DEF ChunkedMessage, Text
<1>3. Holds(0, h)' /\ taken < h + ChunkSize /\ h \in Nat /\ taken \in Nat /\ ChunkSize \in Nat
  BY <1>1, <1>2, HeaderRead, BehindType, InvTyped DEF HeadInv
<1> HIDE DEF h
<1>4. n \in Nat /\ at[1] = h /\ Offset(at, 1) = 0
  <2>1. n \in Nat /\ 1 \in 1..n + 1
    BY DEF ChunkedMessage
  <2>2. at[1] = h /\ at[1] \in Nat
    BY <2>1, ChunkPlace DEF h
  <2> QED  BY <2>1, <2>2 DEF Offset
<1>5. ASSUME message.ok PROVE 1 # n + 1 /\ taken < at[2] + ChunkSize
  <2>1. n # 0
    BY <1>5 DEF ChunkedMessage
  <2>2. 1 # n + 1 /\ 1 \in 1..n + 1 /\ 1 + 1 = 2
    BY <1>4, <2>1
  <2>3. Size(at, 1) \in Nat /\ at[2] = at[1] + Size(at, 1) + 5
    BY <2>2, ChunkPlace
  <2>4. taken < at[2] + ChunkSize
    BY <1>3, <1>4, <2>3
  <2> QED  BY <2>2, <2>4
<1>6. \A i \in 1..0 : FALSE
  OBVIOUS
<1>7. 1 + 1 = 2
  OBVIOUS
<1> QED  BY <1>1, <1>2, <1>3, <1>4, <1>5, <1>6, <1>7 DEF ChunkState

\* What is read while a chunk is waited for.
LEMMA ChunkPart ==
    ASSUME HttpInv, NEW end \in Nat, NEW blank \in Blanks, NEW n, NEW at,
           ChunkedMessage(message, end, blank, n, at), NEW k \in 1..n + 1, ChunkState(n, at, k),
           header_ended, ReceivePart
    PROVE  ChunkState(n, at, k)'
<1>1. PICK l \in 1..ChunkSize : taken' = taken + l
  BY DEF ReceivePart
<1>2. /\ pc = "reading" /\ pc' = "body" /\ UNCHANGED <<message, chunk_offset, chunk_len>>
      /\ taken \in Nat /\ ChunkSize \in Nat
  BY InvTyped DEF ReceivePart
<1>3. chunk_offset \in Nat /\ Offset(at, k) = chunk_offset /\ Holds(chunk_offset, at[k]) /\ at[k] \in Nat
  BY ChunkPlace, InvTyped DEF ChunkState, HttpInv, TypeOK
<1>4. Holds(chunk_offset, at[k])' /\ \A i \in 1..chunk_offset : body'[i] = body[i]
  <2>1. (Holds(Offset(at, k), at[k]))' /\ \A i \in 1..chunk_offset : body'[i] = body[i]
    BY <1>3, HoldsPart
  <2> QED  BY <1>2, <1>3, <2>1
<1>5. ASSUME message.ok PROVE k # n + 1 /\ taken' < at[k + 1] + ChunkSize
  <2>1. k # n + 1 /\ taken < at[k + 1]
    BY <1>2, <1>5 DEF ChunkState
  <2>2. at[k + 1] \in Nat
    BY <2>1, ChunkPlace
  <2> QED  BY <1>1, <1>2, <2>1, <2>2
<1> QED  BY <1>2, <1>3, <1>4, <1>5 DEF ChunkState

\* No limit is in the way of the chunks of a message in order.
LEMMA ChunkWithinLimit ==
    ASSUME HttpInv, NEW end \in Nat, NEW blank \in Blanks, NEW n, NEW at,
           ChunkedMessage(message, end, blank, n, at), NEW k \in 1..n + 1, ChunkState(n, at, k),
           pc = "body", message.ok
    PROVE  Len(body) <= MaxBodySize
<1> DEFINE o == Offset(at, k)
           s == Size(at, k)
           p == at[k]
           len == Len(body)
           q == at[k + 1]
<1>1. k # n + 1 /\ taken < q + ChunkSize /\ chunk_offset = o /\ p <= taken /\ len = o + (taken - p)
  BY DEF ChunkState, Holds
<1>2. /\ o \in Nat /\ taken \in Nat /\ len \in Nat /\ ChunkSize \in Nat /\ MaxBodySize \in Nat
      /\ taken <= Len(Text) /\ Len(Text) \in Nat
  BY <1>1, InvTyped, HttpAssumption DEF HttpInv, TypeOK, Typed
<1>3. p \in Nat /\ s \in Nat /\ q = p + s + 5
  BY <1>1, ChunkPlace
<1>4. o + Len(Text) - p <= MaxBodySize \/ o + s + 4 + ChunkSize <= MaxBodySize
  BY <1>1, <1>2, ChunkFits
<1> HIDE DEF o, s, p, q, len
<1>5. len <= MaxBodySize
  BY <1>1, <1>2, <1>3, <1>4
<1> QED  BY <1>5 DEF len

\* Behind the last chunk of a message in order the body is its content.
LEMMA ChunksAreContent ==
    ASSUME HttpInv, NEW end \in Nat, NEW blank \in Blanks, NEW n, NEW at,
           ChunkedMessage(message, end, blank, n, at), ChunkState(n, at, n + 1), message.ok
    PROVE  body = message.content
<1> DEFINE o == Offset(at, n + 1)
           content == message.content
           p == at[n + 1]
<1>1. /\ content \in Seq(Token) /\ p = Len(Text) /\ Len(content) = o
      /\ n \in Nat
  BY DEF ChunkedMessage, WholeChunks, Text
<1>2. /\ body \in Seq(Token) /\ taken \in Nat /\ Len(Text) \in Nat /\ taken <= Len(Text)
      /\ chunk_offset \in Nat
  BY InvTyped DEF Typed, HttpInv, TypeOK
<1>3. /\ p <= taken /\ Len(body) = o + (taken - p) /\ chunk_offset = o
      /\ \A i \in 1..o : body[i] = content[i]
  BY DEF ChunkState, Holds
<1> HIDE DEF o, content, p
<1>4. Len(body) = o
  BY <1>1, <1>2, <1>3
<1>5. body = content
  BY <1>1, <1>2, <1>3, <1>4, SeqEqual
<1> QED  BY <1>5 DEF content

\* The steps of parse over the chunks.
LEMMA ChunksStep ==
    ASSUME HttpInv, Underway, Outcome, LimitFits, NEW end \in Nat, NEW blank \in Blanks, NEW n, NEW at,
           ChunkedMessage(message, end, blank, n, at), NEW k \in 1..n + 1, ChunkState(n, at, k),
           ChunkIncomplete \/ ChunkParsed \/ ChunkThrows \/ ChunksEnd
    PROVE  /\ pc' # "idle" => \E l \in 1..n + 1 : ChunkState(n, at, l)'
           /\ Outcome'
<1>1. pc = "chunks" /\ UNCHANGED <<message, taken>> /\ Next
  BY DEF ChunkIncomplete, ChunkParsed, ChunkThrows, ChunksEnd, connection, Next, Receive, Parse
<1>2. Stands(at[k]) /\ at[k] \in Nat /\ n \in Nat /\ k \in Nat
  <2>1. at[k] \in Nat /\ n \in Nat /\ k \in Nat
    BY ChunkPlace
  <2> QED  BY <1>1, <2>1 DEF Stands, ChunkState
<1>3. ChunkIncomplete => /\ pc' = "reading" /\ status' = status
                         /\ UNCHANGED <<body, chunk_offset>> /\ chunk_len # 0
  BY DEF ChunkIncomplete, ParseReturns, object, MoreChunks
<1>4. ChunksEnd => /\ UNCHANGED <<body, chunk_offset, chunk_len>>
                   /\ IF chunk_len = 0 THEN pc' = "idle" /\ status' = "Success"
                      ELSE pc' = "reading" /\ status' = status
  BY DEF ChunksEnd, ParseReturns, Returns, object
<1>5. CASE k # n + 1
  <2> DEFINE s == Size(at, k)
  <2>1. /\ s \in Nat /\ at[k + 1] = at[k] + s + 5 /\ SizeLine(at[k], s) /\ s <= MaxBodySize
        /\ k + 1 \in 1..n + 1 /\ chunk_len # 0
    <3>1. chunk_offset \in Nat /\ chunk_offset = Offset(at, k) /\ chunk_len # 0
      BY <1>1, <1>2, <1>5, StandsFacts DEF ChunkState
    <3> QED  BY <1>5, <3>1, ChunkPlace, ChunkFits
  <2> HIDE DEF s
  <2>2. /\ ChunkIncomplete \/ ChunksEnd => taken < at[k + 1]
        /\ ~ChunkThrows
    BY <1>2, <2>1, ChunkRead
  <2>3. CASE ChunkIncomplete \/ ChunksEnd
    <3>1. UNCHANGED <<message, taken, body, chunk_offset>> /\ pc' = "reading" /\ status' = status
      BY <1>1, <1>3, <1>4, <2>1, <2>3
    <3>2. ChunkState(n, at, k)'
      BY <1>5, <2>2, <2>3, <3>1, ChunkSame
    <3> QED  BY <1>1, <3>1, <3>2, OutcomeSame
  <2>4. CASE ChunkParsed
    <3>1. ChunkState(n, at, k + 1)'
      BY <1>5, <2>4, ChunkParsedState
    <3>2. status' = status
      BY <2>4 DEF ChunkParsed
    <3> QED  BY <1>1, <2>1, <3>1, <3>2, OutcomeSame
  <2> QED  BY <2>2, <2>3, <2>4
<1>6. CASE k = n + 1 /\ message.ok
  <2>1. chunk_len = 0
    BY <1>6 DEF ChunkState
  <2>2. ChunksEnd
    BY <1>3, <2>1 DEF ChunkIncomplete, ChunkParsed, ChunkThrows, MoreChunks
  <2>3. pc' = "idle" /\ status' = "Success" /\ body' = body
    BY <1>4, <2>1, <2>2
  <2>4. body = message.content
    BY <1>6, ChunksAreContent
  <2> QED  BY <1>1, <1>6, <2>3, <2>4 DEF Outcome, ContentIntact, Accepted
<1>7. CASE k = n + 1 /\ ~message.ok
  <2>1. chunk_len # 0 /\ chunk_offset = Offset(at, n + 1)
    BY <1>1, <1>7 DEF ChunkState
  <2>2. NoChunk(Text, at[k], chunk_offset)
    BY <1>7, <2>1 DEF ChunkedMessage, BrokenChunks, Text
  <2>3. ~ChunkParsed
    BY <1>2, <2>2, NoChunkRead
  <2>4. CASE ChunkThrows
    <3>1. pc' = "idle" /\ status' = "exception"
      BY <2>4 DEF ChunkThrows, Returns
    <3> QED  BY <1>1, <1>7, <3>1 DEF Outcome, ContentIntact, Accepted
  <2>5. CASE ChunkIncomplete \/ ChunksEnd
    <3>1. UNCHANGED <<message, taken, body, chunk_offset>> /\ pc' = "reading" /\ status' = status
      BY <1>1, <1>3, <1>4, <2>1, <2>5
    <3>2. ChunkState(n, at, k)'
      BY <1>7, <3>1, ChunkSame
    <3> QED  BY <1>1, <3>1, <3>2, OutcomeSame
  <2> QED  BY <2>3, <2>4, <2>5
<1> QED  BY <1>5, <1>6, <1>7

LEMMA ChunkStep ==
    ASSUME HttpInv, Underway, Outcome, LimitFits, NEW end \in Nat, NEW blank \in Blanks, NEW n, NEW at,
           ChunkedMessage(message, end, blank, n, at), HeadInv(end, blank), ChunkInv(n, at), Next
    PROVE  ChunkInv(n, at)' /\ Outcome'
<1>1. /\ HeadedBy(Text, end, blank) /\ ~IsRequest /\ Chunks(Before(Text, end))
      /\ message.ok => Begins(message, end, blank)
  BY DEF ChunkedMessage, IsChunked, IsRequest, Text
<1>2. ASSUME header_ended, pc # "idle" PROVE \E k \in 1..n + 1 : ChunkState(n, at, k)
  BY <1>2 DEF ChunkInv
<1>3. CASE ReceiveBegin
  <2>1. pc = "idle" /\ status \in {"Unknown"} \cup Quiet /\ header_ended' = header_ended
    BY <1>3 DEF ReceiveBegin, object
  <2>2. ~header_ended'
    BY <2>1 DEF HttpInv, Untouched
  <2> QED  BY <1>3, <2>2, OutcomeReceive DEF ChunkInv
<1>4. CASE ReceiveFails \/ PeerCloses \/ Over \/ Waits
  <2>1. UNCHANGED <<message, taken, body, header_ended, chunk_offset, chunk_len>> /\ pc' \in {pc, "idle"}
    BY <1>4 DEF ReceiveFails, Returns, PeerCloses, Over, Waits, vars, connection, object
  <2>2. ASSUME header_ended', pc' # "idle" PROVE \E k \in 1..n + 1 : ChunkState(n, at, k)'
    <3>1. header_ended /\ pc' = pc /\ pc # "idle"
      BY <2>1, <2>2
    <3>2. PICK k \in 1..n + 1 : ChunkState(n, at, k)
      BY <1>2, <3>1
    <3>3. ChunkState(n, at, k)'
      BY <2>1, <3>1, <3>2, ChunkSame
    <3> QED  BY <3>3
  <2> QED  BY <1>4, <2>2, OutcomeReceive DEF ChunkInv
<1>5. CASE ReceivePart
  <2>1. pc = "reading" /\ header_ended' = header_ended
    BY <1>5 DEF ReceivePart
  <2>2. ASSUME header_ended PROVE \E k \in 1..n + 1 : ChunkState(n, at, k)'
    <3>1. PICK k \in 1..n + 1 : ChunkState(n, at, k)
      BY <1>2, <2>1, <2>2
    <3>2. ChunkState(n, at, k)'
      BY <1>5, <2>2, <3>1, ChunkPart
    <3> QED  BY <3>2
  <2> QED  BY <1>5, <2>1, <2>2, OutcomeReceive DEF ChunkInv
<1>6. CASE HeaderUnread \/ HeaderRefused
  <2>1. pc' = "idle" \/ ~header_ended'
    BY <1>6 DEF HeaderUnread, HeaderRefused, ParseReturns, Returns
  <2> QED  BY <1>1, <1>6, <2>1, OutcomeHeader DEF ChunkInv
<1>7. CASE HeaderEnds
  <2>1. ChunkState(n, at, 1)' /\ 1 \in 1..n + 1
    <3>1. n \in Nat
      BY DEF ChunkedMessage
    <3> QED  BY <1>7, <3>1, ChunkFirst
  <2> QED  BY <1>1, <1>7, <2>1, OutcomeHeader DEF ChunkInv
<1>8. ASSUME pc = "body"
      PROVE  header_ended /\ encoded /\ \E k \in 1..n + 1 : ChunkState(n, at, k)
  <2>1. header_ended
    BY <1>8 DEF HttpInv, Limits
  <2> QED  BY <1>1, <1>2, <1>8, <2>1 DEF HeadInv
<1>9. CASE BodyTooBig
  <2>1. pc = "body" /\ Len(body) > MaxBodySize /\ pc' = "idle" /\ status' = "HttpBodyTooBig" /\ message' = message
    BY <1>9 DEF BodyTooBig, ParseReturns, Returns, connection
  <2>2. PICK k \in 1..n + 1 : ChunkState(n, at, k)
    BY <1>8, <2>1
  <2>3. ~message.ok
    <3> SUFFICES ASSUME message.ok PROVE FALSE
      OBVIOUS
    <3>1. Len(body) <= MaxBodySize
      BY <2>1, <2>2, ChunkWithinLimit
    <3>2. Len(body) \in Nat /\ MaxBodySize \in Nat
      BY InvTyped, HttpAssumption
    <3> QED  BY <2>1, <3>1, <3>2
  <2> QED  BY <2>1, <2>3 DEF ChunkInv, Outcome, ContentIntact, Accepted
<1>10. CASE BodyParsed
  BY <1>1, <1>8, <1>10 DEF BodyParsed
<1>11. CASE ChunksBegin
  <2>1. /\ pc = "body" /\ pc' = "chunks" /\ chunk_len' = 1 /\ status' = status
        /\ UNCHANGED <<message, taken, body, chunk_offset>>
    BY <1>11 DEF ChunksBegin, connection, object
  <2>2. PICK k \in 1..n + 1 : ChunkState(n, at, k)
    BY <1>8, <2>1
  <2>3. message.ok => k # n + 1
    BY <2>1, <2>2 DEF ChunkState
  <2>4. ChunkState(n, at, k)'
    BY <2>1, <2>2, <2>3, ChunkSame
  <2> QED  BY <2>1, <2>4, OutcomeSame DEF ChunkInv
<1>12. CASE ChunkIncomplete \/ ChunkParsed \/ ChunkThrows \/ ChunksEnd
  <2>1. pc = "chunks"
    BY <1>12 DEF ChunkIncomplete, ChunkParsed, ChunkThrows, ChunksEnd
  <2>2. header_ended
    BY <2>1 DEF HttpInv, Limits
  <2>3. PICK k \in 1..n + 1 : ChunkState(n, at, k)
    BY <1>2, <2>1, <2>2
  <2>4. /\ pc' # "idle" => \E l \in 1..n + 1 : ChunkState(n, at, l)'
        /\ Outcome'
    BY <1>12, <2>3, ChunksStep
  <2> QED  BY <2>4 DEF ChunkInv
<1> QED  BY <1>3, <1>4, <1>5, <1>6, <1>7, <1>9, <1>10, <1>11, <1>12 DEF Next, Receive, Parse

--------------------------------------------------------------------------------
(* The invariant.                                                              *)

\* The message on its way is of one of three sorts, and what has been parsed of it is what
\* its sort allows.
MessageInv ==
    \/ Unreadable(message) /\ ~message.ok /\ Unread
    \/ \E end \in Nat, blank \in Blanks :
          BodyMessage(message, end, blank) /\ HeadInv(end, blank) /\ BodyInv(end, blank)
    \/ \E end \in Nat, blank \in Blanks, n \in Nat :
       \E at \in [1..n + 1 -> Behind(end, blank)..Len(Text)] :
          ChunkedMessage(message, end, blank, n, at) /\ HeadInv(end, blank) /\ ChunkInv(n, at)

ContentInv == HttpInv /\ Underway /\ Outcome /\ MessageInv

\* What Judged says of a message puts it into one of the sorts.
LEMMA MessageSorts ==
    ASSUME Judged, NEW m \in Messages
    PROVE  \/ Unreadable(m) /\ ~m.ok
           \/ \E end \in Nat, blank \in Blanks : BodyMessage(m, end, blank)
           \/ \E end \in Nat, blank \in Blanks, n \in Nat :
              \E at \in [1..n + 1 -> Behind(end, blank)..Len(m.text)] : ChunkedMessage(m, end, blank, n, at)
<1>1. Len(m.text) \in Nat
  BY HttpAssumption, LenProperties
<1>2. CASE m.ok
  <2>1. /\ m.content \in Seq(Token)
        /\ At(m.text, 0, <<start1, start2>>)
        /\ \E end \in 0..Len(m.text), blank \in Blanks :
              /\ HeadedBy(m.text, end, blank) /\ Behind(end, blank) - 1 <= MaxHeaderSize
              /\ ContentLength(Before(m.text, end)) # -1
              /\ IF IsChunked(m, end)
                 THEN \E n \in 1..Len(m.text) : \E at \in [1..n + 1 -> Behind(end, blank)..Len(m.text)] :
                        WholeChunks(m, Behind(end, blank), n, at)
                 ELSE WholeBody(m, Behind(end, blank), ContentLength(Before(m.text, end)))
    BY <1>2 DEF Judged, WellFormed
  <2>2. PICK end \in 0..Len(m.text), blank \in Blanks :
          /\ HeadedBy(m.text, end, blank) /\ Behind(end, blank) - 1 <= MaxHeaderSize
          /\ ContentLength(Before(m.text, end)) # -1
          /\ IF IsChunked(m, end)
             THEN \E n \in 1..Len(m.text) : \E at \in [1..n + 1 -> Behind(end, blank)..Len(m.text)] :
                    WholeChunks(m, Behind(end, blank), n, at)
             ELSE WholeBody(m, Behind(end, blank), ContentLength(Before(m.text, end)))
    BY <2>1
  <2>3. Begins(m, end, blank) /\ end \in Nat
    BY <1>1, <2>1, <2>2 DEF Begins
  <2>4. CASE IsChunked(m, end)
    <3>1. PICK n \in 1..Len(m.text) : \E at \in [1..n + 1 -> Behind(end, blank)..Len(m.text)] :
            WholeChunks(m, Behind(end, blank), n, at)
      BY <2>2, <2>4
    <3>2. PICK at \in [1..n + 1 -> Behind(end, blank)..Len(m.text)] :
            WholeChunks(m, Behind(end, blank), n, at)
      BY <3>1
    <3>3. n \in Nat /\ n # 0
      BY <1>1
    <3>4. ChunkedMessage(m, end, blank, n, at)
      BY <1>2, <2>1, <2>2, <2>3, <2>4, <3>2, <3>3 DEF ChunkedMessage
    <3> QED  BY <2>3, <3>3, <3>4
  <2>5. CASE ~IsChunked(m, end)
    <3>1. BodyMessage(m, end, blank)
      BY <1>2, <2>1, <2>2, <2>3, <2>5 DEF BodyMessage
    <3> QED  BY <2>3, <3>1
  <2> QED  BY <2>4, <2>5
<1>3. CASE ~m.ok
  <2>1. CASE Unreadable(m)
    BY <1>3, <2>1
  <2>2. CASE ~Unreadable(m)
    <3>1. PICK end \in 0..Len(m.text), blank \in Blanks :
            /\ HeadedBy(m.text, end, blank)
            /\ IF IsChunked(m, end)
               THEN \E n \in 0..Len(m.text) : \E at \in [1..n + 1 -> Behind(end, blank)..Len(m.text)] :
                      BrokenChunks(m, Behind(end, blank), n, at)
               ELSE ShortBody(m, Behind(end, blank), ContentLength(Before(m.text, end)))
      BY <1>3, <2>2 DEF Judged, IllFormed
    <3>2. end \in Nat
      BY <1>1
    <3>3. CASE IsChunked(m, end)
      <4>1. PICK n \in 0..Len(m.text) : \E at \in [1..n + 1 -> Behind(end, blank)..Len(m.text)] :
              BrokenChunks(m, Behind(end, blank), n, at)
        BY <3>1, <3>3
      <4>2. PICK at \in [1..n + 1 -> Behind(end, blank)..Len(m.text)] :
              BrokenChunks(m, Behind(end, blank), n, at)
        BY <4>1
      <4>3. n \in Nat
        BY <1>1
      <4>4. ChunkedMessage(m, end, blank, n, at)
        BY <1>3, <3>1, <3>3, <4>2, <4>3 DEF ChunkedMessage
      <4> QED  BY <3>2, <4>3, <4>4
    <3>4. CASE ~IsChunked(m, end)
      <4>1. BodyMessage(m, end, blank)
        BY <1>3, <3>1, <3>4 DEF BodyMessage
      <4> QED  BY <3>2, <4>1
    <3> QED  BY <3>3, <3>4
  <2> QED  BY <2>1, <2>2
<1> QED  BY <1>2, <1>3

LEMMA ContentInit ==
    ASSUME Judged, Init
    PROVE  ContentInv
<1>1. HttpInv /\ message \in Messages
  BY InitHolds DEF Init
<1>2. /\ pc = "idle" /\ status = "Unknown" /\ taken = 0 /\ body = <<>> /\ ~header_ended
  BY DEF Init
<1>3. Underway
  <2>1. Holds(0, 0)
    <3>1. Len(body) = 0 /\ \A i \in 1..0 : FALSE
      BY <1>2
    <3> QED  BY <1>2, <3>1 DEF Holds
  <2> QED  BY <1>2, <2>1 DEF Underway
<1>4. Outcome /\ Unread
  BY <1>2 DEF Outcome, ContentIntact, Accepted, Unread
<1>5. \A end \in Nat, blank \in Blanks : HeadInv(end, blank) /\ BodyInv(end, blank)
  BY <1>2 DEF HeadInv, BodyInv
<1>6. \A n, at : ChunkInv(n, at)
  BY <1>2 DEF ChunkInv
<1>7. MessageInv
  BY <1>1, <1>4, <1>5, <1>6, MessageSorts DEF MessageInv, Text
<1> QED  BY <1>1, <1>3, <1>4, <1>7 DEF ContentInv

LEMMA ContentStep ==
    ASSUME LimitFits, ContentInv, Next
    PROVE  ContentInv'
<1>1. HttpInv /\ Underway /\ Outcome /\ MessageInv
  BY DEF ContentInv
<1>2. HttpInv' /\ Underway'
  BY <1>1, StepHolds, UnderwayStep
<1>3. message' = message /\ Text' = Text
  <2>1. message' = message
    BY DEF Next, Receive, Parse, ReceiveBegin, ReceivePart, ReceiveFails, PeerCloses, Over, Waits,
           HeaderUnread, HeaderRefused, HeaderEnds, BodyTooBig, BodyParsed, ChunksBegin,
           ChunkIncomplete, ChunkParsed, ChunkThrows, ChunksEnd, connection, vars
  <2> QED  BY <2>1 DEF Text
<1>4. CASE Unreadable(message) /\ ~message.ok /\ Unread
  <2>1. Unread'
    BY <1>1, <1>4, UnreadStep
  <2>2. Outcome'
    BY <1>3, <1>4, <2>1 DEF Unread, Outcome, ContentIntact, Accepted
  <2> QED  BY <1>2, <1>3, <1>4, <2>1, <2>2 DEF ContentInv, MessageInv
<1>5. CASE \E end \in Nat, blank \in Blanks :
             BodyMessage(message, end, blank) /\ HeadInv(end, blank) /\ BodyInv(end, blank)
  <2>1. PICK end \in Nat, blank \in Blanks :
          BodyMessage(message, end, blank) /\ HeadInv(end, blank) /\ BodyInv(end, blank)
    BY <1>5
  <2>2. BodyInv(end, blank)' /\ Outcome'
    BY <1>1, <2>1, BodyStep
  <2>3. HeadInv(end, blank)'
    BY <1>1, <2>1, HeadStep DEF BodyMessage, Text
  <2>4. BodyMessage(message, end, blank)'
    BY <1>3, <2>1
  <2>5. MessageInv'
    BY <2>2, <2>3, <2>4 DEF MessageInv
  <2> QED  BY <1>2, <2>2, <2>5 DEF ContentInv
<1>6. CASE \E end \in Nat, blank \in Blanks, n \in Nat :
           \E at \in [1..n + 1 -> Behind(end, blank)..Len(Text)] :
              ChunkedMessage(message, end, blank, n, at) /\ HeadInv(end, blank) /\ ChunkInv(n, at)
  <2>1. PICK end \in Nat, blank \in Blanks, n \in Nat :
             \E at \in [1..n + 1 -> Behind(end, blank)..Len(Text)] :
               ChunkedMessage(message, end, blank, n, at) /\ HeadInv(end, blank) /\ ChunkInv(n, at)
    BY <1>6
  <2>2. PICK at \in [1..n + 1 -> Behind(end, blank)..Len(Text)] :
          ChunkedMessage(message, end, blank, n, at) /\ HeadInv(end, blank) /\ ChunkInv(n, at)
    BY <2>1
  <2>3. ChunkInv(n, at)' /\ Outcome'
    BY <1>1, <2>2, ChunkStep
  <2>4. HeadInv(end, blank)'
    BY <1>1, <2>2, HeadStep DEF ChunkedMessage, Text
  <2>5. ChunkedMessage(message, end, blank, n, at)'
    BY <1>3, <2>2
  <2>6. at \in [1..n + 1 -> Behind(end, blank)..Len(Text')]
    BY <1>3
  <2>7. MessageInv'
    BY <2>3, <2>4, <2>5, <2>6 DEF MessageInv
  <2> QED  BY <1>2, <2>3, <2>7 DEF ContentInv
<1> QED  BY <1>1, <1>4, <1>5, <1>6 DEF MessageInv

LEMMA ContentStutter ==
    ASSUME ContentInv, UNCHANGED vars
    PROVE  ContentInv'
<1>1. /\ HttpInv /\ Underway /\ Outcome /\ MessageInv /\ HttpInv' /\ Text' = Text
      /\ UNCHANGED <<message, taken, pc, status, body, header_ended, content_length, encoded,
                     chunk_offset, chunk_len>>
  BY StepHolds DEF ContentInv, vars, connection, object, Text
<1>2. Underway' /\ Outcome' /\ (Unread => Unread')
  BY <1>1 DEF Underway, Holds, Outcome, ContentIntact, Accepted, Unread
<1>3. ASSUME NEW end \in Nat, NEW blank \in Blanks
      PROVE  /\ HeadInv(end, blank) => HeadInv(end, blank)'
             /\ BodyInv(end, blank) => BodyInv(end, blank)'
  BY <1>1 DEF HeadInv, BodyInv, Holds
<1>4. ASSUME NEW n, NEW at, ChunkInv(n, at)
      PROVE  ChunkInv(n, at)'
  <2>1. ASSUME NEW k \in 1..n + 1, ChunkState(n, at, k)
        PROVE  ChunkState(n, at, k)'
    BY <1>1, <2>1, ChunkSame
  <2> QED  BY <1>1, <1>4, <2>1 DEF ChunkInv
<1>5. MessageInv'
  <2>1. Unreadable(message)' <=> Unreadable(message)
    BY <1>1
  <2>2. \A end, blank : BodyMessage(message, end, blank)' <=> BodyMessage(message, end, blank)
    BY <1>1
  <2>3. \A end, blank, n, at :
          ChunkedMessage(message, end, blank, n, at)' <=> ChunkedMessage(message, end, blank, n, at)
    BY <1>1
  <2>4. CASE Unreadable(message) /\ ~message.ok /\ Unread
    BY <1>1, <1>2, <2>4 DEF MessageInv
  <2>5. CASE \E end \in Nat, blank \in Blanks :
               BodyMessage(message, end, blank) /\ HeadInv(end, blank) /\ BodyInv(end, blank)
    BY <1>3, <2>2, <2>5 DEF MessageInv
  <2>6. CASE \E end \in Nat, blank \in Blanks, n \in Nat :
             \E at \in [1..n + 1 -> Behind(end, blank)..Len(Text)] :
                ChunkedMessage(message, end, blank, n, at) /\ HeadInv(end, blank) /\ ChunkInv(n, at)
    BY <1>1, <1>3, <1>4, <2>3, <2>6 DEF MessageInv
  <2> QED  BY <1>1, <2>4, <2>5, <2>6 DEF MessageInv
<1> QED  BY <1>1, <1>2, <1>5 DEF ContentInv

LEMMA ContentHolds ==
    ASSUME Judged, LimitFits
    PROVE  Spec => []ContentInv
<1>1. Init => ContentInv
  BY ContentInit
<1>2. ContentInv /\ [Next]_vars => ContentInv'
  BY ContentStep, ContentStutter
<1> QED  BY <1>1, <1>2, PTL DEF Spec

--------------------------------------------------------------------------------
(* The theorems.                                                               *)

\* However messages are made and cut, every variable of receive and parse keeps its type:
\* no length wraps, and chunk_offset stays within the body that the erases shorten.
THEOREM HttpTypes == Spec => []TypeOK
<1>1. HttpInv => TypeOK
  BY DEF HttpInv
<1> QED  BY <1>1, InitHolds, StepHolds, PTL DEF Spec

\* A receive that returns WouldBlock or Timeout has read nothing and left the object as it
\* was, as the documentation of Http::receive says.
THEOREM HttpQuiet == Spec => []QuietMeansUntouched
<1>1. HttpInv => QuietMeansUntouched
  BY DEF HttpInv, Untouched, QuietMeansUntouched
<1> QED  BY <1>1, InitHolds, StepHolds, PTL DEF Spec

\* What one object buffers is bounded by the larger limit and one read, whatever the peer
\* sends.
THEOREM HttpBounded == Spec => []Bounded
<1>1. HttpInv => Bounded
  BY DEF HttpInv, Limits, Bounded, LongestBody
<1> QED  BY <1>1, InitHolds, StepHolds, PTL DEF Spec

\* Http.cpp, HttpRequest.cpp, HttpResponse.cpp: receive returns Success only for a message
\* that is all there, and then the object holds its content, whatever the messages (as long
\* as each is in order or not, Judged), their cuttings, the size of a read and the limits.
THEOREM ContentArrivesIntact ==
    ASSUME Judged, LimitFits
    PROVE  Spec => []ContentIntact
<1>1. ContentInv => ContentIntact
  BY DEF ContentInv, Outcome
<1> QED  BY <1>1, ContentHolds, PTL

\* In no cutting is a message in order refused: not for its header, its length, its chunks or
\* a limit.
THEOREM WellFormedAccepted ==
    ASSUME Judged, LimitFits
    PROVE  Spec => []Accepted
<1>1. ContentInv => Accepted
  BY DEF ContentInv, Outcome
<1> QED  BY <1>1, ContentHolds, PTL
=================================================================================
