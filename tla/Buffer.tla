------------------------------- MODULE Buffer -------------------------------
(***************************************************************************)
(* bco::Buffer and detail::BufferBase (include/bco/buffer.h,               *)
(* src/buffer.cpp) with the gather of syscall_sendv (src/common.cpp).      *)
(* The words that its templates read are at the end.                       *)
(*                                                                         *)
(* The bytes are kept in a list of chunks.  A sub-buffer is a start and an *)
(* end over the same list, so that sub-buffers are not state: what they    *)
(* give is a function of the list; a sub-buffer of a sub-buffer is counted *)
(* from the start of the list too.  A word is the sequence of its bytes,   *)
(* the most significant first.                                             *)
(***************************************************************************)
EXTENDS Naturals, Sequences, SequencesExt

CONSTANTS
    Contents,       \* what callers push, insert and start from
    Spans,          \* what they give to Buffer(span)
    Words,          \* the words they write
    MaxBytes,       \* bound on the bytes of a buffer that grows
    MaxChunks       \* bound on its chunks

Byte == 0..255

ASSUME BufferAssumption ==
    /\ Contents \subseteq Seq(Byte) /\ Spans \subseteq Seq(Byte)
    /\ Words \subseteq Seq(Byte)
    /\ MaxBytes \in Nat /\ MaxChunks \in Nat

VARIABLES
    buffer_,        \* std::list<std::vector<uint8_t>>
    text            \* the bytes the caller should find, in one array

bufferVars == <<buffer_, text>>

BufferTypeOK == buffer_ \in Seq(Seq(Byte)) /\ text \in Seq(Byte)

Zeros(n) == [i \in 1..n |-> 0]

size == Len(FlattenSeq(buffer_))

\* Where chunk k begins (curr_pos in the code's loops), and where it ends.
Begin(k) == Len(FlattenSeq(SubSeq(buffer_, 1, k - 1)))
End(k) == Begin(k) + Len(buffer_[k])

\* Buffer(), Buffer(size), Buffer(vector&&).  Buffer(span) passes two
\* iterators to the list, which makes a chunk of each byte: as many zeros as
\* the byte says.
BufferInit ==
    \/ buffer_ = <<>> /\ text = <<>>
    \/ \E n \in {MaxBytes, 8} : buffer_ = <<Zeros(n)>> /\ text = Zeros(n)
    \/ \E d \in Contents : buffer_ = <<d>> /\ text = d
    \/ \E d \in Spans :
         buffer_ = [i \in DOMAIN d |-> Zeros(d[i])] /\ text = d
-----------------------------------------------------------------------------
(* Calls that change the bytes.                                             *)

Grown(d, new_slice) ==
    IF new_slice \/ buffer_ = <<>>
    THEN Append(buffer_, d)
    ELSE ReplaceAt(buffer_, Len(buffer_), Last(buffer_) \o d)

Room(d) == size + Len(d) <= MaxBytes /\ Len(buffer_) < MaxChunks

push_back(d, new_slice) ==
    /\ Room(d)
    /\ buffer_' = Grown(d, new_slice)
    /\ text' = text \o d

\* The chunk where the loop of insert() stops: the first that begins at
\* index or goes beyond it.
Stops(index) ==
    {k \in DOMAIN buffer_ : Begin(k) = index \/ End(k) > index}
First(S) == CHOOSE k \in S : \A j \in S : k <= j

Spliced(s, i, d) == SubSeq(s, 1, i) \o d \o SubSeq(s, i + 1, Len(s))

\* Variant of Inserted: behind the chunk that begins at index.
Inserted_behind(index, d) ==
    IF index = size THEN Grown(d, TRUE)
    ELSE IF Stops(index) = {} THEN buffer_
    ELSE LET k == First(Stops(index)) IN
         IF Begin(k) = index THEN InsertAt(buffer_, k + 1, d)
         ELSE ReplaceAt(buffer_, k, Spliced(buffer_[k], index - Begin(k), d))

Inserted(index, d) ==
    IF index = size THEN Grown(d, TRUE)
    ELSE IF Stops(index) = {} THEN buffer_
    ELSE LET k == First(Stops(index)) IN
         IF Begin(k) = index THEN InsertAt(buffer_, k, d)
         ELSE ReplaceAt(buffer_, k, Spliced(buffer_[k], index - Begin(k), d))

\* An index beyond the end inserts nothing.
insert(index, d) ==
    /\ Room(d)
    /\ buffer_' = Inserted(index, d)
    /\ text' = IF index <= Len(text) THEN Spliced(text, index, d) ELSE text

\* operator[]: the chunk that holds index; there is none beyond the end.
Holds(index) == {k \in DOMAIN buffer_ : End(k) > index}
At(index) == LET k == First(Holds(index)) IN buffer_[k][index - Begin(k) + 1]

\* The templates go on from &operator[](index) in memory, so that a word must
\* fit into one chunk; the caller sees to that.
Fits(index, n) ==
    /\ Holds(index) # {}
    /\ index + n <= End(First(Holds(index)))

Overwritten(s, i, d) ==
    [j \in DOMAIN s |-> IF j - i \in DOMAIN d THEN d[j - i] ELSE s[j]]

\* write_big_endian_at of w, or write_little_endian_at of the reverse; as a
\* bound, at a multiple of its length.
write_at(index, w) ==
    /\ Fits(index, Len(w)) /\ index % Len(w) = 0
    /\ LET k == First(Holds(index)) IN
       buffer_' = ReplaceAt(buffer_, k,
                            Overwritten(buffer_[k], index - Begin(k), w))
    /\ text' = Overwritten(text, index, w)

BufferNext ==
    \/ \E d \in Contents, new_slice \in BOOLEAN : push_back(d, new_slice)
    \/ \E d \in Contents, index \in 0..MaxBytes : insert(index, d)
    \/ \E w \in Words, index \in 0..7 : write_at(index, w)

BufferSpec == BufferInit /\ [][BufferNext]_bufferVars
-----------------------------------------------------------------------------
(* Calls that read.                                                         *)

Npos == 2^30            \* size_t's maximum, the end_ of a whole buffer

\* operator[] of the sub-buffer from start to end: the byte, or <<>> if it
\* throws.
SubbufAt(start, end, index) ==
    IF index >= end - start \/ Holds(start + index) = {} THEN <<>>
    ELSE <<At(start + index)>>

Least(a, b) == IF a < b THEN a ELSE b

\* data(start, end): the part of chunk k it gives, <<k, first byte, length>>,
\* for each chunk that begins before end.  Length and start are unsigned: a
\* length below 0 wraps to more than any other.
Unsigned(n, m) == IF n >= m THEN n - m ELSE Npos

\* Variant of Slice: the last chunk is given whole.
Slice_end_whole(k, start, end) ==
    CASE End(k) <= start /\ Begin(k) < start -> <<>>
      [] Begin(k) = start \/ Begin(k) > start -> <<<<k, 0, Len(buffer_[k])>>>>
      [] OTHER -> <<<<k, start - Begin(k),
                      Least(end - start, Unsigned(Len(buffer_[k]), start))>>>>

Slice(k, start, end) ==
    CASE Begin(k) = start -> <<<<k, 0, Len(buffer_[k])>>>>
      [] Begin(k) # start /\ End(k) <= start -> <<>>
      [] Begin(k) < start /\ End(k) > start ->
           <<<<k, start - Begin(k),
               Least(end - start, Unsigned(Len(buffer_[k]), start))>>>>
      [] Begin(k) > start /\ End(k) <= end -> <<<<k, 0, Len(buffer_[k])>>>>
      [] Begin(k) > start /\ End(k) > end -> <<<<k, 0, end - Begin(k)>>>>

data(start, end) ==
    FlattenSeq([k \in DOMAIN buffer_ |->
                  IF Begin(k) < end THEN Slice(k, start, end) ELSE <<>>])

\* What the system call sends: the bytes of the slices in order.  A slice
\* that leaves its chunk sends memory that is not the buffer's: Wild.
Wild == 256
Memory(c, i) == IF i \in DOMAIN c THEN c[i] ELSE Wild
syscall_sendv(slices) ==
    FlattenSeq([j \in DOMAIN slices |->
        [i \in 1..slices[j][3] |->
           Memory(buffer_[slices[j][1]], slices[j][2] + i)]])
-----------------------------------------------------------------------------
(* Words: the byte order functions of bco/utils.h, and the accessors of     *)
(* Buffer that use them.                                                    *)

\* read_big_endian: value |= buff[i] << (distance of the byte from the last)
\* where buff[i] is promoted to int, four bytes wide.  A byte shifted into
\* the sign is extended to a wider value.  Shifting it by more than the width
\* is undefined: the byte comes back at the bottom, or is lost (those in
\* Kept come back).  Place(j, b, p, Kept) is what byte b, at a distance of
\* j from the last, gives to the byte at distance p.
Place(j, b, p, Kept) ==
    LET s == IF j \in Kept THEN j - 4 ELSE j IN
    IF s > 3 THEN 0
    ELSE IF p = s THEN b
    ELSE IF s = 3 /\ p > 3 /\ b >= 128 THEN 255
    ELSE 0

\* What |= makes of bytes, from 0: each bit that is set in one of them.
Or(bytes) ==
    LET On(b) == IF \E x \in bytes : (x \div b) % 2 = 1 THEN b ELSE 0
    IN  On(1) + On(2) + On(4) + On(8) + On(16) + On(32) + On(64) + On(128)

ReadBytes(bytes, Kept) ==
    LET n == Len(bytes) IN
    [p \in 1..n |->
       Or({Place(n - i, bytes[i], n - p, Kept) : i \in 1..n})]

\* The values that reading a word of n bytes may give.
read_big_endian_at(index, n) ==
    {ReadBytes([i \in 1..n |-> At(index + i - 1)], Kept)
        : Kept \in SUBSET (4..(n - 1))}

\* read_little_endian does the same from the other end.
read_little_endian_at(index, n) ==
    {ReadBytes([i \in 1..n |-> At(index + n - i)], Kept)
        : Kept \in SUBSET (4..(n - 1))}
-----------------------------------------------------------------------------
(* Properties.                                                              *)

\* However the bytes are cut into chunks, the buffer holds what the same
\* calls would have made of one array, and operator[] finds each of them.
SameBytes ==
    /\ size = Len(text)
    /\ \A i \in 0..(size - 1) : At(i) = text[i + 1]

Bytes(start, end) == SubSeq(text, start + 1, end)

\* The windows of which data() gives the bytes: no chunk that begins where
\* the window does goes beyond its end, and a window that begins inside of a
\* chunk begins inside of the buffer's first bytes.
Clean(start, end) ==
    \A k \in DOMAIN buffer_ :
        /\ Begin(k) = start /\ start < end => End(k) <= end
        /\ Begin(k) < start /\ start < End(k) => Begin(k) = 0

\* A whole buffer is sent byte by byte; so is a sub-buffer, if it is Clean.
WindowsSent ==
    /\ syscall_sendv(data(0, Npos)) = text
    /\ \A start \in 0..size : \A end \in start..size :
          Clean(start, end) =>
              syscall_sendv(data(start, end)) = Bytes(start, end)

\* The words that fit an int's shifts: of at most four bytes, or wide ones
\* whose value is below 2^31.
Narrow(w) == Len(w) <= 4 \/ (w[5] < 128 /\ \A i \in 1..4 : w[i] = 0)

\* A word reads as the bytes that stand there, in either order.
WordsRead ==
    \A index \in 0..(size - 1), n \in {1, 2, 4, 8} :
        Fits(index, n) =>
            LET w == Bytes(index, index + n) IN
            /\ Narrow(w) => read_big_endian_at(index, n) = {w}
            /\ Narrow(Reverse(w)) =>
                 read_little_endian_at(index, n) = {Reverse(w)}

\* A sub-buffer, even one that ends beyond the buffer, gives its own bytes
\* and throws for any other index.
SubbufsRead ==
    \A start, count, index \in 0..(size + 1) :
        SubbufAt(start, start + count, index) =
            IF index < count /\ start + index < size
            THEN <<text[start + index + 1]>> ELSE <<>>

\* What is read of a buffer, by slices, by words or by the bytes of a
\* sub-buffer, is what it holds.
Reads == WindowsSent /\ WordsRead /\ SubbufsRead
=============================================================================
