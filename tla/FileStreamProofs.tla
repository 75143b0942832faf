-------------------------- MODULE FileStreamProofs --------------------------
(***************************************************************************)
(* Proofs, for files, chunks, tags, headers and appended bytes of any      *)
(* sizes, of the properties that the run file_stream checks on a small     *)
(* instance.                                                               *)
(***************************************************************************)
EXTENDS FileStream, SequenceFacts

-----------------------------------------------------------------------------
(***************************************************************************)
(* The bytes of a file as the encryptor writes it: how many frames a       *)
(* plaintext has, what each of them is, where its bytes are in the file,   *)
(* and what a decryptor can tell from one byte.                            *)
(***************************************************************************)
C == ChunkSize

\* The sizes, as the arithmetic needs them.
LEMMA Sizes ==
    /\ C \in Nat /\ C >= 1 /\ ABytes \in Nat /\ ABytes >= 1
    /\ HeaderSize \in Nat /\ HeaderSize >= 1
    /\ FrameSize \in Nat /\ FrameSize >= 2 /\ FrameSize = C + ABytes
    /\ MaxFile \in Nat
  BY SizesAssumption DEF C, FrameSize

-----------------------------------------------------------------------------
(***************************************************************************)
(* Arithmetic: what is drained, and how many chunks a file has.            *)
(***************************************************************************)
LEMMA Quotient ==
    ASSUME NEW c \in Nat, c >= 1, NEW m \in Nat
    PROVE  /\ m \div c \in Nat
           /\ (m \div c) * c <= m
           /\ m < (m \div c) * c + c
  OBVIOUS

LEMMA Distributes ==
    ASSUME NEW c \in Nat, NEW m \in Nat, NEW n \in Nat
    PROVE  (m + n) * c = m * c + n * c /\ m * c \in Nat /\ n * c \in Nat
  OBVIOUS

LEMMA MoreIsLonger ==
    ASSUME NEW c \in Nat, c >= 1, NEW m \in Nat, NEW n \in Nat, m < n
    PROVE  m * c + c <= n * c
<1>1. PICK d \in Nat : n = m + 1 + d
  <2>1. n - m - 1 \in Nat /\ n = m + 1 + (n - m - 1)
    OBVIOUS
  <2>2. QED
    BY <2>1
<1>2. n * c = m * c + c + d * c /\ d * c \in Nat /\ m * c \in Nat
  BY <1>1
<1>3. QED
  BY <1>2

\* Two ways to divide a length into pieces, the last of them not empty.
LEMMA SameQuotient ==
    ASSUME NEW c \in Nat, c >= 1, NEW m \in Nat, NEW n \in Nat,
           NEW r \in 1 .. c, NEW s \in 1 .. c, m * c + r = n * c + s
    PROVE  m = n /\ r = s
<1>1. m * c \in Nat /\ n * c \in Nat
  OBVIOUS
<1>2. ~(m < n)
  <2>1. m < n => m * c + c <= n * c
    BY MoreIsLonger
  <2>2. QED
    BY <1>1, <2>1
<1>3. ~(n < m)
  <2>1. n < m => n * c + c <= m * c
    BY MoreIsLonger
  <2>2. QED
    BY <1>1, <2>1
<1>4. m = n
  BY <1>2, <1>3
<1>5. QED
  BY <1>1, <1>4

\* Draining leaves something, and at most a piece.
LEMMA Drained ==
    ASSUME NEW c \in Nat, c >= 1, NEW length \in Nat, NEW n,
           n = IF length = 0 THEN 0 ELSE (length - 1) \div c
    PROVE  /\ n \in Nat /\ n * c \in Nat
           /\ n * c <= length /\ length - n * c <= c
           /\ length > 0 => length - n * c >= 1
<1>1. CASE length = 0
  BY <1>1
<1>2. CASE length # 0
  <2> DEFINE m == length - 1
  <2>1. m \in Nat /\ n = m \div c
    BY <1>2
  <2>2. n \in Nat /\ n * c <= m /\ m < n * c + c
    BY <2>1, Quotient
  <2>3. n * c \in Nat
    BY <2>2
  <2>4. QED
    BY <2>2, <2>3
<1>3. QED
  BY <1>1, <1>2

\* The number of chunks of a file of m whole ones and a last one of r bytes.
LEMMA LastChunk ==
    ASSUME NEW m \in Nat, NEW r \in 1 .. C
    PROVE  (m * C + r + C - 1) \div C = m + 1
<1>1. m * C \in Nat /\ C \in Nat /\ C >= 1
  BY Sizes
<1> DEFINE len == m * C + r + C - 1
           q == len \div C
<1>2. len \in Nat
  BY <1>1
<1>3. q \in Nat /\ q * C <= len /\ len < q * C + C
  BY <1>1, <1>2, Quotient
<1>4. len = (m + 1) * C + (r - 1)
  BY <1>1
<1>5. q * C \in Nat /\ (m + 1) * C \in Nat
  BY <1>1, <1>3
<1> HIDE DEF len, q
<1>6. ~(q < m + 1)
  <2>1. q < m + 1 => q * C + C <= (m + 1) * C
    BY <1>1, <1>3, MoreIsLonger
  <2>2. QED
    BY <1>1, <1>3, <1>4, <1>5, <2>1
<1>7. ~(m + 1 < q)
  <2>1. m + 1 < q => (m + 1) * C + C <= q * C
    BY <1>1, <1>3, MoreIsLonger
  <2>2. QED
    BY <1>1, <1>3, <1>4, <1>5, <2>1
<1>8. q = m + 1
  BY <1>3, <1>6, <1>7
<1>9. QED
  BY <1>8 DEF q, len

LEMMA NoChunk == (0 + C - 1) \div C = 0
<1>1. C \in Nat /\ C >= 1 /\ C - 1 \in Nat
  BY Sizes
<1> DEFINE q == (C - 1) \div C
<1>2. q \in Nat /\ q * C <= C - 1
  BY <1>1, Quotient
<1> HIDE DEF q
<1>3. 0 < q => 0 * C + C <= q * C
  BY <1>1, <1>2, MoreIsLonger
<1>4. q = 0
  BY <1>1, <1>2, <1>3
<1>5. QED
  BY <1>1, <1>4 DEF q

-----------------------------------------------------------------------------
(***************************************************************************)
(* Frames, their bytes, and those of a whole file.                         *)
(***************************************************************************)
AnyFrame == [place : Int, data : Seq(Nat), final : BOOLEAN]

AnyByte == [of : AnyFrame, at : Int]

\* A piece of the plaintext: n bytes after the first m.
Stretch(m, n) == [j \in 1 .. n |-> m + j]

\* The frame of a whole chunk that is not the last.
FullFrame(i) == Frame(i, Stretch((i - 1) * C, C), FALSE)

\* The last frame of a file of m whole chunks and r bytes.
LastFrame(m, r) == Frame(m + 1, Stretch(m * C, r), TRUE)

FullBytes(n) == [i \in 1 .. n |-> BytesOf(FullFrame(i))]

FileBytes(n) == [i \in 1 .. Len(Frames(n)) |-> BytesOf(Frames(n)[i])]

LEMMA StretchIs ==
    ASSUME NEW m \in Nat, NEW n \in Nat
    PROVE  /\ Stretch(m, n) \in Seq(Nat) /\ Len(Stretch(m, n)) = n
           /\ \A j \in 1 .. n : Stretch(m, n)[j] = m + j
  BY DEF Stretch

LEMMA BytesOfIs ==
    ASSUME NEW frame \in AnyFrame
    PROVE  /\ BytesOf(frame) \in Seq(AnyByte)
           /\ Len(BytesOf(frame)) = Len(frame.data) + ABytes
           /\ Len(frame.data) \in Nat
           /\ BytesOf(frame)[1].of = frame
           /\ \A j \in 1 .. Len(frame.data) + ABytes : BytesOf(frame)[j].of = frame
<1>1. Len(frame.data) \in Nat
  BY DEF AnyFrame
<1>2. Len(frame.data) + ABytes \in Nat /\ 1 \in 1 .. Len(frame.data) + ABytes
  BY <1>1, Sizes
<1>3. \A j \in Int : ByteOf(frame, j) \in AnyByte /\ ByteOf(frame, j).of = frame
  BY DEF ByteOf, AnyByte
<1> DEFINE n == Len(frame.data) + ABytes
<1> HIDE DEF n
<1>4. BytesOf(frame) = [i \in 1 .. n |-> ByteOf(frame, i)] /\ n \in Nat /\ 1 \in 1 .. n
  BY <1>2 DEF BytesOf, n
<1>5. /\ BytesOf(frame) \in Seq(AnyByte) /\ Len(BytesOf(frame)) = n
      /\ \A j \in 1 .. n : BytesOf(frame)[j].of = frame
  BY <1>3, <1>4
<1>6. QED
  BY <1>1, <1>4, <1>5 DEF n

LEMMA HeaderIs ==
    /\ HeaderBytes \in Seq(AnyByte) /\ Len(HeaderBytes) = HeaderSize
    /\ HeaderBytes # <<>>
    /\ \A j \in 1 .. HeaderSize : HeaderBytes[j].of.place = 0
<1>1. Frame(0, <<>>, FALSE) \in AnyFrame /\ Frame(0, <<>>, FALSE).place = 0
  BY DEF Frame, AnyFrame
<1>2. \A j \in Int : /\ ByteOf(Frame(0, <<>>, FALSE), j) \in AnyByte
                     /\ ByteOf(Frame(0, <<>>, FALSE), j).of = Frame(0, <<>>, FALSE)
  BY <1>1 DEF ByteOf, AnyByte
<1>3. /\ HeaderBytes \in Seq(AnyByte) /\ Len(HeaderBytes) = HeaderSize
      /\ \A j \in 1 .. HeaderSize : HeaderBytes[j].of.place = 0
  <2> DEFINE h(j) == ByteOf(Frame(0, <<>>, FALSE), j)
  <2>1. \A j \in Int : h(j) \in AnyByte /\ h(j).of.place = 0
    BY <1>1, <1>2
  <2>2. HeaderBytes = [j \in 1 .. HeaderSize |-> h(j)]
    BY DEF HeaderBytes
  <2> HIDE DEF h
  <2>3. QED
    BY <2>1, <2>2, Sizes
<1>4. QED
  BY <1>3, Sizes

LEMMA FullFrameIs ==
    ASSUME NEW i \in Nat \ {0}
    PROVE  /\ FullFrame(i) \in AnyFrame /\ Len(FullFrame(i).data) = C
           /\ FullFrame(i).place = i /\ ~FullFrame(i).final
           /\ FullFrame(i).data = Stretch((i - 1) * C, C)
           /\ BytesOf(FullFrame(i)) \in Seq(AnyByte)
           /\ Len(BytesOf(FullFrame(i))) = FrameSize
<1>1. (i - 1) * C \in Nat
  BY Sizes
<1>2. /\ Stretch((i - 1) * C, C) \in Seq(Nat)
      /\ Len(Stretch((i - 1) * C, C)) = C
  BY <1>1, Sizes, StretchIs
<1>3. /\ FullFrame(i) \in AnyFrame /\ FullFrame(i).data = Stretch((i - 1) * C, C)
      /\ FullFrame(i).place = i /\ ~FullFrame(i).final
  BY <1>2 DEF FullFrame, Frame, AnyFrame
<1>4. QED
  BY <1>2, <1>3, BytesOfIs, Sizes

LEMMA LastFrameIs ==
    ASSUME NEW m \in Nat, NEW r \in 1 .. C
    PROVE  /\ LastFrame(m, r) \in AnyFrame /\ Len(LastFrame(m, r).data) = r
           /\ LastFrame(m, r).place = m + 1 /\ LastFrame(m, r).final
           /\ LastFrame(m, r).data = Stretch(m * C, r)
           /\ BytesOf(LastFrame(m, r)) \in Seq(AnyByte)
           /\ Len(BytesOf(LastFrame(m, r))) = r + ABytes
<1>1. m * C \in Nat /\ r \in Nat
  BY Sizes
<1>2. Stretch(m * C, r) \in Seq(Nat) /\ Len(Stretch(m * C, r)) = r
  BY <1>1, StretchIs
<1>3. /\ LastFrame(m, r) \in AnyFrame /\ LastFrame(m, r).data = Stretch(m * C, r)
      /\ LastFrame(m, r).place = m + 1 /\ LastFrame(m, r).final
  BY <1>2 DEF LastFrame, Frame, AnyFrame
<1>4. QED
  BY <1>2, <1>3, BytesOfIs, Sizes

\* The frames of a file that is not empty, and of the empty one.
LEMMA FramesAre ==
    ASSUME NEW m \in Nat, NEW r \in 1 .. C
    PROVE  /\ Len(Frames(m * C + r)) = m + 1
           /\ \A i \in 1 .. m : Frames(m * C + r)[i] = FullFrame(i)
           /\ Frames(m * C + r)[m + 1] = LastFrame(m, r)
<1> DEFINE n == m * C + r
           last == (n + C - 1) \div C
           f == [i \in 1 .. last |->
                   Frame(i, [j \in 1 .. IF i < last THEN C ELSE n - (last - 1) * C
                               |-> (i - 1) * C + j], i = last)]
<1>1. last = m + 1
  BY LastChunk
<1>2. Frames(n) = f
  BY DEF Frames, C
<1> HIDE DEF last
<1>3. n - (last - 1) * C = r
  <2>1. last - 1 = m /\ m * C \in Nat
    BY <1>1, Sizes
  <2>2. QED
    BY <2>1
<1> HIDE DEF n
<1> DEFINE data(i) == [j \in 1 .. IF i < last THEN C ELSE n - (last - 1) * C
                         |-> (i - 1) * C + j]
<1>4. \A i \in 1 .. last : f[i] = Frame(i, data(i), i = last)
  OBVIOUS
<1>5. Len(f) = m + 1
  BY <1>1
<1> HIDE DEF f
<1>6. ASSUME NEW i \in 1 .. m PROVE f[i] = FullFrame(i)
  <2>1. i \in 1 .. last /\ i < last /\ (i = last) = FALSE
    BY <1>1
  <2>2. data(i) = Stretch((i - 1) * C, C)
    BY <2>1 DEF Stretch
  <2>3. f[i] = Frame(i, data(i), i = last)
    BY <1>4, <2>1
  <2> HIDE DEF data
  <2>4. QED
    BY <2>1, <2>2, <2>3 DEF FullFrame
<1>7. f[m + 1] = LastFrame(m, r)
  <2>1. last \in 1 .. last /\ ~(last < last) /\ (last = last) = TRUE
    BY <1>1
  <2>2. data(last) = Stretch((last - 1) * C, r)
    BY <1>3, <2>1 DEF Stretch
  <2>3. f[last] = Frame(last, data(last), last = last)
    BY <1>4, <2>1
  <2>4. last - 1 = m
    BY <1>1
  <2> HIDE DEF data
  <2>5. f[last] = Frame(last, Stretch(m * C, r), TRUE)
    BY <2>1, <2>2, <2>3, <2>4
  <2>6. QED
    BY <1>1, <2>5 DEF LastFrame
<1>8. QED
  BY <1>2, <1>5, <1>6, <1>7 DEF n

LEMMA NoFrames == Frames(0) = <<>> /\ Len(Frames(0)) = 0
<1>1. (0 + C - 1) \div C = 0
  BY NoChunk
<1>2. QED
  BY <1>1 DEF Frames, C

LEMMA Decomposed ==
    ASSUME NEW n \in Nat, n # 0
    PROVE  \E m \in Nat, r \in 1 .. C : n = m * C + r
<1> DEFINE m == (n - 1) \div C
           r == n - m * C
<1>1. n - 1 \in Nat /\ C \in Nat /\ C >= 1
  BY Sizes
<1>2. m \in Nat /\ m * C <= n - 1 /\ n - 1 < m * C + C
  BY <1>1, Quotient
<1>3. m * C \in Nat
  BY <1>1, <1>2
<1> HIDE DEF m
<1>4. r \in 1 .. C /\ n = m * C + r
  BY <1>1, <1>2, <1>3
<1>5. QED
  BY <1>2, <1>4

LEMMA FullBytesAre ==
    ASSUME NEW n \in Nat
    PROVE  /\ FullBytes(n) \in Seq(Seq(AnyByte)) /\ Len(FullBytes(n)) = n
           /\ \A i \in 1 .. n : /\ FullBytes(n)[i] = BytesOf(FullFrame(i))
                                /\ Len(FullBytes(n)[i]) = FrameSize
<1> DEFINE b(i) == BytesOf(FullFrame(i))
<1>1. \A i \in 1 .. n : b(i) \in Seq(AnyByte) /\ Len(b(i)) = FrameSize
  BY FullFrameIs
<1>2. FullBytes(n) = [i \in 1 .. n |-> b(i)]
  BY DEF FullBytes
<1> HIDE DEF b
<1>3. /\ FullBytes(n) \in Seq(Seq(AnyByte)) /\ Len(FullBytes(n)) = n
      /\ \A i \in 1 .. n : FullBytes(n)[i] = b(i) /\ Len(FullBytes(n)[i]) = FrameSize
  BY <1>1, <1>2
<1>4. QED
  BY <1>3 DEF b

\* The bytes of whole chunks after those of m of them.
LEMMA MoreFullBytes ==
    ASSUME NEW m \in Nat, NEW n \in Nat,
           NEW more, more = [i \in 1 .. n |-> BytesOf(FullFrame(m + i))]
    PROVE  /\ more \in Seq(Seq(AnyByte))
           /\ FullBytes(m + n) = Joined(FullBytes(m), more)
<1> DEFINE x == FullBytes(m)
           y == FullBytes(m + n)
<1>1. /\ x \in Seq(Seq(AnyByte)) /\ Len(x) = m
      /\ \A i \in 1 .. m : x[i] = BytesOf(FullFrame(i))
  BY FullBytesAre
<1>2. /\ y \in Seq(Seq(AnyByte)) /\ Len(y) = m + n
      /\ \A i \in 1 .. m + n : y[i] = BytesOf(FullFrame(i))
  BY FullBytesAre
<1>3. \A i \in 1 .. n : more[i] = BytesOf(FullFrame(m + i)) /\ more[i] \in Seq(AnyByte)
  BY FullFrameIs
<1>4. more \in [1 .. n -> Seq(AnyByte)]
  BY <1>3
<1>5. more \in Seq(Seq(AnyByte)) /\ Len(more) = n
  BY <1>4, FunctionIsSeq
<1> HIDE DEF x, y
<1>6. /\ Len(y) = Len(x) + Len(more)
      /\ \A k \in 1 .. Len(x) : y[k] = x[k]
      /\ \A k \in 1 .. Len(more) : y[Len(x) + k] = more[k]
  BY <1>1, <1>2, <1>3, <1>5
<1>7. y = Joined(x, more)
  BY <1>1, <1>2, <1>5, <1>6, JoinedEquals
<1>8. QED
  BY <1>5, <1>7 DEF x, y

LEMMA FileBytesAre ==
    ASSUME NEW m \in Nat, NEW r \in 1 .. C
    PROVE  /\ FileBytes(m * C + r) = Append(FullBytes(m), BytesOf(LastFrame(m, r)))
           /\ FileBytes(m * C + r) \in Seq(Seq(AnyByte))
           /\ Len(FileBytes(m * C + r)) = m + 1
           /\ \A i \in 1 .. m : /\ FileBytes(m * C + r)[i] = BytesOf(FullFrame(i))
                                /\ Len(FileBytes(m * C + r)[i]) = FrameSize
           /\ FileBytes(m * C + r)[m + 1] = BytesOf(LastFrame(m, r))
<1> DEFINE n == m * C + r
           x == FullBytes(m)
           e == BytesOf(LastFrame(m, r))
           y == FileBytes(n)
<1>1. /\ Len(Frames(n)) = m + 1
      /\ \A i \in 1 .. m : Frames(n)[i] = FullFrame(i)
      /\ Frames(n)[m + 1] = LastFrame(m, r)
  BY FramesAre
<1>2. /\ y = [i \in 1 .. m + 1 |-> BytesOf(Frames(n)[i])]
  BY <1>1 DEF FileBytes
<1>3. /\ x \in Seq(Seq(AnyByte)) /\ Len(x) = m
      /\ \A i \in 1 .. m : x[i] = BytesOf(FullFrame(i)) /\ Len(x[i]) = FrameSize
  BY FullBytesAre
<1>4. e \in Seq(AnyByte)
  BY LastFrameIs
<1> HIDE DEF n
<1>5. /\ \A i \in 1 .. m + 1 : y[i] = BytesOf(Frames(n)[i])
      /\ DOMAIN y = 1 .. m + 1
  BY <1>2
<1>6. \A i \in 1 .. m : y[i] = x[i]
  BY <1>1, <1>3, <1>5
<1>7. y[m + 1] = e
  BY <1>1, <1>5
<1> HIDE DEF x, e
<1>8. /\ Append(x, e) \in Seq(Seq(AnyByte)) /\ Len(Append(x, e)) = m + 1
      /\ \A i \in 1 .. m : Append(x, e)[i] = x[i]
      /\ Append(x, e)[m + 1] = e
  BY <1>3, <1>4, AppendProperties
<1>9. \A i \in 1 .. m + 1 : y[i] \in Seq(AnyByte)
  BY <1>3, <1>4, <1>6, <1>7
<1>10. y \in Seq(Seq(AnyByte)) /\ Len(y) = m + 1
  <2> DEFINE b(i) == BytesOf(Frames(n)[i])
  <2>1. \A i \in 1 .. m + 1 : b(i) \in Seq(AnyByte)
    BY <1>5, <1>9
  <2>2. y = [i \in 1 .. m + 1 |-> b(i)]
    BY <1>2
  <2> HIDE DEF b, y
  <2>3. QED
    BY <2>1, <2>2
<1> HIDE DEF y
<1>11. \A i \in 1 .. m + 1 : y[i] = Append(x, e)[i]
  BY <1>6, <1>7, <1>8
<1>12. y = Append(x, e)
  BY <1>8, <1>10, <1>11, SeqEqual
<1>13. QED
  BY <1>3, <1>6, <1>7, <1>10, <1>12 DEF x, y, e, n

LEMMA NoFileBytes == FileBytes(0) = <<>>
  BY NoFrames DEF FileBytes

\* A file of n bytes as the encryptor writes it.
FileWire(n) == Joined(HeaderBytes, FlattenSeq(FileBytes(n)))

\* Bytes that are of no frame, or of the frame of the file at their place.
GoodBytes(n) ==
    {b \in AnyByte : b.of.place >= 1 =>
        b.of.place \in 1 .. Len(Frames(n)) /\ b.of = Frames(n)[b.of.place]}

LEMMA EmptyWire == FileWire(0) = HeaderBytes /\ EncryptedFileSize(0) = HeaderSize
<1>1. FlattenSeq(FileBytes(0)) = <<>>
  BY NoFileBytes, FlattenEmpty
<1>2. FileWire(0) = HeaderBytes
  BY <1>1, HeaderIs, ConcatEmptySeq DEF FileWire, Joined
<1>3. (0 + C - 1) \div C = 0
  BY NoChunk
<1>4. EncryptedFileSize(0) = HeaderSize
  BY <1>3, Sizes DEF EncryptedFileSize, C
<1>5. QED
  BY <1>2, <1>4

\* Where the bytes of a file's frames are in it.
LEMMA WireIs ==
    ASSUME NEW m \in Nat, NEW r \in 1 .. C
    PROVE  /\ FileWire(m * C + r) \in Seq(AnyByte)
           /\ Len(FileWire(m * C + r)) = HeaderSize + m * FrameSize + r + ABytes
           /\ EncryptedFileSize(m * C + r) = Len(FileWire(m * C + r))
           /\ \A k \in 1 .. HeaderSize : FileWire(m * C + r)[k] = HeaderBytes[k]
           /\ \A i \in 1 .. m, j \in 1 .. FrameSize :
                 FileWire(m * C + r)[HeaderSize + ((i - 1) * FrameSize + j)]
                     = BytesOf(FullFrame(i))[j]
           /\ \A j \in 1 .. r + ABytes :
                 FileWire(m * C + r)[HeaderSize + (m * FrameSize + j)]
                     = BytesOf(LastFrame(m, r))[j]
<1> DEFINE n == m * C + r
           s == FileBytes(n)
           e == BytesOf(LastFrame(m, r))
           w == FlattenSeq(s)
<1>1. /\ s = Append(FullBytes(m), e) /\ s \in Seq(Seq(AnyByte)) /\ Len(s) = m + 1
      /\ \A i \in 1 .. m : s[i] = BytesOf(FullFrame(i)) /\ Len(s[i]) = FrameSize
      /\ s[m + 1] = e
  BY FileBytesAre
<1>2. e \in Seq(AnyByte) /\ Len(e) = r + ABytes
  BY LastFrameIs
<1>3. m * FrameSize \in Nat /\ FrameSize \in Nat /\ r + ABytes \in Nat
  BY Sizes
<1> HIDE DEF n
<1>4. w \in Seq(AnyByte) /\ Len(w) = m * FrameSize + r + ABytes
  <2>1. FullBytes(m) \in Seq(Seq(AnyByte)) /\ Len(FullBytes(m)) = m
    BY FullBytesAre
  <2>2. \A i \in 1 .. Len(FullBytes(m)) : Len(FullBytes(m)[i]) = FrameSize
    BY FullBytesAre
  <2> DEFINE f == FlattenSeq(FullBytes(m))
  <2>3. f \in Seq(AnyByte)
    BY <2>1, FlattenType
  <2>4. Len(f) = m * FrameSize
    BY <1>3, <2>1, <2>2, FlattenLength
  <2>5. w = Joined(f, e)
    BY <1>1, <1>2, <2>1, FlattenAppend
  <2> HIDE DEF e, f, w
  <2>6. w \in Seq(AnyByte) /\ Len(w) = Len(f) + Len(e)
    BY <1>2, <2>3, <2>5, JoinedIs
  <2>7. QED
    BY <1>2, <1>3, <2>4, <2>6, Sizes
<1>5. \A i \in 1 .. m, j \in 1 .. FrameSize :
         w[(i - 1) * FrameSize + j] = BytesOf(FullFrame(i))[j]
  <2> TAKE i \in 1 .. m
  <2>1. i \in 1 .. Len(s) /\ s[i] = BytesOf(FullFrame(i)) /\ Len(s[i]) = FrameSize
    BY <1>1
  <2>2. \A k \in 1 .. i - 1 : Len(s[k]) = FrameSize
    BY <1>1
  <2>3. s \in Seq(Seq(AnyByte)) /\ FrameSize \in Nat /\ i \in 1 .. Len(s)
    BY <1>1, <1>3
  <2> HIDE DEF s
  <2>4. \A j \in 1 .. Len(s[i]) : FlattenSeq(s)[(i - 1) * FrameSize + j] = s[i][j]
    BY <2>2, <2>3, FlattenPiece
  <2>5. QED
    BY <2>1, <2>4
<1>6. \A j \in 1 .. r + ABytes : w[m * FrameSize + j] = e[j]
  <2>1. m + 1 \in 1 .. Len(s) /\ s[m + 1] = e /\ (m + 1) - 1 = m
    BY <1>1
  <2>2. \A k \in 1 .. (m + 1) - 1 : Len(s[k]) = FrameSize
    BY <1>1
  <2>3. s \in Seq(Seq(AnyByte)) /\ FrameSize \in Nat
    BY <1>1, <1>3
  <2> DEFINE i == m + 1
  <2>4. i \in 1 .. Len(s) /\ i - 1 = m
    BY <2>1
  <2> HIDE DEF s, e, i
  <2>5. \A k \in 1 .. i - 1 : Len(s[k]) = FrameSize
    BY <2>2 DEF i
  <2>6. \A j \in 1 .. Len(s[i]) : FlattenSeq(s)[(i - 1) * FrameSize + j] = s[i][j]
    BY <2>3, <2>4, <2>5, FlattenPiece
  <2>7. s[i] = e
    BY <2>1 DEF i
  <2>8. QED
    BY <1>2, <2>4, <2>6, <2>7
<1> DEFINE W == FileWire(n)
<1> HIDE DEF w
<1>7. W = Joined(HeaderBytes, w)
  BY DEF FileWire, w
<1> HIDE DEF W
<1>8. W \in Seq(AnyByte) /\ Len(W) = HeaderSize + Len(w)
  BY <1>4, <1>7, HeaderIs, JoinedIs
<1>9. \A k \in 1 .. HeaderSize : W[k] = HeaderBytes[k]
  BY <1>4, <1>7, HeaderIs, JoinedIs
<1>10. \A k \in 1 .. Len(w) : W[HeaderSize + k] = w[k]
  <2>1. HeaderBytes \in Seq(AnyByte) /\ w \in Seq(AnyByte)
    BY <1>4, HeaderIs
  <2>2. \A k \in 1 .. Len(w) : Joined(HeaderBytes, w)[Len(HeaderBytes) + k] = w[k]
    BY <2>1, JoinedIs
  <2>3. QED
    BY <1>7, <2>2, HeaderIs
<1>11. \A i \in 1 .. m, j \in 1 .. FrameSize :
         W[HeaderSize + ((i - 1) * FrameSize + j)] = BytesOf(FullFrame(i))[j]
  <2> TAKE i \in 1 .. m, j \in 1 .. FrameSize
  <2>1. (i - 1) * FrameSize \in Nat /\ (i - 1) * FrameSize + FrameSize <= m * FrameSize
    BY <1>3, MoreIsLonger, Sizes
  <2>2. (i - 1) * FrameSize + j \in 1 .. Len(w)
    BY <1>3, <1>4, <2>1, Sizes
  <2>3. QED
    BY <1>5, <1>10, <2>2
<1>12. \A j \in 1 .. r + ABytes : W[HeaderSize + (m * FrameSize + j)] = e[j]
  <2> TAKE j \in 1 .. r + ABytes
  <2>1. m * FrameSize + j \in 1 .. Len(w)
    BY <1>3, <1>4, Sizes
  <2>2. QED
    BY <1>6, <1>10, <2>1
<1>13. EncryptedFileSize(n) = Len(W)
  <2>1. (n + C - 1) \div C = m + 1
    BY LastChunk DEF n
  <2>2. EncryptedFileSize(n) = n + HeaderSize + (m + 1) * ABytes
    BY <2>1 DEF EncryptedFileSize, C
  <2>3. (m + 1) * ABytes = m * ABytes + ABytes
    BY Sizes
  <2>4. m * FrameSize = m * C + m * ABytes
    BY Sizes
  <2>5. m * C \in Nat /\ m * ABytes \in Nat
    BY Sizes
  <2>6. QED
    BY <1>4, <1>8, <2>2, <2>3, <2>4, <2>5, Sizes DEF n
<1>14. Len(W) = HeaderSize + m * FrameSize + r + ABytes
  BY <1>3, <1>4, <1>8, Sizes
<1>15. QED
  BY <1>8, <1>9, <1>11, <1>12, <1>13, <1>14 DEF W, n, e

\* All bytes of a file are good.
LEMMA WireIsGood ==
    ASSUME NEW n \in Nat
    PROVE  FileWire(n) \in Seq(GoodBytes(n)) /\ Len(Frames(n)) \in Nat
<1>1. HeaderBytes \in Seq(GoodBytes(n))
  <2>1. \A j \in 1 .. Len(HeaderBytes) : HeaderBytes[j] \in GoodBytes(n)
    <3> TAKE j \in 1 .. Len(HeaderBytes)
    <3>1. HeaderBytes[j] \in AnyByte /\ HeaderBytes[j].of.place = 0
      BY HeaderIs
    <3>2. QED
      BY <3>1 DEF GoodBytes
  <2>2. HeaderBytes \in [1 .. HeaderSize -> GoodBytes(n)]
    BY <2>1, HeaderIs, LenProperties
  <2>3. QED
    BY <2>2, FunctionIsSeq, Sizes
<1>2. CASE n = 0
  BY <1>1, <1>2, EmptyWire, NoFrames
<1>3. CASE n # 0
  <2>1. PICK m \in Nat, r \in 1 .. C : n = m * C + r
    BY <1>3, Decomposed
  <2>2. /\ Len(Frames(n)) = m + 1
        /\ \A i \in 1 .. m : Frames(n)[i] = FullFrame(i)
        /\ Frames(n)[m + 1] = LastFrame(m, r)
    BY <2>1, FramesAre
  <2>3. ASSUME NEW i \in 1 .. m + 1
        PROVE  Frames(n)[i] \in AnyFrame /\ Frames(n)[i].place = i
    <3>1. CASE i = m + 1
      BY <2>2, <3>1, LastFrameIs
    <3>2. CASE i # m + 1
      BY <2>2, <3>2, FullFrameIs
    <3>3. QED
      BY <3>1, <3>2
  <2>4. ASSUME NEW i \in 1 .. m + 1
        PROVE  BytesOf(Frames(n)[i]) \in Seq(GoodBytes(n))
    <3> DEFINE f == Frames(n)[i]
    <3>1. f \in AnyFrame /\ f.place = i /\ i \in 1 .. Len(Frames(n))
      BY <2>2, <2>3
    <3>2. f = Frames(n)[f.place]
      BY <3>1
    <3> HIDE DEF f
    <3>3. /\ BytesOf(f) \in Seq(AnyByte) /\ Len(BytesOf(f)) = Len(f.data) + ABytes
          /\ \A j \in 1 .. Len(f.data) + ABytes : BytesOf(f)[j].of = f
      BY <3>1, BytesOfIs
    <3>4. \A j \in 1 .. Len(BytesOf(f)) : BytesOf(f)[j] \in GoodBytes(n)
      BY <3>1, <3>2, <3>3 DEF GoodBytes
    <3>5. Len(BytesOf(f)) \in Nat /\ BytesOf(f) \in [1 .. Len(BytesOf(f)) -> GoodBytes(n)]
      BY <3>3, <3>4, LenProperties
    <3>6. QED
      BY <3>5, FunctionIsSeq DEF f
  <2>5. FileBytes(n) \in [1 .. m + 1 -> Seq(GoodBytes(n))]
    BY <2>2, <2>4 DEF FileBytes
  <2>6. FileBytes(n) \in Seq(Seq(GoodBytes(n)))
    BY <2>5, FunctionIsSeq
  <2>7. FlattenSeq(FileBytes(n)) \in Seq(GoodBytes(n))
    BY <2>6, FlattenType
  <2>8. FileWire(n) \in Seq(GoodBytes(n))
    BY <1>1, <2>7, JoinedIs DEF FileWire
  <2>9. QED
    BY <2>2, <2>8
<1>4. QED
  BY <1>2, <1>3

-----------------------------------------------------------------------------
(***************************************************************************)
(* Pieces of the plaintext.                                                *)
(***************************************************************************)
\* SubSeq by a name of its own, for the provers to treat as one term.
Part(s, m, n) == SubSeq(s, m, n)

LEMMA StretchPart ==
    ASSUME NEW b \in Nat, NEW length \in Nat, NEW m \in Nat, NEW n \in Nat,
           m <= n, n <= length
    PROVE  Part(Stretch(b, length), m + 1, n) = Stretch(b + m, n - m)
<1> DEFINE s == Stretch(b, length)
           p == SubSeq(s, m + 1, n)
           q == Stretch(b + m, n - m)
<1>1. /\ s \in Seq(Nat) /\ Len(s) = length
      /\ \A j \in 1 .. length : s[j] = b + j
  BY StretchIs
<1>2. b + m \in Nat /\ n - m \in Nat
  OBVIOUS
<1>3. /\ q \in Seq(Nat) /\ Len(q) = n - m
      /\ \A j \in 1 .. n - m : q[j] = (b + m) + j
  BY <1>2, StretchIs
<1> HIDE DEF s, q
<1>4. /\ p \in Seq(Nat) /\ Len(p) = n - (m + 1) + 1
      /\ \A k \in 1 .. n - (m + 1) + 1 : p[k] = s[(m + 1) - 1 + k]
  BY <1>1, SubSeqIs
<1> HIDE DEF p
<1>5. \A k \in 1 .. n - m : p[k] = q[k]
  BY <1>1, <1>3, <1>4
<1>6. p = q
  BY <1>3, <1>4, <1>5, SeqEqual
<1>7. QED
  BY <1>6 DEF p, q, s, Part

LEMMA StretchJoins ==
    ASSUME NEW b \in Nat, NEW m \in Nat, NEW n \in Nat
    PROVE  Stretch(b, m + n) = Joined(Stretch(b, m), Stretch(b + m, n))
<1>1. b + m \in Nat /\ m + n \in Nat
  OBVIOUS
<1> DEFINE x == Stretch(b, m)
           z == Stretch(b + m, n)
           y == Stretch(b, m + n)
<1>2. /\ x \in Seq(Nat) /\ Len(x) = m
      /\ \A j \in 1 .. m : x[j] = b + j
  BY StretchIs
<1>3. /\ z \in Seq(Nat) /\ Len(z) = n
      /\ \A j \in 1 .. n : z[j] = (b + m) + j
  BY <1>1, StretchIs
<1>4. /\ y \in Seq(Nat) /\ Len(y) = m + n
      /\ \A j \in 1 .. m + n : y[j] = b + j
  BY <1>1, StretchIs
<1> HIDE DEF x, y, z
<1>5. /\ Len(y) = Len(x) + Len(z)
      /\ \A k \in 1 .. Len(x) : y[k] = x[k]
      /\ \A k \in 1 .. Len(z) : y[Len(x) + k] = z[k]
  BY <1>2, <1>3, <1>4
<1>6. y = Joined(x, z)
  BY <1>2, <1>3, <1>4, <1>5, JoinedEquals
<1>7. QED
  BY <1>6 DEF x, y, z

LEMMA PlainIs ==
    ASSUME NEW n \in Nat
    PROVE  /\ Plain(n) = Stretch(0, n) /\ Plain(n) \in Seq(Nat) /\ Len(Plain(n)) = n
           /\ \A j \in 1 .. n : Plain(n)[j] = j
  BY DEF Plain, Stretch

LEMMA PlainGrows ==
    ASSUME NEW m \in Nat, NEW n \in Nat
    PROVE  Joined(Plain(m), Stretch(m, n)) = Plain(m + n)
<1>1. Stretch(0, m + n) = Joined(Stretch(0, m), Stretch(0 + m, n))
  BY StretchJoins
<1>2. 0 + m = m /\ m + n \in Nat
  OBVIOUS
<1>3. QED
  BY <1>1, <1>2, PlainIs

LEMMA PlainType ==
    ASSUME NEW n \in Nat, n <= MaxFile
    PROVE  Plain(n) \in Upto(1 .. MaxFile, MaxFile)
<1>1. Plain(n) \in [1 .. n -> 1 .. MaxFile]
  BY Sizes DEF Plain
<1>2. n \in 0 .. MaxFile
  BY Sizes
<1>3. QED
  BY <1>1, <1>2 DEF Upto

LEMMA BeginningIs ==
    ASSUME NEW n \in Nat, NEW length \in Nat, n <= length
    PROVE  IsPrefix(Plain(n), Plain(length))
<1> DEFINE s == Plain(n)
           t == Plain(length)
<1>1. /\ s \in Seq(Nat) /\ Len(s) = n
      /\ \A j \in 1 .. n : s[j] = j
  BY PlainIs
<1>2. /\ t \in Seq(Nat) /\ Len(t) = length
      /\ \A j \in 1 .. length : t[j] = j
  BY PlainIs
<1> HIDE DEF s, t
<1>3. /\ SubSeq(s, 1, n) \in Seq(Nat) /\ Len(SubSeq(s, 1, n)) = n - 1 + 1
      /\ \A j \in 1 .. n - 1 + 1 : SubSeq(s, 1, n)[j] = s[1 - 1 + j]
  BY <1>1, SubSeqIs
<1>4. /\ SubSeq(t, 1, n) \in Seq(Nat) /\ Len(SubSeq(t, 1, n)) = n - 1 + 1
      /\ \A j \in 1 .. n - 1 + 1 : SubSeq(t, 1, n)[j] = t[1 - 1 + j]
  BY <1>2, SubSeqIs
<1>5. \A j \in 1 .. n : SubSeq(s, 1, n)[j] = SubSeq(t, 1, n)[j]
  BY <1>1, <1>2, <1>3, <1>4
<1>6. SubSeq(s, 1, n) = SubSeq(t, 1, n)
  BY <1>3, <1>4, <1>5, SeqEqual
<1>7. QED
  BY <1>1, <1>2, <1>6 DEF IsPrefix, s, t

\* Chunks in a row.
LEMMA ChunksJoin ==
    ASSUME NEW m \in Nat, NEW n \in Nat
    PROVE  /\ [i \in 1 .. n |-> FullFrame(m + i).data] \in Seq(Seq(Nat))
           /\ FlattenSeq([i \in 1 .. n |-> FullFrame(m + i).data]) = Stretch(m * C, n * C)
<1> DEFINE g(i) == FullFrame(m + i).data
           d(l) == [i \in 1 .. l |-> g(i)]
           T == {l \in Nat : FlattenSeq(d(l)) = Stretch(m * C, l * C)}
<1>1. ASSUME NEW i \in Nat \ {0}
      PROVE  g(i) = Stretch((m + i - 1) * C, C) /\ g(i) \in Seq(Nat)
  <2> DEFINE b == (m + i - 1) * C
  <2>1. m + i \in Nat \ {0} /\ m + i - 1 \in Nat
    OBVIOUS
  <2>2. b \in Nat /\ C \in Nat
    BY <2>1, Sizes
  <2>3. g(i) = Stretch(b, C)
    BY DEF FullFrame, Frame
  <2> HIDE DEF b, g
  <2>4. Stretch(b, C) \in Seq(Nat)
    BY <2>2, StretchIs
  <2>5. QED
    BY <2>3, <2>4 DEF b
<1> HIDE DEF g
<1>2. ASSUME NEW l \in Nat
      PROVE  /\ d(l) \in Seq(Seq(Nat)) /\ Len(d(l)) = l
             /\ \A i \in 1 .. l : d(l)[i] = g(i)
  <2>0. \A i \in 1 .. l : i \in Nat \ {0}
    OBVIOUS
  <2>1. \A i \in 1 .. l : g(i) \in Seq(Nat)
    BY <1>1, <2>0
  <2>2. d(l) \in [1 .. l -> Seq(Nat)]
    BY <2>1
  <2>3. QED
    BY <2>2, FunctionIsSeq
<1>3. 0 \in T
  <2>1. d(0) = <<>>
    OBVIOUS
  <2>2. Stretch(m * C, 0 * C) = <<>>
    BY Sizes DEF Stretch
  <2>3. QED
    BY <2>1, <2>2, FlattenEmpty
<1>4. ASSUME NEW l \in Nat, l \in T PROVE l + 1 \in T
  <2> DEFINE x == g(l + 1)
             s == d(l)
             t == d(l + 1)
  <2>1. x = Stretch((m + l) * C, C) /\ x \in Seq(Nat)
    <3>1. l + 1 \in Nat \ {0} /\ m + (l + 1) - 1 = m + l
      OBVIOUS
    <3>2. QED
      BY <1>1, <3>1
  <2>2. /\ s \in Seq(Seq(Nat)) /\ Len(s) = l
        /\ \A i \in 1 .. l : s[i] = g(i)
    BY <1>2
  <2>3. /\ t \in Seq(Seq(Nat)) /\ Len(t) = l + 1
        /\ \A i \in 1 .. l + 1 : t[i] = g(i)
    BY <1>2
  <2>4. FlattenSeq(s) = Stretch(m * C, l * C)
    BY <1>4
  <2>5. t[l + 1] = x
    BY <2>3
  <2> HIDE DEF x, s, t
  <2>6. /\ Append(s, x) \in Seq(Seq(Nat)) /\ Len(Append(s, x)) = l + 1
        /\ \A i \in 1 .. l : Append(s, x)[i] = s[i]
        /\ Append(s, x)[l + 1] = x
    BY <2>1, <2>2, AppendProperties
  <2>7. ASSUME NEW i \in 1 .. l + 1 PROVE t[i] = Append(s, x)[i]
    <3>1. CASE i = l + 1
      BY <2>5, <2>6, <3>1
    <3>2. CASE i # l + 1
      <4>1. i \in 1 .. l
        BY <3>2
      <4>2. t[i] = g(i) /\ s[i] = g(i) /\ Append(s, x)[i] = s[i]
        BY <2>2, <2>3, <2>6, <4>1
      <4>3. QED
        BY <4>2
    <3>3. QED
      BY <3>1, <3>2
  <2>8. t = Append(s, x)
    BY <2>3, <2>6, <2>7, SeqEqual
  <2>9. FlattenSeq(t) = Joined(Stretch(m * C, l * C), x)
    BY <2>1, <2>2, <2>4, <2>8, FlattenAppend
  <2>10. /\ (m + l) * C = m * C + l * C /\ m * C \in Nat /\ l * C \in Nat /\ C \in Nat
         /\ (l + 1) * C = l * C + C
    BY Distributes, Sizes
  <2>11. Stretch(m * C, l * C + C) = Joined(Stretch(m * C, l * C), Stretch(m * C + l * C, C))
    BY <2>10, StretchJoins
  <2>12. FlattenSeq(t) = Stretch(m * C, (l + 1) * C)
    BY <2>1, <2>9, <2>10, <2>11
  <2>13. QED
    BY <2>12 DEF t
<1>5. n \in T
  <2> HIDE DEF T
  <2>1. \A l \in Nat : l \in T
    BY <1>3, <1>4, Induction
  <2>2. QED
    BY <2>1
<1>6. QED
  BY <1>2, <1>5 DEF g


-----------------------------------------------------------------------------
(***************************************************************************)
(* FileEncryptor: what a push seals and keeps, and what it writes.         *)
(***************************************************************************)
\* The buffer is the plaintext that is not sealed yet.
LEMMA BufferGrows ==
    ASSUME NEW b \in Nat, NEW length \in Nat, NEW k \in Nat
    PROVE  Stretch(b, length) \o [i \in 1 .. k |-> (b + length) + i] = Stretch(b, length + k)
<1>1. Stretch(b, length + k) = Joined(Stretch(b, length), Stretch(b + length, k))
  BY StretchJoins
<1>2. QED
  BY <1>1 DEF Joined, Stretch

\* A piece of a buffer is the next chunk.
LEMMA StretchPiece ==
    ASSUME NEW b \in Nat, NEW length \in Nat, NEW i \in Nat \ {0}, i * C <= length
    PROVE  Piece(Stretch(b, length), ChunkSize, i) = Stretch(b + (i - 1) * C, C)
<1>1. i - 1 \in Nat /\ i * C = (i - 1) * C + C /\ (i - 1) * C \in Nat /\ C \in Nat
  <2>1. i - 1 \in Nat /\ i * C = ((i - 1) + 1) * C
    BY Sizes
  <2>2. ((i - 1) + 1) * C = (i - 1) * C + 1 * C /\ (i - 1) * C \in Nat
    BY <2>1, Distributes, Sizes
  <2>3. QED
    BY <2>1, <2>2, Sizes
<1> DEFINE p == (i - 1) * C
           q == i * C
<1>2. p \in Nat /\ q \in Nat /\ p <= q /\ q <= length /\ q - p = C
  BY <1>1
<1>3. Piece(Stretch(b, length), ChunkSize, i) = Part(Stretch(b, length), p + 1, q)
  BY DEF Piece, C, Part
<1> HIDE DEF p, q
<1>4. Part(Stretch(b, length), p + 1, q) = Stretch(b + p, q - p)
  BY <1>2, StretchPart
<1>5. QED
  BY <1>2, <1>3, <1>4 DEF p

\* A buffer with the plaintext after the first m chunks.
Buffered(buf, m, length) == buf = Stretch(m * C, length)

\* What is to be drained of it, as n frames, and what is to be left.
Drains(buf, m, length, n) ==
    /\ n \in Nat /\ n * C \in Nat /\ m * C \in Nat
    /\ n * C <= length /\ length - n * C <= C
    /\ length > 0 => length - n * C >= 1
    /\ After(buf, n * C) = Stretch((m + n) * C, length - n * C)
    /\ \A i \in 1 .. n :
          Frame(m + i, Piece(buf, ChunkSize, i), FALSE) = FullFrame(m + i)

\* A push drains what it should.
LEMMA PushSeals ==
    ASSUME NEW m \in Nat, NEW length \in Nat, NEW buf, Buffered(buf, m, length)
    PROVE  Drains(buf, m, length, ChunksDrained(length))
<1> DEFINE n == ChunksDrained(length)
<1>0. buf = Stretch(m * C, length)
  BY DEF Buffered
<1>1. /\ n \in Nat /\ n * C \in Nat
      /\ n * C <= length /\ length - n * C <= C
      /\ length > 0 => length - n * C >= 1
  <2>1. C \in Nat /\ C >= 1
    BY Sizes
  <2>2. n = IF length = 0 THEN 0 ELSE (length - 1) \div C
    BY DEF ChunksDrained, C
  <2>3. QED
    BY <2>1, <2>2, Drained
<1> HIDE DEF n
<1>2. m * C \in Nat /\ (m + n) * C = m * C + n * C
  BY <1>1, Distributes, Sizes
<1>3. After(buf, n * C) = Stretch((m + n) * C, length - n * C)
  <2>1. Len(buf) = length
    BY <1>0, <1>2, StretchIs
  <2>2. Part(Stretch(m * C, length), n * C + 1, length)
            = Stretch(m * C + n * C, length - n * C)
    BY <1>1, <1>2, StretchPart
  <2>3. QED
    BY <1>0, <1>2, <2>1, <2>2 DEF After, Part
<1>4. ASSUME NEW i \in 1 .. n
      PROVE  Frame(m + i, Piece(buf, ChunkSize, i), FALSE) = FullFrame(m + i)
  <2>1. i \in Nat /\ i - 1 \in Nat
    OBVIOUS
  <2>2. /\ (i - 1) * C \in Nat /\ i * C = (i - 1) * C + C /\ i * C \in Nat
        /\ ((m + i) - 1) * C = m * C + (i - 1) * C
    <3>1. i * C = ((i - 1) + 1) * C /\ ((m + i) - 1) * C = (m + (i - 1)) * C
      BY <2>1, Sizes
    <3>2. ((i - 1) + 1) * C = (i - 1) * C + 1 * C /\ (i - 1) * C \in Nat
      BY <2>1, Distributes, Sizes
    <3>3. (m + (i - 1)) * C = m * C + (i - 1) * C
      BY <2>1, Distributes, Sizes
    <3>4. QED
      BY <3>1, <3>2, <3>3, Sizes
  <2>3. i * C <= n * C
    <3>1. i < n => i * C + C <= n * C
      BY <1>1, <2>1, MoreIsLonger, Sizes
    <3>2. i = n \/ i < n
      BY <1>1, <2>1
    <3>3. QED
      BY <1>1, <2>2, <3>1, <3>2, Sizes
  <2>4. i * C <= length /\ i \in Nat \ {0}
    BY <1>1, <2>2, <2>3, Sizes
  <2>5. Piece(buf, ChunkSize, i) = Stretch(m * C + (i - 1) * C, C)
    BY <1>0, <1>2, <2>4, StretchPiece
  <2>6. Piece(buf, ChunkSize, i) = Stretch(((m + i) - 1) * C, C)
    BY <2>2, <2>5
  <2>7. QED
    BY <2>6 DEF FullFrame
<1>5. QED
  BY <1>1, <1>2, <1>3, <1>4 DEF Drains, n

\* The frames a push writes follow those written before.
LEMMA FramesFollow ==
    ASSUME NEW m \in Nat, NEW n \in Nat,
           NEW more, more = [i \in 1 .. n |-> BytesOf(FullFrame(m + i))]
    PROVE  Joined(Joined(HeaderBytes, FlattenSeq(FullBytes(m))), FlattenSeq(more))
               = Joined(HeaderBytes, FlattenSeq(FullBytes(m + n)))
<1> DEFINE f == FlattenSeq(FullBytes(m))
           g == FlattenSeq(more)
<1>1. more \in Seq(Seq(AnyByte)) /\ FullBytes(m + n) = Joined(FullBytes(m), more)
  BY MoreFullBytes
<1>2. FullBytes(m) \in Seq(Seq(AnyByte))
  BY FullBytesAre
<1>3. FlattenSeq(FullBytes(m + n)) = Joined(f, g)
  BY <1>1, <1>2, FlattenConcat
<1>4. f \in Seq(AnyByte) /\ g \in Seq(AnyByte)
  BY <1>1, <1>2, FlattenType
<1> HIDE DEF f, g
<1>5. Joined(Joined(HeaderBytes, f), g) = Joined(HeaderBytes, Joined(f, g))
  BY <1>4, HeaderIs, ConcatAssociative DEF Joined
<1>6. QED
  BY <1>3, <1>5 DEF f, g

\* So does the final one.
LEMMA LastFollows ==
    ASSUME NEW m \in Nat, NEW r \in 1 .. C
    PROVE  Joined(Joined(HeaderBytes, FlattenSeq(FullBytes(m))), BytesOf(LastFrame(m, r)))
               = FileWire(m * C + r)
<1> DEFINE f == FlattenSeq(FullBytes(m))
           e == BytesOf(LastFrame(m, r))
<1>1. FullBytes(m) \in Seq(Seq(AnyByte)) /\ e \in Seq(AnyByte)
  BY FullBytesAre, LastFrameIs
<1>2. FileBytes(m * C + r) = Append(FullBytes(m), e)
  BY FileBytesAre
<1> HIDE DEF e
<1>3. FlattenSeq(FileBytes(m * C + r)) = Joined(f, e)
  BY <1>1, <1>2, FlattenAppend
<1>4. f \in Seq(AnyByte)
  BY <1>1, FlattenType
<1> HIDE DEF f
<1>5. Joined(Joined(HeaderBytes, f), e) = Joined(HeaderBytes, Joined(f, e))
  <2>1. HeaderBytes \in Seq(AnyByte) /\ f \in Seq(AnyByte) /\ e \in Seq(AnyByte)
    BY <1>1, <1>4, HeaderIs
  <2>2. QED
    BY <2>1, ConcatAssociative DEF Joined
<1>6. QED
  BY <1>3, <1>5 DEF FileWire, e, f

LEMMA NothingWritten == Joined(HeaderBytes, FlattenSeq(FullBytes(0))) = HeaderBytes
<1>1. FullBytes(0) = <<>>
  BY DEF FullBytes
<1>2. QED
  BY <1>1, FlattenEmpty, HeaderIs, ConcatEmptySeq DEF Joined

-----------------------------------------------------------------------------
(***************************************************************************)
(* The inductive invariant: what the encryptor has written, and holds, of  *)
(* the plaintext pushed; what may have become of the file; and what the    *)
(* decryptor has returned of it.                                           *)
(***************************************************************************)
Written(n) == Joined(HeaderBytes, FlattenSeq(FullBytes(n)))

EncryptorFits ==
    phase = "encrypting" =>
        /\ pushed = sealed * C + Len(encBuf)
        /\ encBuf = Stretch(sealed * C, Len(encBuf))
        /\ Len(encBuf) = 0 => sealed = 0
        /\ started <=> pushed > 0
        /\ \/ wire = <<>> /\ sealed = 0
           \/ wire = Written(sealed)

FileIsWritten ==
    phase # "encrypting" => wire = FileWire(pushed) /\ sealed = Len(Frames(pushed))

NotYetRead ==
    phase \in {"encrypting", "stored"} =>
        /\ delivered = <<>> /\ fed = 0 /\ header = <<>> /\ decBuf = <<>>
        /\ opened = 0 /\ sawChunk = FALSE /\ out = <<>>

DecryptorFits ==
    phase \in {"decrypting", "accepted", "refused"} =>
        /\ delivered \in Seq(GoodBytes(pushed))
        /\ decBuf \in Seq(GoodBytes(pushed))
        /\ header \in Seq(AnyByte)
        /\ opened = 0 \/ opened < sealed
        /\ sawChunk <=> opened > 0
        /\ phase # "accepted" => out = Plain(opened * C)
        /\ phase = "decrypting" =>
              /\ fed = Len(header) + opened * FrameSize + Len(decBuf)
              /\ Len(header) < HeaderSize => Len(decBuf) = 0 /\ opened = 0
              /\ opened > 0 => Len(decBuf) > 0

IInv ==
    /\ BuffersFit /\ EncryptorFits /\ FileIsWritten /\ NotYetRead /\ DecryptorFits
    /\ AcceptsOnlyWhole

\* The initial state has it.
LEMMA Initially == Init => IInv
<1> SUFFICES ASSUME Init PROVE IInv
  OBVIOUS
<1>1. /\ phase = "encrypting" /\ pushed = 0 /\ started = FALSE /\ encBuf = <<>>
      /\ sealed = 0 /\ wire = <<>>
      /\ delivered = <<>> /\ fed = 0 /\ header = <<>> /\ decBuf = <<>>
      /\ opened = 0 /\ sawChunk = FALSE /\ out = <<>>
  BY DEF Init
<1>2. \A S : \A n \in Nat : <<>> \in Upto(S, n)
  <2> TAKE S
  <2> TAKE n \in Nat
  <2>1. <<>> \in [1 .. 0 -> S] /\ 0 \in 0 .. n
    OBVIOUS
  <2>2. QED
    BY <2>1 DEF Upto
<1>3. BuffersFit
  <2>1. /\ encBuf \in Upto(1 .. MaxFile, ChunkSize) /\ out \in Upto(1 .. MaxFile, MaxFile)
    <3>1. ChunkSize \in Nat /\ MaxFile \in Nat
      BY Sizes DEF C
    <3>2. QED
      BY <1>1, <1>2, <3>1
  <2>2. pushed \in 0 .. MaxFile /\ sealed \in 0 .. MaxFile
    BY <1>1, Sizes
  <2>3. Len(header) \in 0 .. HeaderSize /\ Len(decBuf) \in 0 .. FrameSize
    BY <1>1, Sizes
  <2>4. fed \in 0 .. Len(delivered) /\ opened \in 0 .. sealed
    BY <1>1
  <2>5. QED
    BY <1>1, <2>1, <2>2, <2>3, <2>4 DEF BuffersFit
<1>4. EncryptorFits
  <2>1. Stretch(0 * C, 0) = <<>> /\ 0 * C = 0
    BY Sizes DEF Stretch
  <2>2. QED
    BY <1>1, <2>1 DEF EncryptorFits
<1>5. FileIsWritten /\ NotYetRead /\ DecryptorFits /\ AcceptsOnlyWhole
  BY <1>1 DEF FileIsWritten, NotYetRead, DecryptorFits, AcceptsOnlyWhole
<1>6. QED
  BY <1>3, <1>4, <1>5 DEF IInv

LEMMA StretchType ==
    ASSUME NEW b \in Nat, NEW n \in Nat, NEW limit \in Nat, n <= limit, b + n <= MaxFile
    PROVE  Stretch(b, n) \in Upto(1 .. MaxFile, limit)
<1>1. Stretch(b, n) \in [1 .. n -> 1 .. MaxFile] /\ n \in 0 .. limit
  BY Sizes DEF Stretch
<1>2. QED
  BY <1>1 DEF Upto

LEMMA UptoIs ==
    ASSUME NEW S, NEW limit \in Nat, NEW s \in Upto(S, limit)
    PROVE  s \in Seq(S) /\ Len(s) \in Nat /\ Len(s) <= limit
<1>1. PICK n \in 0 .. limit : s \in [1 .. n -> S]
  BY DEF Upto
<1>2. s \in Seq(S) /\ Len(s) = n
  BY <1>1, FunctionIsSeq
<1>3. QED
  BY <1>1, <1>2

\* A file is at least as long as it has chunks.
LEMMA Counted ==
    ASSUME NEW m \in Nat
    PROVE  m <= m * C /\ m * C \in Nat
<1>1. C \in Nat /\ C >= 1
  BY Sizes
<1>2. m * C = m * (C - 1) + m * 1 /\ m * (C - 1) \in Nat
  BY <1>1
<1>3. QED
  BY <1>2

LEMMA WrittenIs ==
    ASSUME NEW n \in Nat
    PROVE  Written(n) \in Seq(AnyByte) /\ Written(n) # <<>>
<1> DEFINE f == FlattenSeq(FullBytes(n))
<1>1. FullBytes(n) \in Seq(Seq(AnyByte))
  BY FullBytesAre
<1>2. f \in Seq(AnyByte)
  BY <1>1, FlattenType
<1> HIDE DEF f
<1>3. /\ Joined(HeaderBytes, f) \in Seq(AnyByte)
      /\ Len(Joined(HeaderBytes, f)) = Len(HeaderBytes) + Len(f)
  BY <1>2, HeaderIs, JoinedIs
<1>4. Len(f) \in Nat
  BY <1>2, LenProperties
<1>5. Len(Joined(HeaderBytes, f)) > 0
  BY <1>3, <1>4, HeaderIs, Sizes
<1>6. Joined(HeaderBytes, f) # <<>>
  BY <1>5
<1>7. QED
  BY <1>3, <1>6 DEF Written, f

\* With the header, if it is not written yet, the file has the frames so far.
LEMMA AfterPrefix ==
    ASSUME EncryptorFits, phase = "encrypting", sealed \in Nat
    PROVE  wire \o Prefix = Written(sealed)
<1>1. Written(sealed) \in Seq(AnyByte) /\ Written(sealed) # <<>>
  BY WrittenIs
<1>2. CASE wire = <<>>
  <2>1. sealed = 0
    BY <1>1, <1>2 DEF EncryptorFits
  <2>2. <<>> \o HeaderBytes = HeaderBytes
    BY HeaderIs, ConcatEmptySeq
  <2>3. QED
    BY <1>2, <2>1, <2>2, NothingWritten DEF Prefix, Written
<1>3. CASE wire # <<>>
  <2>1. wire = Written(sealed)
    BY <1>3 DEF EncryptorFits
  <2>2. wire \o <<>> = wire
    BY <1>1, <2>1, ConcatEmptySeq
  <2>3. QED
    BY <1>3, <2>1, <2>2 DEF Prefix
<1>4. QED
  BY <1>2, <1>3

\* FileEncryptor's push preserves it.
LEMMA EncryptorPushes ==
    ASSUME IInv, NEW k \in 0 .. MaxFile, EncryptorPush(k)
    PROVE  IInv'
<1> DEFINE length == Len(encBuf)
           size == length + k
           buf == encBuf \o [i \in 1 .. k |-> pushed + i]
           n == ChunksDrained(size)
           more == [i \in 1 .. n |-> BytesOf(FullFrame(sealed + i))]
           rest == size - n * C
<1>1. /\ phase = "encrypting" /\ phase' = phase
      /\ pushed + k <= MaxFile /\ pushed' = pushed + k
      /\ started' = (started \/ k > 0)
      /\ delivered' = delivered /\ fed' = fed /\ header' = header /\ decBuf' = decBuf
      /\ opened' = opened /\ sawChunk' = sawChunk /\ out' = out
  BY DEF EncryptorPush, decVars
<1>2. /\ pushed \in Nat /\ pushed <= MaxFile /\ started \in BOOLEAN /\ sealed \in Nat
      /\ encBuf \in Upto(1 .. MaxFile, ChunkSize) /\ k \in Nat
  BY Sizes DEF IInv, BuffersFit
<1>3. length \in Nat
  BY <1>2, UptoIs, Sizes DEF C
<1>4. /\ pushed = sealed * C + length /\ encBuf = Stretch(sealed * C, length)
      /\ length = 0 => sealed = 0
      /\ started <=> pushed > 0
  BY <1>1 DEF IInv, EncryptorFits
<1> HIDE DEF length
<1>5. sealed * C \in Nat /\ size \in Nat
  <2>1. sealed \in Nat
    BY <1>2
  <2>2. sealed * C \in Nat
    BY <2>1, Counted
  <2>3. QED
    BY <1>2, <1>3, <2>2
<1>6. buf = Stretch(sealed * C, size) /\ Len(buf) = size
  <2>1. buf = Stretch(sealed * C, size)
    <3> DEFINE b == sealed * C
               more1 == [i \in 1 .. k |-> pushed + i]
    <3>1. b \in Nat /\ pushed = b + length /\ encBuf = Stretch(b, length)
      BY <1>4, <1>5
    <3> HIDE DEF b
    <3>2. Stretch(b, length) \o [i \in 1 .. k |-> (b + length) + i] = Stretch(b, length + k)
      BY <1>2, <1>3, <3>1, BufferGrows
    <3>3. QED
      BY <3>1, <3>2 DEF b
  <2>2. QED
    BY <1>5, <2>1, StretchIs
<1> HIDE DEF size, buf
<1>7. /\ n \in Nat /\ n * C \in Nat
      /\ n * C <= size /\ size - n * C <= C
      /\ size > 0 => size - n * C >= 1
      /\ After(buf, n * C) = Stretch((sealed + n) * C, size - n * C)
      /\ \A i \in 1 .. n :
            Frame(sealed + i, Piece(buf, ChunkSize, i), FALSE) = FullFrame(sealed + i)
  <2>1. sealed \in Nat /\ size \in Nat
    BY <1>2, <1>5
  <2>2. Buffered(buf, sealed, size)
    BY <1>6 DEF Buffered
  <2>3. Drains(buf, sealed, size, ChunksDrained(size))
    BY <2>1, <2>2, PushSeals
  <2>4. QED
    BY <2>3 DEF Drains
<1>8. /\ encBuf' = After(buf, n * ChunkSize)
      /\ sealed' = sealed + n
      /\ wire' = wire \o Prefix
            \o FlattenSeq([i \in 1 .. n |->
                   BytesOf(Frame(sealed + i, Piece(buf, ChunkSize, i), FALSE))])
  BY <1>6 DEF EncryptorPush, buf
<1> HIDE DEF n
<1>9. wire' = Written(sealed')
  <2>1. [i \in 1 .. n |-> BytesOf(Frame(sealed + i, Piece(buf, ChunkSize, i), FALSE))] = more
    BY <1>7
  <2>2. wire \o Prefix = Written(sealed)
    BY <1>1, <1>2, AfterPrefix DEF IInv
  <2>3. Joined(Written(sealed), FlattenSeq(more)) = Written(sealed + n)
    BY <1>2, <1>7, FramesFollow DEF Written
  <2>4. wire' = Joined(Written(sealed), FlattenSeq(more))
    BY <1>8, <2>1, <2>2 DEF Joined
  <2>5. QED
    BY <1>8, <2>3, <2>4
<1>10. encBuf' = Stretch(sealed' * C, rest) /\ rest \in Nat /\ rest <= C
  <2>1. rest \in Nat /\ rest <= C
    BY <1>5, <1>7, Sizes
  <2>2. QED
    BY <1>7, <1>8, <2>1 DEF C
<1>11. /\ sealed' * C = sealed * C + n * C /\ sealed' * C \in Nat /\ sealed' \in Nat
       /\ sealed' <= sealed' * C
  <2>1. (sealed + n) * C = sealed * C + n * C
    BY <1>2, <1>7, Distributes, Sizes
  <2>2. sealed' \in Nat
    BY <1>2, <1>7, <1>8
  <2>3. QED
    BY <1>8, <2>1, <2>2, Counted
<1>12. pushed' = sealed' * C + rest /\ pushed' \in Nat /\ pushed' <= MaxFile
  <2> DEFINE b == sealed * C
             d == n * C
  <2>1. b \in Nat /\ d \in Nat /\ pushed = b + length /\ sealed' * C = b + d
    BY <1>4, <1>5, <1>7, <1>11
  <2>2. rest = (length + k) - d
    BY DEF size
  <2> HIDE DEF b, d, rest
  <2>3. QED
    BY <1>1, <1>2, <1>3, <2>1, <2>2
<1> HIDE DEF rest
<1>13. Len(encBuf') = rest
  BY <1>10, <1>11, StretchIs
<1>14. BuffersFit'
  <2>1. encBuf' \in Upto(1 .. MaxFile, ChunkSize)
    <3>1. Stretch(sealed' * C, rest) \in Upto(1 .. MaxFile, C)
      BY <1>10, <1>11, <1>12, StretchType, Sizes
    <3>2. QED
      BY <1>10, <3>1 DEF C
  <2>2. sealed' \in 0 .. MaxFile
    <3> DEFINE d == sealed' * C
    <3>1. sealed' \in Nat /\ d \in Nat /\ sealed' <= d
      BY <1>11
    <3>2. pushed' = d + rest /\ rest \in Nat /\ pushed' <= MaxFile
      BY <1>10, <1>12
    <3> HIDE DEF d
    <3>3. sealed' <= MaxFile
      BY <3>1, <3>2, Sizes
    <3>4. QED
      BY <3>1, <3>3, Sizes
  <2>3. pushed' \in 0 .. MaxFile /\ started' \in BOOLEAN
    BY <1>1, <1>2, <1>12, Sizes
  <2>4. /\ phase' \in {"encrypting", "stored", "decrypting", "accepted", "refused"}
        /\ fed' \in 0 .. Len(delivered')
        /\ Len(header') \in 0 .. HeaderSize
        /\ Len(decBuf') \in 0 .. FrameSize
        /\ sawChunk' \in BOOLEAN
        /\ out' \in Upto(1 .. MaxFile, MaxFile)
    BY <1>1 DEF IInv, BuffersFit
  <2>5. opened' \in 0 .. sealed'
    <3>1. opened \in 0 .. sealed
      BY DEF IInv, BuffersFit
    <3>2. QED
      BY <1>1, <1>2, <1>7, <1>8, <3>1
  <2>6. QED
    BY <2>1, <2>2, <2>3, <2>4, <2>5 DEF BuffersFit
<1>15. EncryptorFits'
  <2>1. rest = 0 => sealed' = 0
    <3>1. rest = 0 => size = 0
      BY <1>5, <1>7 DEF rest
    <3>2. size = 0 => length = 0 /\ n * C = 0
      BY <1>2, <1>3, <1>7 DEF size
    <3>3. n <= n * C
      BY <1>7, Counted
    <3>4. size = 0 => sealed = 0 /\ n = 0
      BY <1>4, <1>7, <3>2, <3>3
    <3>5. QED
      BY <1>8, <3>1, <3>4
  <2>2. started' <=> pushed' > 0
    <3>1. pushed' > 0 <=> pushed > 0 \/ k > 0
      BY <1>1, <1>2
    <3>2. started' <=> started \/ k > 0
      BY <1>1
    <3>3. QED
      BY <1>4, <3>1, <3>2
  <2>3. encBuf' = Stretch(sealed' * C, Len(encBuf'))
    BY <1>10, <1>13
  <2>4. QED
    BY <1>9, <1>12, <1>13, <2>1, <2>2, <2>3 DEF EncryptorFits
<1>16. FileIsWritten' /\ NotYetRead' /\ DecryptorFits' /\ AcceptsOnlyWhole'
  BY <1>1 DEF IInv, FileIsWritten, NotYetRead, DecryptorFits, AcceptsOnlyWhole
<1>17. QED
  BY <1>14, <1>15, <1>16 DEF IInv

\* So does its finish.
LEMMA EncryptorFinishes ==
    ASSUME IInv, EncryptorFinish
    PROVE  IInv'
<1> DEFINE r == Len(encBuf)
<1>1. /\ phase = "encrypting" /\ phase' = "stored" /\ encBuf' = <<>>
      /\ pushed' = pushed /\ started' = started
      /\ delivered' = delivered /\ fed' = fed /\ header' = header /\ decBuf' = decBuf
      /\ opened' = opened /\ sawChunk' = sawChunk /\ out' = out
  BY DEF EncryptorFinish, decVars
<1>2. /\ pushed \in 0 .. MaxFile /\ started \in BOOLEAN /\ sealed \in 0 .. MaxFile
      /\ encBuf \in Upto(1 .. MaxFile, ChunkSize) /\ opened \in 0 .. sealed
  BY DEF IInv, BuffersFit
<1>3. r \in Nat /\ r <= C /\ sealed \in Nat /\ pushed \in Nat
  <2>1. ChunkSize \in Nat /\ MaxFile \in Nat
    BY Sizes DEF C
  <2>2. r \in Nat /\ r <= ChunkSize
    BY <1>2, <2>1, UptoIs
  <2>3. QED
    BY <1>2, <2>1, <2>2 DEF C
<1>4. /\ pushed = sealed * C + r /\ encBuf = Stretch(sealed * C, r)
      /\ r = 0 => sealed = 0
      /\ started <=> pushed > 0
  BY <1>1 DEF IInv, EncryptorFits
<1>5. wire \o Prefix = Written(sealed)
  BY <1>1, <1>3, AfterPrefix DEF IInv
<1>6. sealed * C \in Nat /\ sealed <= sealed * C
  BY <1>3, Counted
<1> HIDE DEF r
<1>7. /\ wire' = FileWire(pushed) /\ sealed' = Len(Frames(pushed))
      /\ sealed' \in 0 .. MaxFile /\ sealed <= sealed'
  <2>1. CASE started
    <3>1. sealed' = sealed + 1 /\ wire' = wire \o Prefix \o BytesOf(Frame(sealed + 1, encBuf, TRUE))
      BY <2>1 DEF EncryptorFinish
    <3>2. r \in 1 .. C
      <4>1. pushed > 0
        BY <1>4, <2>1
      <4>2. r = 0 => pushed = 0
        <5>1. 0 * C = 0
          BY Sizes
        <5>2. QED
          BY <1>4, <5>1
      <4>3. QED
        BY <1>3, <4>1, <4>2, Sizes
    <3>3. Frame(sealed + 1, encBuf, TRUE) = LastFrame(sealed, r)
      BY <1>4 DEF LastFrame
    <3>4. wire' = Joined(Written(sealed), BytesOf(LastFrame(sealed, r)))
      BY <1>5, <3>1, <3>3 DEF Joined
    <3>5. Joined(Written(sealed), BytesOf(LastFrame(sealed, r))) = FileWire(sealed * C + r)
      BY <1>3, <3>2, LastFollows DEF Written
    <3>6. Len(Frames(sealed * C + r)) = sealed + 1
      BY <1>3, <3>2, FramesAre
    <3>7. sealed + 1 <= MaxFile
      <4> DEFINE d == sealed * C
      <4>1. d \in Nat /\ sealed <= d /\ pushed = d + r
        BY <1>4, <1>6
      <4> HIDE DEF d
      <4>2. QED
        BY <1>2, <1>3, <3>2, <4>1, Sizes
    <3>8. pushed = sealed * C + r
      BY <1>4
    <3>9. wire' = FileWire(pushed) /\ sealed' = Len(Frames(pushed))
      BY <3>1, <3>4, <3>5, <3>6, <3>8
    <3>10. sealed' \in 0 .. MaxFile /\ sealed <= sealed'
      BY <1>3, <3>1, <3>7, Sizes
    <3>11. QED
      BY <3>9, <3>10
  <2>2. CASE ~started
    <3>1. pushed = 0
      BY <1>3, <1>4, <2>2
    <3>2. sealed = 0
      <4> DEFINE d == sealed * C
      <4>1. d \in Nat /\ sealed <= d /\ pushed = d + r
        BY <1>4, <1>6
      <4> HIDE DEF d
      <4>2. QED
        BY <1>3, <3>1, <4>1
    <3>3. sealed' = sealed /\ wire' = wire \o Prefix
      BY <2>2 DEF EncryptorFinish
    <3>4. Written(0) = FileWire(0)
      BY EmptyWire, NothingWritten DEF Written
    <3>5. QED
      BY <1>5, <3>1, <3>2, <3>3, <3>4, NoFrames, Sizes
  <2>3. QED
    BY <2>1, <2>2
<1>8. BuffersFit'
  <2>1. encBuf' \in Upto(1 .. MaxFile, ChunkSize)
    <3>1. <<>> \in [1 .. 0 -> 1 .. MaxFile] /\ 0 \in 0 .. ChunkSize
      BY Sizes DEF C
    <3>2. QED
      BY <1>1, <3>1 DEF Upto
  <2>2. opened' \in 0 .. sealed'
    BY <1>1, <1>2, <1>3, <1>7
  <2>3. /\ fed' \in 0 .. Len(delivered')
        /\ Len(header') \in 0 .. HeaderSize
        /\ Len(decBuf') \in 0 .. FrameSize
        /\ sawChunk' \in BOOLEAN
        /\ out' \in Upto(1 .. MaxFile, MaxFile)
    BY <1>1 DEF IInv, BuffersFit
  <2>4. pushed' \in 0 .. MaxFile /\ started' \in BOOLEAN
    BY <1>1, <1>2
  <2>5. QED
    BY <1>1, <1>7, <2>1, <2>2, <2>3, <2>4 DEF BuffersFit
<1>9. EncryptorFits' /\ DecryptorFits' /\ AcceptsOnlyWhole'
  BY <1>1 DEF EncryptorFits, DecryptorFits, AcceptsOnlyWhole
<1>10. FileIsWritten' /\ NotYetRead'
  BY <1>1, <1>7 DEF IInv, FileIsWritten, NotYetRead
<1>11. QED
  BY <1>8, <1>9, <1>10 DEF IInv

-----------------------------------------------------------------------------
(***************************************************************************)
(* What reaches the decryptor.                                             *)
(***************************************************************************)
LEMMA PartType ==
    ASSUME NEW S, NEW s \in Seq(S), NEW m \in Nat \ {0}, NEW n \in 0 .. Len(s)
    PROVE  SubSeq(s, m, n) \in Seq(S)
<1>1. \A k \in m .. n : s[k] \in S
  OBVIOUS
<1>2. QED
  BY <1>1, SubSeqProperties

\* Whatever happens to a file, its bytes are its own or of no file.
LEMMA BytesStay ==
    ASSUME NEW S, wire \in Seq(S), Garbage \in S,
           NEW d \in Whole \cup Lost \cup Exchanged \cup Damaged \cup Extended
    PROVE  d \in Seq(S)
<1>0. Len(wire) \in Nat
  BY LenProperties
<1>1. CASE d \in Whole
  BY <1>1 DEF Whole
<1>2. \A i \in 0 .. Len(wire) : After(wire, i) \in Seq(S)
  <2> TAKE i \in 0 .. Len(wire)
  <2>1. i + 1 \in Nat \ {0} /\ Len(wire) \in 0 .. Len(wire)
    BY <1>0
  <2>2. QED
    BY <2>1, PartType DEF After
<1>3. \A i, j \in 0 .. Len(wire) : SubSeq(wire, i + 1, j) \in Seq(S)
  <2> TAKE i, j \in 0 .. Len(wire)
  <2>1. i + 1 \in Nat \ {0}
    BY <1>0
  <2>2. QED
    BY <2>1, PartType
<1>4. \A j \in 0 .. Len(wire) : SubSeq(wire, 1, j) \in Seq(S)
  <2> TAKE j \in 0 .. Len(wire)
  <2>1. 1 \in Nat \ {0}
    OBVIOUS
  <2>2. QED
    BY <2>1, PartType
<1>5. \A s, t \in Seq(S) : s \o t \in Seq(S)
  BY ConcatProperties
<1>6. CASE d \in Lost
  <2>1. PICK i, j \in 0 .. Len(wire) : d = SubSeq(wire, 1, i) \o After(wire, j)
    BY <1>6 DEF Lost
  <2>2. QED
    BY <1>2, <1>4, <1>5, <2>1
<1>7. CASE d \in Exchanged
  <2> DEFINE cut(i, j, k) ==
               SubSeq(wire, 1, i) \o SubSeq(wire, j + 1, k) \o SubSeq(wire, i + 1, j)
                   \o After(wire, k)
  <2>0. Exchanged = {cut(i, j, k) : i, j, k \in 0 .. Len(wire)}
    BY DEF Exchanged
  <2> HIDE DEF cut
  <2>1. PICK i, j, k \in 0 .. Len(wire) : d = cut(i, j, k)
    BY <1>7, <2>0
  <2>2. /\ SubSeq(wire, 1, i) \in Seq(S) /\ SubSeq(wire, j + 1, k) \in Seq(S)
        /\ SubSeq(wire, i + 1, j) \in Seq(S) /\ After(wire, k) \in Seq(S)
    BY <1>2, <1>3, <1>4
  <2>3. QED
    BY <1>5, <2>1, <2>2 DEF cut
<1>8. CASE d \in Damaged
  <2>1. PICK i \in 1 .. Len(wire) : d = [wire EXCEPT ![i] = Garbage]
    BY <1>8 DEF Damaged
  <2>2. wire \in [1 .. Len(wire) -> S]
    BY LenProperties
  <2>3. d \in [1 .. Len(wire) -> S]
    BY <2>1, <2>2
  <2>4. QED
    BY <1>0, <2>3, FunctionIsSeq
<1>9. CASE d \in Extended
  <2>1. PICK n \in 1 .. MaxTrail : d = wire \o [i \in 1 .. n |-> Garbage]
    BY <1>9 DEF Extended
  <2>2. [i \in 1 .. n |-> Garbage] \in [1 .. n -> S] /\ n \in Nat
    BY SizesAssumption
  <2>3. [i \in 1 .. n |-> Garbage] \in Seq(S)
    BY <2>2, FunctionIsSeq
  <2>4. QED
    BY <1>5, <2>1, <2>3
<1>10. QED
  BY <1>1, <1>6, <1>7, <1>8, <1>9

\* What happens to the file preserves the invariant.
LEMMA Delivers ==
    ASSUME IInv, Deliver
    PROVE  IInv'
<1>1. /\ phase = "stored" /\ phase' = "decrypting"
      /\ delivered' \in Whole \cup Lost \cup Exchanged \cup Damaged \cup Extended
      /\ pushed' = pushed /\ started' = started /\ encBuf' = encBuf
      /\ sealed' = sealed /\ wire' = wire
      /\ fed' = fed /\ header' = header /\ decBuf' = decBuf
      /\ opened' = opened /\ sawChunk' = sawChunk /\ out' = out
  BY DEF Deliver, encVars, decVars
<1>2. /\ fed = 0 /\ header = <<>> /\ decBuf = <<>>
      /\ opened = 0 /\ sawChunk = FALSE /\ out = <<>>
  BY <1>1 DEF IInv, NotYetRead
<1>3. pushed \in Nat /\ wire = FileWire(pushed)
  BY <1>1, Sizes DEF IInv, BuffersFit, FileIsWritten
<1>4. wire \in Seq(GoodBytes(pushed))
  BY <1>3, WireIsGood
<1>5. Garbage \in GoodBytes(pushed)
  <2>1. <<>> \in Seq(Nat) /\ -1 \in Int
    OBVIOUS
  <2>2. Garbage \in AnyByte /\ Garbage.of.place = -1
    BY <2>1 DEF Garbage, ByteOf, Frame, AnyByte, AnyFrame
  <2>3. QED
    BY <2>2 DEF GoodBytes
<1>6. delivered' \in Seq(GoodBytes(pushed))
  BY <1>1, <1>4, <1>5, BytesStay
<1>7. BuffersFit'
  <2>1. fed' \in 0 .. Len(delivered')
    BY <1>1, <1>2, <1>6, LenProperties
  <2>2. QED
    BY <1>1, <2>1 DEF IInv, BuffersFit
<1>8. DecryptorFits'
  <2>1. opened' * C = 0 /\ opened' * FrameSize = 0
    BY <1>1, <1>2, Sizes
  <2>2. out' = Plain(opened' * C)
    BY <1>1, <1>2, <2>1 DEF Plain
  <2>3. decBuf' \in Seq(GoodBytes(pushed')) /\ header' \in Seq(AnyByte)
    BY <1>1, <1>2, EmptySeq
  <2>4. Len(decBuf') = 0 /\ Len(header') = 0
    BY <1>1, <1>2
  <2>5. fed' = Len(header') + opened' * FrameSize + Len(decBuf')
    BY <1>1, <1>2, <2>1, <2>4
  <2>6. QED
    BY <1>1, <1>2, <1>6, <2>2, <2>3, <2>4, <2>5 DEF DecryptorFits
<1>9. EncryptorFits' /\ FileIsWritten' /\ NotYetRead' /\ AcceptsOnlyWhole'
  BY <1>1 DEF IInv, EncryptorFits, FileIsWritten, NotYetRead, AcceptsOnlyWhole
<1>10. QED
  BY <1>7, <1>8, <1>9 DEF IInv

-----------------------------------------------------------------------------
(***************************************************************************)
(* FileDecryptor: what a push takes for the header and for the buffer, and *)
(* what the frames are that it opens.                                      *)
(***************************************************************************)
Bytes(k) == SubSeq(delivered, fed + 1, fed + k)

Need == HeaderSize - Len(header)

HeaderAfter(k) == header \o SubSeq(Bytes(k), 1, IF Need < k THEN Need ELSE k)

BufferAfter(k) == decBuf \o After(Bytes(k), Need)

Pieces(k) ==
    [i \in 1 .. FramesDrained(Len(BufferAfter(k))) |-> Piece(BufferAfter(k), FrameSize, i)]

\* A push fills the header first.
LEMMA PushTakes ==
    ASSUME IInv, phase = "decrypting", NEW k \in Nat, fed + k <= Len(delivered)
    PROVE  /\ HeaderAfter(k) \in Seq(AnyByte) /\ Len(HeaderAfter(k)) \in 0 .. HeaderSize
           /\ BufferAfter(k) \in Seq(GoodBytes(pushed)) /\ Len(BufferAfter(k)) \in Nat
           /\ fed + k = Len(HeaderAfter(k)) + opened * FrameSize + Len(BufferAfter(k))
           /\ Len(HeaderAfter(k)) < HeaderSize => Len(BufferAfter(k)) = 0 /\ opened = 0
           /\ Len(decBuf) > 0 => Len(BufferAfter(k)) > 0
<1> DEFINE b == Bytes(k)
           h == Len(header)
           c == Len(decBuf)
           t == IF Need < k THEN Need ELSE k
           first == SubSeq(b, 1, t)
           rest == After(b, Need)
           o == opened * FrameSize
<1>1. /\ delivered \in Seq(GoodBytes(pushed)) /\ decBuf \in Seq(GoodBytes(pushed))
      /\ header \in Seq(AnyByte)
      /\ fed = h + o + c
      /\ h < HeaderSize => c = 0 /\ opened = 0
  BY DEF IInv, DecryptorFits
<1>2. fed \in Nat /\ h \in 0 .. HeaderSize /\ c \in Nat /\ opened \in Nat /\ pushed \in Nat
  <2>1. Len(delivered) \in Nat /\ c \in Nat
    BY <1>1, LenProperties
  <2>2. fed \in 0 .. Len(delivered) /\ h \in 0 .. HeaderSize
    BY DEF IInv, BuffersFit
  <2>3. opened \in 0 .. sealed /\ pushed \in 0 .. MaxFile /\ sealed \in 0 .. MaxFile
    BY DEF IInv, BuffersFit
  <2>4. QED
    BY <2>1, <2>2, <2>3, Sizes
<1>3. o \in Nat
  BY <1>2, Sizes
<1>4. b \in Seq(GoodBytes(pushed)) /\ Len(b) = k
  <2>1. /\ fed + 1 \in Nat /\ fed + k \in Nat /\ 1 <= fed + 1 /\ fed + 1 <= fed + k + 1
        /\ (fed + k) - (fed + 1) + 1 = k
    BY <1>2
  <2>2. /\ SubSeq(delivered, fed + 1, fed + k) \in Seq(GoodBytes(pushed))
        /\ Len(SubSeq(delivered, fed + 1, fed + k)) = (fed + k) - (fed + 1) + 1
    BY <1>1, <2>1, SubSeqIs
  <2>3. QED
    BY <2>1, <2>2 DEF Bytes
<1>5. Need \in Nat /\ Need = HeaderSize - h /\ t \in Nat /\ t <= k /\ t <= Need
  BY <1>2, Sizes DEF Need
<1> HIDE DEF b, h, c, o
<1>6. first \in Seq(GoodBytes(pushed)) /\ Len(first) = t
  <2>1. /\ first \in Seq(GoodBytes(pushed)) /\ Len(first) = t - 1 + 1
    BY <1>4, <1>5, SubSeqIs
  <2>2. QED
    BY <1>5, <2>1
<1>7. rest \in Seq(GoodBytes(pushed)) /\ Len(rest) = k - t
  <2>1. CASE Need < k
    <3>1. /\ Need + 1 \in Nat /\ 1 <= Need + 1 /\ Need + 1 <= k + 1 /\ t = Need
          /\ k - (Need + 1) + 1 = k - Need
      BY <1>5, <2>1
    <3>2. /\ SubSeq(b, Need + 1, k) \in Seq(GoodBytes(pushed))
          /\ Len(SubSeq(b, Need + 1, k)) = k - (Need + 1) + 1
      BY <1>4, <3>1, SubSeqIs
    <3>3. QED
      BY <1>4, <3>1, <3>2 DEF After
  <2>2. CASE ~(Need < k)
    <3>1. SubSeq(b, Need + 1, k) = <<>>
      BY <1>4, <1>5, <2>2
    <3>2. QED
      BY <1>4, <1>5, <2>2, <3>1, EmptySeq DEF After
  <2>3. QED
    BY <2>1, <2>2
<1>8. first \in Seq(AnyByte)
  <2>1. GoodBytes(pushed) \subseteq AnyByte
    BY DEF GoodBytes
  <2> HIDE DEF first
  <2>2. QED
    BY <1>6, <2>1
<1> HIDE DEF first, rest
<1>9. HeaderAfter(k) \in Seq(AnyByte) /\ Len(HeaderAfter(k)) = h + t
  <2>1. HeaderAfter(k) = Joined(header, first)
    BY DEF HeaderAfter, Joined, first, b
  <2>2. QED
    BY <1>1, <1>6, <1>8, <2>1, JoinedIs DEF h
<1>10. BufferAfter(k) \in Seq(GoodBytes(pushed)) /\ Len(BufferAfter(k)) = c + (k - t)
  <2>1. BufferAfter(k) = Joined(decBuf, rest)
    BY DEF BufferAfter, Joined, rest, b
  <2>2. QED
    BY <1>1, <1>7, <2>1, JoinedIs DEF c
<1> HIDE DEF t
<1>11. Len(HeaderAfter(k)) \in 0 .. HeaderSize /\ Len(BufferAfter(k)) \in Nat
  BY <1>2, <1>5, <1>9, <1>10, Sizes
<1>12. fed + k = Len(HeaderAfter(k)) + o + Len(BufferAfter(k))
  BY <1>1, <1>2, <1>3, <1>5, <1>9, <1>10
<1>13. Len(HeaderAfter(k)) < HeaderSize => Len(BufferAfter(k)) = 0 /\ opened = 0
  <2>1. Len(HeaderAfter(k)) < HeaderSize => t < Need /\ h < HeaderSize
    BY <1>2, <1>5, <1>9, Sizes
  <2>2. t < Need => t = k
    BY <1>5 DEF t
  <2>3. QED
    BY <1>1, <1>2, <1>5, <1>10, <2>1, <2>2
<1>14. c > 0 => Len(BufferAfter(k)) > 0
  BY <1>2, <1>5, <1>10
<1>15. QED
  BY <1>9, <1>10, <1>11, <1>12, <1>13, <1>14 DEF o, c

\* A good byte of a frame tells which of the file's frames it is of.
LEMMA FrameIs ==
    ASSUME NEW length \in Nat, NEW byte \in GoodBytes(length), byte.of.place >= 1
    PROVE  \E m \in Nat, r \in 1 .. C :
              /\ length = m * C + r /\ Len(Frames(length)) = m + 1
              /\ byte.of.final => byte.of.place = m + 1 /\ byte.of = LastFrame(m, r)
              /\ ~byte.of.final => byte.of.place \in 1 .. m
                                   /\ byte.of = FullFrame(byte.of.place)
<1> DEFINE p == byte.of.place
<1>1. p \in 1 .. Len(Frames(length)) /\ byte.of = Frames(length)[p]
  BY DEF GoodBytes
<1>2. length # 0
  BY <1>1, NoFrames
<1>3. PICK m \in Nat, r \in 1 .. C : length = m * C + r
  BY <1>2, Decomposed
<1>4. /\ Len(Frames(length)) = m + 1
      /\ \A i \in 1 .. m : Frames(length)[i] = FullFrame(i)
      /\ Frames(length)[m + 1] = LastFrame(m, r)
  BY <1>3, FramesAre
<1> HIDE DEF p
<1>5. CASE p = m + 1
  <2>1. byte.of = LastFrame(m, r) /\ byte.of.final
    BY <1>1, <1>4, <1>5, LastFrameIs
  <2>2. QED
    BY <1>3, <1>4, <1>5, <2>1 DEF p
<1>6. CASE p \in 1 .. m
  <2>1. byte.of = FullFrame(p) /\ ~byte.of.final
    BY <1>1, <1>4, <1>6, FullFrameIs
  <2>2. QED
    BY <1>3, <1>4, <1>6, <2>1 DEF p
<1>7. QED
  BY <1>1, <1>4, <1>5, <1>6

\* All chunks but the last one are within the plaintext.
LEMMA OpenedFits ==
    ASSUME NEW length \in Nat, NEW n \in Nat, n = 0 \/ n < Len(Frames(length))
    PROVE  n * C \in Nat /\ n * C <= length
<1>1. n * C \in Nat
  BY Counted
<1>2. CASE n = 0
  BY <1>2, Sizes
<1>3. CASE n # 0
  <2>1. length # 0
    BY <1>3, NoFrames
  <2>2. PICK m \in Nat, r \in 1 .. C : length = m * C + r
    BY <2>1, Decomposed
  <2>3. Len(Frames(length)) = m + 1
    BY <2>2, FramesAre
  <2>4. n <= m
    BY <1>3, <2>3
  <2>5. n < m => n * C + C <= m * C
    BY MoreIsLonger, Sizes
  <2>6. n * C <= m * C
    <3>1. m * C \in Nat
      BY Counted
    <3>2. CASE n = m
      BY <1>1, <3>2
    <3>3. CASE n < m
      BY <1>1, <2>5, <3>1, <3>3, Sizes
    <3>4. QED
      BY <2>4, <3>2, <3>3
  <2>7. m * C \in Nat
    BY Counted
  <2>8. QED
    BY <1>1, <2>2, <2>6, <2>7
<1>4. QED
  BY <1>2, <1>3

\* The pieces of a buffer, byte by byte.
LEMMA PieceIs ==
    ASSUME NEW S, NEW buf \in Seq(S), NEW i \in Nat \ {0}, i * FrameSize <= Len(buf)
    PROVE  /\ Piece(buf, FrameSize, i) \in Seq(S)
           /\ Len(Piece(buf, FrameSize, i)) = FrameSize
           /\ (i - 1) * FrameSize \in Nat /\ (i - 1) * FrameSize + FrameSize <= Len(buf)
           /\ \A j \in 1 .. FrameSize :
                 Piece(buf, FrameSize, i)[j] = buf[(i - 1) * FrameSize + j]
<1> DEFINE p == (i - 1) * FrameSize
           q == i * FrameSize
<1>1. p \in Nat /\ q = p + FrameSize /\ FrameSize \in Nat /\ FrameSize >= 1
  <2>1. i - 1 \in Nat /\ FrameSize \in Nat /\ FrameSize >= 1
    BY Sizes
  <2>2. q = ((i - 1) + 1) * FrameSize
    BY <2>1
  <2>3. ((i - 1) + 1) * FrameSize = (i - 1) * FrameSize + 1 * FrameSize /\ p \in Nat
    BY <2>1, Distributes
  <2>4. QED
    BY <2>1, <2>2, <2>3
<1>2. Piece(buf, FrameSize, i) = SubSeq(buf, p + 1, q) /\ q <= Len(buf)
  BY DEF Piece
<1> HIDE DEF p, q
<1>3. /\ p + 1 \in Nat /\ q \in Nat /\ 1 <= p + 1 /\ p + 1 <= q + 1 /\ q <= Len(buf)
      /\ q - (p + 1) + 1 = FrameSize /\ (p + 1) - 1 = p
  BY <1>1, <1>2
<1>4. /\ SubSeq(buf, p + 1, q) \in Seq(S)
      /\ Len(SubSeq(buf, p + 1, q)) = q - (p + 1) + 1
      /\ \A j \in 1 .. q - (p + 1) + 1 : SubSeq(buf, p + 1, q)[j] = buf[(p + 1) - 1 + j]
  BY <1>3, SubSeqIs
<1>5. QED
  BY <1>1, <1>2, <1>3, <1>4 DEF p

\* How many pieces a push drains, and what it leaves.
LEMMA PushLeaves ==
    ASSUME NEW length \in Nat
    PROVE  /\ FramesDrained(length) \in Nat /\ FramesDrained(length) * FrameSize \in Nat
           /\ FramesDrained(length) * FrameSize <= length
           /\ length - FramesDrained(length) * FrameSize <= FrameSize
           /\ length > 0 => length - FramesDrained(length) * FrameSize >= 1
<1>1. FrameSize \in Nat /\ FrameSize >= 1
  BY Sizes
<1>2. FramesDrained(length) = IF length = 0 THEN 0 ELSE (length - 1) \div FrameSize
  BY DEF FramesDrained
<1>3. QED
  BY <1>1, <1>2, Drained

LEMMA WithinDrained ==
    ASSUME NEW length \in Nat, NEW i \in 1 .. FramesDrained(length)
    PROVE  i \in Nat \ {0} /\ i * FrameSize <= length
<1> DEFINE n == FramesDrained(length)
           d == n * FrameSize
           e == i * FrameSize
<1>1. n \in Nat /\ d \in Nat /\ d <= length
  BY PushLeaves
<1> HIDE DEF n
<1>2. i \in Nat \ {0} /\ (i = n \/ i < n) /\ FrameSize \in Nat /\ FrameSize >= 1
  BY <1>1, Sizes DEF n
<1>3. i < n => e + FrameSize <= d
  BY <1>1, <1>2, MoreIsLonger
<1>4. e \in Nat
  BY <1>2
<1>5. e <= d
  <2>1. CASE i = n
    BY <1>1, <2>1
  <2>2. CASE i < n
    <3> HIDE DEF d, e
    <3>1. QED
      BY <1>1, <1>2, <1>3, <1>4, <2>2
  <2>3. QED
    BY <1>2, <2>1, <2>2
<1> HIDE DEF d
<1>6. QED
  BY <1>1, <1>2, <1>4, <1>5

\* What Pieces returns.
LEMMA PiecesAre ==
    ASSUME NEW k
    PROVE  /\ DOMAIN Pieces(k) = 1 .. FramesDrained(Len(BufferAfter(k)))
           /\ \A i \in 1 .. FramesDrained(Len(BufferAfter(k))) :
                 Pieces(k)[i] = Piece(BufferAfter(k), FrameSize, i)
  BY DEF Pieces

\* A push that does not fail opens the file's next frames, none of them final.
LEMMA FramesOpened ==
    ASSUME IInv, phase = "decrypting", NEW k \in Nat, fed + k <= Len(delivered),
           ~Refuses(HeaderAfter(k), Pieces(k)),
           NEW i \in 1 .. FramesDrained(Len(BufferAfter(k)))
    PROVE  FrameOf(Pieces(k)[i]) = FullFrame(opened + i) /\ opened + i < sealed
<1> DEFINE buf == BufferAfter(k)
           piece == Pieces(k)[i]
           byte == piece[1]
<1>1. buf \in Seq(GoodBytes(pushed)) /\ Len(buf) \in Nat
  BY PushTakes
<1>2. piece = Piece(buf, FrameSize, i) /\ i \in DOMAIN Pieces(k)
  BY PiecesAre
<1>3. Opens(HeaderAfter(k), opened + i, piece) /\ ~FrameOf(piece).final
  BY <1>2 DEF Refuses
<1> HIDE DEF buf, piece
<1>4. i \in Nat \ {0} /\ i * FrameSize <= Len(buf)
  BY <1>1, WithinDrained DEF buf
<1>5. piece \in Seq(GoodBytes(pushed)) /\ Len(piece) = FrameSize
  BY <1>1, <1>2, <1>4, PieceIs
<1>6. byte \in GoodBytes(pushed)
  <2>1. 1 \in 1 .. Len(piece)
    BY <1>5, Sizes
  <2>2. QED
    BY <1>5, <2>1
<1>7. byte.of.place = opened + i /\ ~byte.of.final /\ FrameOf(piece) = byte.of
  BY <1>3 DEF Opens, FrameOf
<1>8. /\ pushed \in Nat /\ opened \in Nat
      /\ sealed = Len(Frames(pushed))
  BY Sizes DEF IInv, BuffersFit, FileIsWritten
<1>9. byte.of.place >= 1
  BY <1>4, <1>7, <1>8
<1> HIDE DEF byte
<1>10. PICK m \in Nat, r \in 1 .. C :
          /\ pushed = m * C + r /\ Len(Frames(pushed)) = m + 1
          /\ byte.of.final => byte.of.place = m + 1 /\ byte.of = LastFrame(m, r)
          /\ ~byte.of.final => byte.of.place \in 1 .. m
                               /\ byte.of = FullFrame(byte.of.place)
  BY <1>6, <1>8, <1>9, FrameIs
<1>11. opened + i \in 1 .. m /\ byte.of = FullFrame(opened + i)
  BY <1>7, <1>10
<1>12. opened + i < sealed
  BY <1>8, <1>10, <1>11
<1>13. QED
  BY <1>7, <1>11, <1>12 DEF piece

\* FileDecryptor's push preserves the invariant.
LEMMA DecryptorPushes ==
    ASSUME IInv, NEW k \in 0 .. Len(delivered) - fed, DecryptorPush(k)
    PROVE  IInv'
<1> DEFINE hdr == HeaderAfter(k)
           buf == BufferAfter(k)
           length == Len(buf)
           n == FramesDrained(length)
           rest == length - n * FrameSize
           data == [i \in 1 .. n |-> FullFrame(opened + i).data]
<1>1. /\ phase = "decrypting" /\ fed + k <= Len(delivered) /\ fed' = fed + k
      /\ header' = hdr
      /\ pushed' = pushed /\ started' = started /\ encBuf' = encBuf
      /\ sealed' = sealed /\ wire' = wire /\ delivered' = delivered
  BY DEF DecryptorPush, encVars, HeaderAfter, Bytes, Need
<1>2. /\ Refuses(hdr, Pieces(k)) =>
            /\ phase' = "refused"
            /\ decBuf' = decBuf /\ opened' = opened /\ sawChunk' = sawChunk /\ out' = out
      /\ ~Refuses(hdr, Pieces(k)) =>
            /\ phase' = phase
            /\ decBuf' = After(buf, n * FrameSize)
            /\ opened' = opened + n
            /\ sawChunk' = (sawChunk \/ n > 0)
            /\ out' = out \o FlattenSeq([i \in 1 .. n |-> FrameOf(Pieces(k)[i]).data])
  BY DEF DecryptorPush, HeaderAfter, BufferAfter, Pieces, Bytes, Need
<1>3. /\ pushed \in Nat /\ pushed <= MaxFile /\ opened \in Nat /\ fed \in Nat
      /\ k \in Nat /\ sealed \in Nat /\ sealed = Len(Frames(pushed))
  <2>1. /\ pushed \in 0 .. MaxFile /\ sealed \in 0 .. MaxFile /\ opened \in 0 .. sealed
        /\ fed \in 0 .. Len(delivered)
    BY DEF IInv, BuffersFit
  <2>2. sealed = Len(Frames(pushed))
    BY <1>1 DEF IInv, FileIsWritten
  <2>3. QED
    BY <2>1, <2>2, Sizes
<1>4. /\ delivered \in Seq(GoodBytes(pushed)) /\ decBuf \in Seq(GoodBytes(pushed))
      /\ opened = 0 \/ opened < sealed
      /\ sawChunk <=> opened > 0
      /\ out = Plain(opened * C)
      /\ opened > 0 => Len(decBuf) > 0
  BY <1>1 DEF IInv, DecryptorFits
<1>5. /\ hdr \in Seq(AnyByte) /\ Len(hdr) \in 0 .. HeaderSize
      /\ buf \in Seq(GoodBytes(pushed)) /\ length \in Nat
      /\ fed + k = Len(hdr) + opened * FrameSize + length
      /\ Len(hdr) < HeaderSize => length = 0 /\ opened = 0
      /\ Len(decBuf) > 0 => length > 0
  BY <1>1, <1>3, PushTakes
<1>6. fed' \in 0 .. Len(delivered')
  <2>1. Len(delivered) \in Nat
    BY <1>4, LenProperties
  <2>2. QED
    BY <1>1, <1>3, <2>1
<1>7. EncryptorFits' /\ NotYetRead' /\ FileIsWritten' /\ AcceptsOnlyWhole'
  <2>1. phase' \in {"decrypting", "refused"}
    BY <1>1, <1>2
  <2>2. QED
    BY <1>1, <2>1 DEF IInv, EncryptorFits, NotYetRead, FileIsWritten, AcceptsOnlyWhole
<1>8. CASE Refuses(hdr, Pieces(k))
  <2>1. /\ phase' = "refused"
        /\ decBuf' = decBuf /\ opened' = opened /\ sawChunk' = sawChunk /\ out' = out
    BY <1>2, <1>8
  <2>2. BuffersFit'
    BY <1>1, <1>5, <1>6, <2>1 DEF IInv, BuffersFit
  <2>3. DecryptorFits'
    BY <1>1, <1>4, <1>5, <2>1 DEF DecryptorFits
  <2>4. QED
    BY <1>7, <2>2, <2>3 DEF IInv
<1>9. CASE ~Refuses(hdr, Pieces(k))
  <2>1. /\ phase' = "decrypting"
        /\ decBuf' = After(buf, n * FrameSize)
        /\ opened' = opened + n
        /\ sawChunk' = (sawChunk \/ n > 0)
        /\ out' = out \o FlattenSeq([i \in 1 .. n |-> FrameOf(Pieces(k)[i]).data])
    BY <1>1, <1>2, <1>9
  <2>2. /\ n \in Nat /\ n * FrameSize \in Nat /\ n * FrameSize <= length
        /\ rest <= FrameSize /\ rest \in Nat
        /\ length > 0 => rest >= 1
    <3>1. /\ n \in Nat /\ n * FrameSize \in Nat /\ n * FrameSize <= length
          /\ rest <= FrameSize
          /\ length > 0 => rest >= 1
      BY <1>5, PushLeaves
    <3>2. QED
      BY <1>5, <3>1
  <2>3. \A i \in 1 .. n :
           FrameOf(Pieces(k)[i]) = FullFrame(opened + i) /\ opened + i < sealed
    BY <1>1, <1>3, <1>9, FramesOpened
  <2> HIDE DEF hdr, buf, length, n
  <2>4. opened' \in Nat /\ (opened' = 0 \/ opened' < sealed) /\ opened' <= sealed
    <3>1. CASE n = 0
      BY <1>3, <1>4, <2>1, <3>1
    <3>2. CASE n # 0
      <4>1. n \in 1 .. n
        BY <2>2, <3>2
      <4>2. opened + n < sealed
        BY <2>3, <4>1
      <4>3. QED
        BY <1>3, <2>1, <2>2, <4>2
    <3>3. QED
      BY <3>1, <3>2
  <2>5. out' = Plain(opened' * C)
    <3>1. [i \in 1 .. n |-> FrameOf(Pieces(k)[i]).data] = data
      BY <2>3
    <3>2. FlattenSeq(data) = Stretch(opened * C, n * C)
      BY <1>3, <2>2, ChunksJoin
    <3>3. out' = Joined(Plain(opened * C), Stretch(opened * C, n * C))
      BY <1>4, <2>1, <3>1, <3>2 DEF Joined
    <3>4. opened' * C = opened * C + n * C /\ opened * C \in Nat /\ n * C \in Nat
      BY <1>3, <2>1, <2>2, Distributes, Sizes
    <3>5. Joined(Plain(opened * C), Stretch(opened * C, n * C))
              = Plain(opened * C + n * C)
      BY <3>4, PlainGrows
    <3>6. QED
      BY <3>3, <3>4, <3>5
  <2>6. out' \in Upto(1 .. MaxFile, MaxFile)
    <3> DEFINE d == opened' * C
    <3>1. d \in Nat /\ d <= pushed
      BY <1>3, <2>4, OpenedFits
    <3>2. out' = Plain(d)
      BY <2>5
    <3> HIDE DEF d
    <3>3. QED
      BY <1>3, <3>1, <3>2, PlainType, Sizes
  <2>7. decBuf' \in Seq(GoodBytes(pushed)) /\ Len(decBuf') = rest
    <3> DEFINE d == n * FrameSize
    <3>1. /\ d + 1 \in Nat /\ 1 <= d + 1 /\ d + 1 <= length + 1 /\ length <= Len(buf)
          /\ length \in Nat /\ length - (d + 1) + 1 = rest
      BY <1>5, <2>2 DEF length
    <3>2. decBuf' = SubSeq(buf, d + 1, length)
      BY <2>1 DEF After, length
    <3> HIDE DEF d, rest
    <3>3. /\ SubSeq(buf, d + 1, length) \in Seq(GoodBytes(pushed))
          /\ Len(SubSeq(buf, d + 1, length)) = length - (d + 1) + 1
      BY <1>5, <3>1, SubSeqIs
    <3>4. QED
      BY <3>1, <3>2, <3>3
  <2>8. fed' = Len(header') + opened' * FrameSize + Len(decBuf')
    <3>1. /\ opened' * FrameSize = opened * FrameSize + n * FrameSize
          /\ opened * FrameSize \in Nat /\ n * FrameSize \in Nat
      BY <1>3, <2>1, <2>2, Distributes, Sizes
    <3> DEFINE d == n * FrameSize
               e == opened * FrameSize
    <3>2. rest = length - d /\ d \in Nat /\ e \in Nat /\ opened' * FrameSize = e + d
      BY <3>1
    <3>3. fed' = Len(hdr) + e + length
      BY <1>1, <1>5
    <3> HIDE DEF d, e, rest
    <3>4. Len(hdr) \in Nat /\ length \in Nat
      BY <1>5, Sizes
    <3>5. QED
      BY <1>1, <2>7, <3>2, <3>3, <3>4
  <2> HIDE DEF rest
  <2>9. sawChunk' <=> opened' > 0
    <3>1. opened' > 0 <=> opened > 0 \/ n > 0
      BY <1>3, <2>1, <2>2
    <3>2. QED
      BY <1>4, <2>1, <3>1
  <2>10. Len(header') < HeaderSize => Len(decBuf') = 0 /\ opened' = 0
    <3>1. length = 0 => rest = 0 /\ n = 0
      BY <2>2, PushLeaves DEF rest, n, FramesDrained
    <3>2. QED
      BY <1>1, <1>3, <1>5, <2>1, <2>7, <3>1
  <2>11. opened' > 0 => Len(decBuf') > 0
    <3>1. length > 0 => rest > 0
      BY <2>2
    <3>2. n > 0 => length > 0
      BY <1>5 DEF n, FramesDrained
    <3>3. opened > 0 => length > 0
      BY <1>4, <1>5
    <3>4. opened' > 0 => opened > 0 \/ n > 0
      BY <1>3, <2>1, <2>2
    <3>5. QED
      BY <2>7, <3>1, <3>2, <3>3, <3>4
  <2>12. DecryptorFits'
    BY <1>1, <1>4, <1>5, <2>1, <2>4, <2>5, <2>7, <2>8, <2>9, <2>10, <2>11 DEF DecryptorFits
  <2>13. BuffersFit'
    <3>1. opened' \in 0 .. sealed'
      BY <1>1, <1>3, <2>4
    <3>2. Len(header') \in 0 .. HeaderSize
      BY <1>1, <1>5
    <3>3. Len(decBuf') \in 0 .. FrameSize
      BY <2>2, <2>7, Sizes
    <3>4. sawChunk' \in BOOLEAN
      BY <2>1
    <3>5. /\ pushed' \in 0 .. MaxFile /\ started' \in BOOLEAN
          /\ encBuf' \in Upto(1 .. MaxFile, ChunkSize) /\ sealed' \in 0 .. MaxFile
      BY <1>1 DEF IInv, BuffersFit
    <3>6. QED
      BY <1>6, <2>1, <2>6, <3>1, <3>2, <3>3, <3>4, <3>5 DEF BuffersFit
  <2>14. QED
    BY <1>7, <2>12, <2>13 DEF IInv
<1>10. QED
  BY <1>8, <1>9

\* So does its finish.
LEMMA DecryptorFinishes ==
    ASSUME IInv, DecryptorFinish
    PROVE  IInv'
<1>1. /\ phase = "decrypting" /\ fed = Len(delivered)
      /\ pushed' = pushed /\ started' = started /\ encBuf' = encBuf
      /\ sealed' = sealed /\ wire' = wire /\ delivered' = delivered
      /\ fed' = fed /\ header' = header /\ decBuf' = decBuf
      /\ opened' = opened /\ sawChunk' = sawChunk
  BY DEF DecryptorFinish, encVars
<1>2. /\ pushed \in Nat /\ pushed <= MaxFile /\ opened \in Nat
      /\ sealed = Len(Frames(pushed))
      /\ sawChunk \in BOOLEAN /\ out \in Upto(1 .. MaxFile, MaxFile)
  <2>1. /\ pushed \in 0 .. MaxFile /\ sealed \in 0 .. MaxFile /\ opened \in 0 .. sealed
        /\ sawChunk \in BOOLEAN /\ out \in Upto(1 .. MaxFile, MaxFile)
    BY DEF IInv, BuffersFit
  <2>2. sealed = Len(Frames(pushed))
    BY <1>1 DEF IInv, FileIsWritten
  <2>3. QED
    BY <2>1, <2>2, Sizes
<1>3. /\ delivered \in Seq(GoodBytes(pushed)) /\ decBuf \in Seq(GoodBytes(pushed))
      /\ header \in Seq(AnyByte)
      /\ opened = 0 \/ opened < sealed
      /\ sawChunk <=> opened > 0
      /\ out = Plain(opened * C)
      /\ fed = Len(header) + opened * FrameSize + Len(decBuf)
  BY <1>1 DEF IInv, DecryptorFits
<1>4. /\ phase' \in {"accepted", "refused"}
      /\ phase' = "refused" => out' = out
      /\ out' \in Upto(1 .. MaxFile, MaxFile)
      /\ phase' = "accepted" =>
            out' = Plain(pushed) \/ (out' = <<>> /\ Len(delivered) = HeaderSize)
  <2>1. CASE /\ Len(header) = HeaderSize
             /\ decBuf # <<>>
             /\ Opens(header, opened + 1, decBuf)
             /\ CompleteWith(FrameOf(decBuf))
             /\ phase' = "accepted"
             /\ out' = out \o FrameOf(decBuf).data
    <3> DEFINE byte == decBuf[1]
    <3>1. byte \in GoodBytes(pushed)
      <4>1. 1 \in 1 .. Len(decBuf)
        BY <1>3, <2>1, EmptySeq, LenProperties
      <4>2. QED
        BY <1>3, <4>1
    <3>2. byte.of.place = opened + 1 /\ byte.of.final /\ FrameOf(decBuf) = byte.of
      BY <2>1 DEF Opens, CompleteWith, FrameOf
    <3> HIDE DEF byte
    <3>3. byte.of.place >= 1
      BY <1>2, <3>2
    <3>4. PICK m \in Nat, r \in 1 .. C :
             /\ pushed = m * C + r /\ Len(Frames(pushed)) = m + 1
             /\ byte.of.final => byte.of.place = m + 1 /\ byte.of = LastFrame(m, r)
      BY <1>2, <3>1, <3>3, FrameIs
    <3>5. opened = m /\ FrameOf(decBuf).data = Stretch(m * C, r)
      <4>1. opened = m /\ byte.of = LastFrame(m, r)
        BY <1>2, <3>2, <3>4
      <4>2. LastFrame(m, r).data = Stretch(m * C, r)
        BY LastFrameIs
      <4>3. QED
        BY <3>2, <4>1, <4>2
    <3>6. out' = Joined(Plain(m * C), Stretch(m * C, r))
      BY <1>3, <2>1, <3>5 DEF Joined
    <3>7. m * C \in Nat /\ r \in Nat
      BY Counted
    <3>8. Joined(Plain(m * C), Stretch(m * C, r)) = Plain(m * C + r)
      BY <3>7, PlainGrows
    <3>9. out' = Plain(pushed)
      BY <3>4, <3>6, <3>8
    <3>10. Plain(pushed) \in Upto(1 .. MaxFile, MaxFile)
      BY <1>2, PlainType
    <3>11. QED
      BY <2>1, <3>9, <3>10
  <2>2. CASE /\ Len(header) = HeaderSize
             /\ decBuf = <<>>
             /\ phase' = IF sawChunk THEN "refused" ELSE "accepted"
             /\ out' = out
    <3>1. CASE sawChunk
      BY <1>2, <2>2, <3>1
    <3>2. CASE ~sawChunk
      <4>1. opened = 0
        BY <1>2, <1>3, <3>2
      <4>2. opened * C = 0 /\ opened * FrameSize = 0 /\ Len(decBuf) = 0
        BY <2>2, <4>1, Sizes
      <4>3. out' = <<>>
        BY <1>3, <2>2, <4>2 DEF Plain
      <4>4. Len(delivered) = HeaderSize
        BY <1>1, <1>3, <2>2, <4>2, Sizes
      <4>5. QED
        BY <1>2, <2>2, <3>2, <4>3, <4>4
    <3>3. QED
      BY <3>1, <3>2
  <2>3. CASE phase' = "refused" /\ out' = out
    BY <1>2, <2>3
  <2>4. QED
    BY <2>1, <2>2, <2>3 DEF DecryptorFinish
<1>5. BuffersFit'
  BY <1>1, <1>4 DEF IInv, BuffersFit
<1>6. DecryptorFits'
  BY <1>1, <1>3, <1>4 DEF DecryptorFits
<1>7. AcceptsOnlyWhole'
  BY <1>1, <1>4 DEF AcceptsOnlyWhole
<1>8. EncryptorFits' /\ FileIsWritten' /\ NotYetRead'
  BY <1>1, <1>4 DEF IInv, EncryptorFits, FileIsWritten, NotYetRead
<1>9. QED
  BY <1>5, <1>6, <1>7, <1>8 DEF IInv

-----------------------------------------------------------------------------
(***************************************************************************)
(* The invariant, and what follows from it.                                *)
(***************************************************************************)

\* Every step preserves the invariant.
LEMMA Steps == IInv /\ [Next]_vars => IInv'
<1> SUFFICES ASSUME IInv, [Next]_vars PROVE IInv'
  OBVIOUS
<1>1. CASE \E k \in 0 .. MaxFile : EncryptorPush(k)
  BY <1>1, EncryptorPushes
<1>2. CASE EncryptorFinish
  BY <1>2, EncryptorFinishes
<1>3. CASE Deliver
  BY <1>3, Delivers
<1>4. CASE \E k \in 0 .. Len(delivered) - fed : DecryptorPush(k)
  BY <1>4, DecryptorPushes
<1>5. CASE DecryptorFinish
  BY <1>5, DecryptorFinishes
<1>6. CASE UNCHANGED vars
  BY <1>6 DEF vars, encVars, decVars, IInv, BuffersFit, EncryptorFits, FileIsWritten,
              NotYetRead, DecryptorFits, AcceptsOnlyWhole
<1>7. QED
  BY <1>1, <1>2, <1>3, <1>4, <1>5, <1>6 DEF Next

\* What the encryptor has written and holds, whatever the pushes; whose bytes
\* reach the decryptor, whatever happened to the file; and what it has returned.
THEOREM Inductive == Spec => []IInv
<1>1. QED
  BY Initially, Steps, PTL DEF Spec

\* No push leaves more than one chunk in FileEncryptor's buf, or more than one
\* frame in FileDecryptor's.
THEOREM BuffersAreBounded == Spec => []BuffersFit
<1>1. IInv => BuffersFit
  BY DEF IInv
<1>2. QED
  BY <1>1, Inductive, PTL

\* However its plaintext is split into pushes, a file is written as whole
\* chunks and a last, final one, and encrypted_file_size has told its length.
THEOREM FilesAreFramedTheSame == Spec => []FramingIsFixed
<1>1. IInv => FramingIsFixed
  <2> SUFFICES ASSUME IInv, phase = "stored"
               PROVE  /\ wire = HeaderBytes
                             \o FlattenSeq([i \in 1 .. Len(Frames(pushed)) |->
                                               BytesOf(Frames(pushed)[i])])
                      /\ Len(wire) = EncryptedFileSize(pushed)
    BY DEF FramingIsFixed
  <2>1. pushed \in Nat /\ wire = FileWire(pushed)
    BY Sizes DEF IInv, BuffersFit, FileIsWritten
  <2>2. Len(wire) = EncryptedFileSize(pushed)
    <3>1. CASE pushed = 0
      BY <2>1, <3>1, EmptyWire, HeaderIs
    <3>2. CASE pushed # 0
      <4>1. PICK m \in Nat, r \in 1 .. C : pushed = m * C + r
        BY <2>1, <3>2, Decomposed
      <4>2. EncryptedFileSize(m * C + r) = Len(FileWire(m * C + r))
        BY WireIs
      <4>3. QED
        BY <2>1, <4>1, <4>2
    <3>3. QED
      BY <3>1, <3>2
  <2>3. QED
    BY <2>1, <2>2 DEF FileWire, FileBytes, Joined
<1>2. QED
  BY <1>1, Inductive, PTL

\* What FileDecryptor returns of a file, whatever happened to it, is the
\* beginning of the plaintext.
THEOREM BeginningsAreReturned == Spec => []ReturnsABeginning
<1>1. IInv => ReturnsABeginning
  <2> SUFFICES ASSUME IInv PROVE IsPrefix(out, Plain(pushed))
    BY DEF ReturnsABeginning
  <2>1. pushed \in Nat /\ opened \in Nat
    BY Sizes DEF IInv, BuffersFit
  <2>2. opened = 0 \/ (phase # "encrypting" /\ sealed = Len(Frames(pushed)))
    BY DEF IInv, NotYetRead, FileIsWritten
  <2>3. CASE phase \in {"encrypting", "stored"}
    <3>1. out = Plain(0) /\ 0 \in Nat /\ 0 <= pushed
      BY <2>1, <2>3 DEF IInv, NotYetRead, Plain
    <3>2. QED
      BY <2>1, <3>1, BeginningIs
  <2>4. CASE phase \in {"decrypting", "refused"}
    <3>1. out = Plain(opened * C) /\ (opened = 0 \/ opened < sealed)
      BY <2>4 DEF IInv, DecryptorFits
    <3>2. opened * C \in Nat /\ opened * C <= pushed
      <4>1. opened = 0 \/ opened < Len(Frames(pushed))
        BY <2>2, <3>1
      <4>2. QED
        BY <2>1, <4>1, OpenedFits
    <3> DEFINE d == opened * C
    <3> HIDE DEF d
    <3>3. d \in Nat /\ d <= pushed /\ out = Plain(d)
      BY <3>1, <3>2 DEF d
    <3>4. QED
      BY <2>1, <3>3, BeginningIs
  <2>5. CASE phase = "accepted"
    <3>1. out = Plain(pushed) \/ out = Plain(0)
      BY <2>5 DEF IInv, AcceptsOnlyWhole, Plain
    <3>2. 0 \in Nat /\ 0 <= pushed /\ pushed <= pushed
      BY <2>1
    <3>3. QED
      BY <2>1, <3>1, <3>2, BeginningIs
  <2>6. QED
    BY <2>3, <2>4, <2>5 DEF IInv, BuffersFit
<1>2. QED
  BY <1>1, Inductive, PTL

\* A file that FileDecryptor's finish accepts is complete, unless it was cut to
\* its header alone.
THEOREM WholeFilesAreAccepted == Spec => []AcceptsOnlyWhole
<1>1. IInv => AcceptsOnlyWhole
  BY DEF IInv
<1>2. QED
  BY <1>1, Inductive, PTL

-----------------------------------------------------------------------------
(***************************************************************************)
(* A file that nothing happened to.                                        *)
(***************************************************************************)
Placed(h, c, n) ==
    /\ \A j \in 1 .. Len(h) : h[j] = delivered[j]
    /\ \A j \in 1 .. Len(c) : c[j] = delivered[n - Len(c) + j]

\* The decryptor has the bytes of the file at the places they were read from.
Positions == phase = "decrypting" => Placed(header, decBuf, fed)

\* A push keeps them so.
LEMMA PushPlaces ==
    ASSUME IInv, Positions, phase = "decrypting", NEW k \in Nat, fed + k <= Len(delivered)
    PROVE  Placed(HeaderAfter(k), BufferAfter(k), fed + k)
<1> DEFINE b == Bytes(k)
           h == Len(header)
           c == Len(decBuf)
           t == IF Need < k THEN Need ELSE k
           first == SubSeq(b, 1, t)
           rest == After(b, Need)
           left == k - t
           H == HeaderAfter(k)
           B == BufferAfter(k)
           N == fed + k
<1>1. /\ delivered \in Seq(GoodBytes(pushed)) /\ decBuf \in Seq(GoodBytes(pushed))
      /\ header \in Seq(AnyByte)
      /\ fed = h + opened * FrameSize + c
      /\ h < HeaderSize => c = 0 /\ opened = 0
  BY DEF IInv, DecryptorFits
<1>2. fed \in Nat /\ h \in 0 .. HeaderSize /\ c \in Nat
  <2>1. Len(delivered) \in Nat /\ c \in Nat
    BY <1>1, LenProperties
  <2>2. fed \in 0 .. Len(delivered) /\ h \in 0 .. HeaderSize
    BY DEF IInv, BuffersFit
  <2>3. QED
    BY <2>1, <2>2
<1>3. h < HeaderSize => c = 0 /\ fed = h
  <2>1. opened = 0 => opened * FrameSize = 0
    BY Sizes
  <2>2. QED
    BY <1>1, <1>2, <2>1, Sizes
<1>4. /\ b \in Seq(GoodBytes(pushed)) /\ Len(b) = k
      /\ \A j \in 1 .. k : b[j] = delivered[fed + j]
  <2>1. /\ fed + 1 \in Nat /\ fed + k \in Nat /\ 1 <= fed + 1 /\ fed + 1 <= fed + k + 1
        /\ (fed + k) - (fed + 1) + 1 = k /\ (fed + 1) - 1 = fed
    BY <1>2
  <2> DEFINE p == fed + 1
             q == fed + k
  <2>2. /\ p \in Nat /\ q \in Nat /\ 1 <= p /\ p <= q + 1 /\ q <= Len(delivered)
        /\ q - p + 1 = k /\ p - 1 = fed
    BY <2>1
  <2>3. b = SubSeq(delivered, p, q)
    BY DEF Bytes
  <2> HIDE DEF p, q, b
  <2>4. /\ SubSeq(delivered, p, q) \in Seq(GoodBytes(pushed))
        /\ Len(SubSeq(delivered, p, q)) = q - p + 1
        /\ \A j \in 1 .. q - p + 1 : SubSeq(delivered, p, q)[j] = delivered[p - 1 + j]
    BY <1>1, <2>2, SubSeqIs
  <2>5. QED
    BY <2>2, <2>3, <2>4
<1>5. /\ Need \in Nat /\ Need = HeaderSize - h /\ t \in Nat /\ t <= k /\ t <= Need
      /\ t = Need \/ t = k
  BY <1>2, Sizes DEF Need
<1> HIDE DEF b, h, c
<1>6. /\ first \in Seq(GoodBytes(pushed)) /\ Len(first) = t
      /\ \A j \in 1 .. t : first[j] = b[j]
  <2>1. /\ first \in Seq(GoodBytes(pushed)) /\ Len(first) = t - 1 + 1
        /\ \A j \in 1 .. t - 1 + 1 : first[j] = b[1 - 1 + j]
    BY <1>4, <1>5, SubSeqIs
  <2>2. QED
    BY <1>5, <2>1
<1>7. /\ rest \in Seq(GoodBytes(pushed)) /\ Len(rest) = k - t
      /\ \A j \in 1 .. k - t : rest[j] = b[t + j]
  <2>1. CASE Need < k
    <3>1. /\ Need + 1 \in Nat /\ 1 <= Need + 1 /\ Need + 1 <= k + 1 /\ t = Need
          /\ k - (Need + 1) + 1 = k - Need /\ (Need + 1) - 1 = Need
      BY <1>5, <2>1
    <3>2. /\ SubSeq(b, Need + 1, k) \in Seq(GoodBytes(pushed))
          /\ Len(SubSeq(b, Need + 1, k)) = k - (Need + 1) + 1
          /\ \A j \in 1 .. k - (Need + 1) + 1 :
                SubSeq(b, Need + 1, k)[j] = b[(Need + 1) - 1 + j]
      BY <1>4, <3>1, SubSeqIs
    <3>3. rest = SubSeq(b, Need + 1, k)
      BY <1>4 DEF After
    <3> HIDE DEF rest, t
    <3>4. \A j \in 1 .. k - t : rest[j] = b[t + j]
      BY <3>1, <3>2, <3>3
    <3>5. QED
      BY <3>1, <3>2, <3>3, <3>4
  <2>2. CASE ~(Need < k)
    <3>1. SubSeq(b, Need + 1, k) = <<>>
      BY <1>4, <1>5, <2>2
    <3>2. k - t = 0
      BY <1>5, <2>2
    <3>3. rest = <<>>
      BY <1>4, <3>1 DEF After
    <3> HIDE DEF rest, t
    <3>4. rest \in Seq(GoodBytes(pushed)) /\ Len(rest) = 0
      BY <3>3, EmptySeq
    <3>5. QED
      BY <3>2, <3>4
  <2>3. QED
    BY <2>1, <2>2
<1> HIDE DEF first
<1>8. first \in Seq(AnyByte)
  <2>1. GoodBytes(pushed) \subseteq AnyByte
    BY DEF GoodBytes
  <2>2. QED
    BY <1>6, <2>1
<1>0. left \in Nat /\ left = k - t /\ N = fed + k
  BY <1>5
<1> HIDE DEF rest, t, H, B, N, left
<1>9. /\ \A j \in 1 .. h : header[j] = delivered[j]
      /\ \A j \in 1 .. c : decBuf[j] = delivered[fed - c + j]
  BY DEF Positions, Placed, h, c
<1>10. /\ Len(H) = h + t
       /\ \A j \in 1 .. h : H[j] = header[j]
       /\ \A j \in 1 .. t : H[h + j] = first[j]
  <2>1. H = Joined(header, first)
    BY DEF H, HeaderAfter, Joined, first, b, t
  <2>2. header \in Seq(AnyByte) /\ first \in Seq(AnyByte)
    BY <1>1, <1>8
  <2>3. Len(Joined(header, first)) = Len(header) + Len(first)
    BY <2>2, JoinedIs
  <2>4. \A j \in 1 .. Len(header) : Joined(header, first)[j] = header[j]
    BY <2>2, JoinedIs
  <2>5. \A j \in 1 .. Len(first) : Joined(header, first)[Len(header) + j] = first[j]
    BY <2>2, JoinedIs
  <2>6. QED
    BY <1>6, <2>1, <2>3, <2>4, <2>5 DEF h
<1>11. /\ Len(B) = c + left
       /\ \A j \in 1 .. c : B[j] = decBuf[j]
       /\ \A j \in 1 .. left : B[c + j] = rest[j]
  <2>1. B = Joined(decBuf, rest)
    BY DEF B, BufferAfter, Joined, rest, b
  <2>2. decBuf \in Seq(GoodBytes(pushed)) /\ rest \in Seq(GoodBytes(pushed))
    BY <1>1, <1>7
  <2>3. Len(Joined(decBuf, rest)) = Len(decBuf) + Len(rest)
    BY <2>2, JoinedIs
  <2>4. \A j \in 1 .. Len(decBuf) : Joined(decBuf, rest)[j] = decBuf[j]
    BY <2>2, JoinedIs
  <2>5. \A j \in 1 .. Len(rest) : Joined(decBuf, rest)[Len(decBuf) + j] = rest[j]
    BY <2>2, JoinedIs
  <2>6. QED
    BY <1>0, <1>7, <2>1, <2>3, <2>4, <2>5 DEF c
<1>12. ASSUME NEW j \in 1 .. h + t PROVE H[j] = delivered[j]
  <2>1. CASE j <= h
    <3>1. j \in 1 .. h
      BY <1>2, <2>1
    <3>2. QED
      BY <1>9, <1>10, <3>1
  <2>2. CASE j > h
    <3>1. j - h \in 1 .. t /\ h + (j - h) = j /\ j - h \in 1 .. k
      BY <1>2, <1>5, <2>2
    <3>2. fed = h
      <4>1. h < HeaderSize
        BY <1>2, <1>5, <3>1, Sizes
      <4>2. QED
        BY <1>3, <4>1
    <3>3. H[j] = first[j - h]
      BY <1>10, <3>1
    <3>4. first[j - h] = delivered[fed + (j - h)]
      BY <1>4, <1>6, <3>1
    <3>5. QED
      BY <3>1, <3>2, <3>3, <3>4
  <2>3. QED
    BY <1>2, <1>5, <2>1, <2>2
<1>13. ASSUME NEW j \in 1 .. c + left
       PROVE  B[j] = delivered[N - (c + left) + j]
  <2>1. N - (c + left) + j = (fed - c) + t + j
    BY <1>0, <1>2, <1>5
  <2>2. CASE j <= c
    <3>1. j \in 1 .. c /\ c > 0
      BY <1>2, <2>2
    <3>2. t = 0
      BY <1>2, <1>3, <1>5, <3>1, Sizes
    <3>3. B[j] = delivered[fed - c + j]
      BY <1>9, <1>11, <3>1
    <3>4. (fed - c) + t + j = fed - c + j
      BY <1>2, <3>2
    <3>5. QED
      BY <2>1, <3>3, <3>4
  <2>3. CASE j > c
    <3>1. j - c \in 1 .. left /\ c + (j - c) = j /\ t + (j - c) \in 1 .. k
      BY <1>0, <1>2, <1>5, <2>3
    <3>2. B[j] = rest[j - c]
      BY <1>11, <3>1
    <3>3. rest[j - c] = delivered[fed + (t + (j - c))]
      BY <1>0, <1>4, <1>7, <3>1
    <3>4. fed + (t + (j - c)) = (fed - c) + t + j
      BY <1>0, <1>2, <1>5
    <3>5. QED
      BY <2>1, <3>2, <3>3, <3>4
  <2>4. QED
    BY <1>0, <1>2, <2>2, <2>3
<1>14. \A j \in 1 .. Len(H) : H[j] = delivered[j]
  BY <1>10, <1>12
<1>15. \A j \in 1 .. Len(B) : B[j] = delivered[N - Len(B) + j]
  BY <1>11, <1>13
<1>16. Placed(H, B, N)
  BY <1>14, <1>15 DEF Placed
<1>17. QED
  BY <1>16 DEF H, B, N

\* Where the frames of a whole file are, for what is read of it.
LEMMA IntactFile ==
    ASSUME IInv, phase = "decrypting", delivered = wire
    PROVE  \/ pushed = 0 /\ Len(delivered) = HeaderSize
           \/ \E m \in Nat, r \in 1 .. C :
                /\ pushed = m * C + r
                /\ delivered = FileWire(m * C + r)
<1>1. pushed \in Nat /\ delivered = FileWire(pushed)
  BY Sizes DEF IInv, BuffersFit, FileIsWritten
<1>2. CASE pushed = 0
  BY <1>1, <1>2, EmptyWire, HeaderIs
<1>3. CASE pushed # 0
  <2>1. PICK m \in Nat, r \in 1 .. C : pushed = m * C + r
    BY <1>1, <1>3, Decomposed
  <2>2. QED
    BY <1>1, <2>1
<1>4. QED
  BY <1>2, <1>3

LEMMA HeaderIsRead ==
    ASSUME NEW h \in Seq(AnyByte), Len(h) = HeaderSize,
           \A j \in 1 .. HeaderSize : h[j] = HeaderBytes[j]
    PROVE  h = HeaderBytes
  BY HeaderIs, SeqEqual

\* A push of a whole file does not fail.
LEMMA IntactPush ==
    ASSUME IInv, Positions, phase = "decrypting", delivered = wire,
           NEW k \in Nat, fed + k <= Len(delivered)
    PROVE  ~Refuses(HeaderAfter(k), Pieces(k))
<1> DEFINE hdr == HeaderAfter(k)
           buf == BufferAfter(k)
           length == Len(buf)
           n == FramesDrained(length)
           o == opened * FrameSize
<1> SUFFICES ASSUME NEW i \in 1 .. n
             PROVE  Opens(hdr, opened + i, Pieces(k)[i]) /\ ~FrameOf(Pieces(k)[i]).final
  BY PiecesAre DEF Refuses
<1>1. /\ hdr \in Seq(AnyByte) /\ Len(hdr) \in 0 .. HeaderSize
      /\ buf \in Seq(GoodBytes(pushed)) /\ length \in Nat
      /\ fed + k = Len(hdr) + o + length
      /\ Len(hdr) < HeaderSize => length = 0
  BY PushTakes
<1>2. Placed(hdr, buf, fed + k)
  BY PushPlaces
<1>3. /\ n \in Nat /\ n * FrameSize \in Nat
      /\ length > 0 => length - n * FrameSize >= 1
  BY <1>1, PushLeaves
<1>4. length > 0 /\ i \in Nat \ {0} /\ i * FrameSize <= length
  <2>1. i \in Nat \ {0} /\ i * FrameSize <= length
    BY <1>1, WithinDrained
  <2>2. length # 0
    BY DEF FramesDrained
  <2>3. QED
    BY <1>1, <2>1, <2>2
<1>5. Len(hdr) = HeaderSize
  BY <1>1, <1>4, Sizes
<1>6. opened \in Nat /\ o \in Nat
  <2>1. opened \in 0 .. sealed /\ sealed \in 0 .. MaxFile
    BY DEF IInv, BuffersFit
  <2>2. QED
    BY <2>1, Sizes
<1>7. Pieces(k)[i] = Piece(buf, FrameSize, i)
  BY PiecesAre
<1> DEFINE piece == Pieces(k)[i]
           p == (i - 1) * FrameSize
<1>8. /\ piece \in Seq(GoodBytes(pushed)) /\ Len(piece) = FrameSize
      /\ p \in Nat /\ p + FrameSize <= length
      /\ \A j \in 1 .. FrameSize : piece[j] = buf[p + j]
  BY <1>1, <1>4, <1>7, PieceIs
<1> HIDE DEF hdr, buf, length, n, piece
<1>9. fed + k = HeaderSize + o + length
  BY <1>1, <1>5
<1>10. PICK m \in Nat, r \in 1 .. C : delivered = FileWire(m * C + r)
  <2>1. Len(delivered) # HeaderSize
    <3>1. Len(delivered) \in Nat
      <4>1. delivered \in Seq(GoodBytes(pushed))
        BY DEF IInv, DecryptorFits
      <4>2. QED
        BY <4>1, LenProperties
    <3>2. HeaderSize + o + length <= Len(delivered)
      BY <1>9
    <3> HIDE DEF o
    <3>3. QED
      BY <1>1, <1>4, <1>6, <3>1, <3>2, Sizes
  <2>2. QED
    BY <2>1, IntactFile
<1> DEFINE w == FileWire(m * C + r)
<1>11. /\ Len(w) = HeaderSize + m * FrameSize + r + ABytes
       /\ \A j \in 1 .. HeaderSize : w[j] = HeaderBytes[j]
       /\ \A l \in 1 .. m, j \in 1 .. FrameSize :
             w[HeaderSize + ((l - 1) * FrameSize + j)] = BytesOf(FullFrame(l))[j]
  BY WireIs
<1> HIDE DEF w
<1>12. delivered = w
  BY <1>10 DEF w
<1>13. opened + n <= m
  <2> DEFINE x == (opened + n) * FrameSize
             y == m * FrameSize
             d == n * FrameSize
  <2>1. x = o + d /\ x \in Nat /\ y \in Nat /\ d \in Nat
    BY <1>3, <1>6, Distributes, Sizes
  <2>2. length - d >= 1
    BY <1>3, <1>4
  <2>3. HeaderSize + o + length <= HeaderSize + y + r + ABytes
    BY <1>9, <1>11, <1>12
  <2>4. m < opened + n => y + FrameSize <= x
    BY <1>3, <1>6, MoreIsLonger, Sizes
  <2> HIDE DEF x, y, d, o
  <2>5. r \in Nat /\ r <= C
    BY Sizes
  <2>6. ~(m < opened + n)
    BY <1>1, <1>6, <2>1, <2>2, <2>3, <2>4, <2>5, Sizes
  <2>7. QED
    BY <1>3, <1>6, <2>6
<1>14. opened + i \in 1 .. m /\ opened + i \in Nat \ {0}
  <2>1. i <= n
    BY <1>3, <1>4
  <2>2. QED
    BY <1>3, <1>4, <1>6, <1>13, <2>1
<1>15. hdr = HeaderBytes
  <2>1. \A j \in 1 .. HeaderSize : hdr[j] = delivered[j]
    BY <1>2, <1>5 DEF Placed
  <2>2. \A j \in 1 .. HeaderSize : hdr[j] = HeaderBytes[j]
    BY <1>11, <1>12, <2>1
  <2>3. QED
    BY <1>1, <1>5, <2>2, HeaderIsRead
<1>16. ASSUME NEW j \in 1 .. FrameSize
       PROVE  piece[j] = BytesOf(FullFrame(opened + i))[j]
  <2>1. /\ ((opened + i) - 1) * FrameSize = o + p /\ j \in Nat
    <3>1. (opened + i) - 1 = opened + (i - 1) /\ i - 1 \in Nat
      BY <1>4, <1>6
    <3>2. (opened + (i - 1)) * FrameSize = o + p
      BY <1>6, <3>1, Distributes, Sizes
    <3>3. QED
      BY <3>1, <3>2
  <2> DEFINE x == p + j
             N == fed + k
  <2>2. piece[j] = buf[x] /\ x \in 1 .. length
    <3>1. piece[j] = buf[x]
      BY <1>8
    <3>2. p \in Nat /\ p + FrameSize <= length
      BY <1>8
    <3> HIDE DEF p
    <3>3. QED
      BY <1>1, <3>1, <3>2, Sizes
  <2>3. buf[x] = delivered[N - length + x]
    <3>1. \A y \in 1 .. length : buf[y] = delivered[N - length + y]
      BY <1>2 DEF Placed, length
    <3> HIDE DEF x, N
    <3>2. QED
      BY <2>2, <3>1
  <2>4. N - length + x = HeaderSize + ((o + p) + j)
    <3>1. o \in Nat /\ p \in Nat /\ x = p + j /\ N = HeaderSize + o + length
      BY <1>6, <1>8, <1>9
    <3> HIDE DEF o, p, x, N
    <3>2. QED
      BY <1>1, <3>1, Sizes
  <2>5. w[HeaderSize + (((opened + i) - 1) * FrameSize + j)]
            = BytesOf(FullFrame(opened + i))[j]
    BY <1>11, <1>14
  <2>6. QED
    BY <1>12, <2>1, <2>2, <2>3, <2>4, <2>5
<1>17. /\ BytesOf(FullFrame(opened + i)) \in Seq(AnyByte)
       /\ Len(BytesOf(FullFrame(opened + i))) = FrameSize
       /\ FullFrame(opened + i) \in AnyFrame
       /\ FullFrame(opened + i).place = opened + i /\ ~FullFrame(opened + i).final
  BY <1>14, FullFrameIs
<1>18. piece = BytesOf(FullFrame(opened + i))
  <2>1. piece \in Seq(AnyByte)
    <3>1. GoodBytes(pushed) \subseteq AnyByte
      BY DEF GoodBytes
    <3>2. QED
      BY <1>8, <3>1
  <2> DEFINE e == BytesOf(FullFrame(opened + i))
  <2>2. e \in Seq(AnyByte) /\ Len(e) = FrameSize /\ \A j \in 1 .. FrameSize : piece[j] = e[j]
    BY <1>16, <1>17
  <2> HIDE DEF e
  <2>3. piece = e
    BY <1>8, <2>1, <2>2, SeqEqual
  <2>4. QED
    BY <2>3 DEF e
<1>19. piece[1].of = FullFrame(opened + i)
  BY <1>17, <1>18, BytesOfIs
<1>20. QED
  BY <1>15, <1>17, <1>18, <1>19 DEF Opens, FrameOf, piece

\* Neither does finish.
LEMMA IntactFinish ==
    ASSUME IInv, Positions, DecryptorFinish, delivered = wire
    PROVE  phase' # "refused"
<1> DEFINE o == opened * FrameSize
           c == Len(decBuf)
<1>1. phase = "decrypting" /\ fed = Len(delivered)
  BY DEF DecryptorFinish
<1>2. /\ delivered \in Seq(GoodBytes(pushed)) /\ decBuf \in Seq(GoodBytes(pushed))
      /\ header \in Seq(AnyByte)
      /\ sawChunk <=> opened > 0
      /\ fed = Len(header) + o + c
      /\ Len(header) < HeaderSize => c = 0 /\ opened = 0
      /\ opened > 0 => c > 0
  BY <1>1 DEF IInv, DecryptorFits
<1>3. /\ c \in 0 .. FrameSize /\ Len(header) \in 0 .. HeaderSize /\ opened \in Nat
      /\ o \in Nat
  <2>1. /\ c \in 0 .. FrameSize /\ Len(header) \in 0 .. HeaderSize
        /\ opened \in 0 .. sealed /\ sealed \in 0 .. MaxFile
    BY DEF IInv, BuffersFit
  <2>2. QED
    BY <2>1, Sizes
<1>4. Placed(header, decBuf, fed)
  BY <1>1 DEF Positions
<1>5. Len(delivered) >= HeaderSize
  <2>1. CASE Len(delivered) = HeaderSize
    BY <2>1, Sizes
  <2>2. CASE Len(delivered) # HeaderSize
    <3>1. PICK m \in Nat, r \in 1 .. C : delivered = FileWire(m * C + r)
      BY <1>1, <2>2, IntactFile
    <3>2. Len(delivered) = HeaderSize + m * FrameSize + r + ABytes
      BY <3>1, WireIs
    <3>3. m * FrameSize \in Nat /\ r \in Nat
      BY Sizes
    <3> DEFINE d == m * FrameSize
    <3> HIDE DEF d
    <3>4. d \in Nat /\ r \in Nat /\ Len(delivered) = HeaderSize + d + r + ABytes
      BY <3>2, <3>3 DEF d
    <3>5. QED
      BY <3>4, Sizes
  <2>3. QED
    BY <2>1, <2>2
<1>6. Len(header) = HeaderSize
  <2>1. opened = 0 => o = 0
    BY Sizes
  <2> HIDE DEF o, c
  <2>2. QED
    BY <1>1, <1>2, <1>3, <1>5, <2>1, Sizes
<1>7. CASE decBuf = <<>>
  <2>1. c = 0
    BY <1>7
  <2>2. ~sawChunk
    BY <1>2, <1>3, <2>1
  <2>3. QED
    BY <1>6, <1>7, <2>2, Sizes DEF DecryptorFinish
<1>8. CASE decBuf # <<>>
  <2>1. c \in 1 .. FrameSize
    BY <1>2, <1>3, <1>8, EmptySeq
  <2>2. Len(delivered) # HeaderSize
    <3> HIDE DEF o, c
    <3>1. QED
      BY <1>1, <1>2, <1>3, <1>6, <2>1, Sizes
  <2>3. PICK m \in Nat, r \in 1 .. C : delivered = FileWire(m * C + r)
    BY <1>1, <2>2, IntactFile
  <2> DEFINE w == FileWire(m * C + r)
             d == m * FrameSize
             e == BytesOf(LastFrame(m, r))
  <2>4. /\ Len(w) = HeaderSize + d + r + ABytes
        /\ \A j \in 1 .. HeaderSize : w[j] = HeaderBytes[j]
        /\ \A j \in 1 .. r + ABytes : w[HeaderSize + (d + j)] = e[j]
    BY WireIs
  <2>5. /\ LastFrame(m, r) \in AnyFrame /\ LastFrame(m, r).place = m + 1
        /\ LastFrame(m, r).final
        /\ e \in Seq(AnyByte) /\ Len(e) = r + ABytes
    BY LastFrameIs
  <2> HIDE DEF w, e
  <2>6. delivered = w
    BY <2>3 DEF w
  <2>7. o + c = d + (r + ABytes)
    <3>1. d \in Nat /\ r \in Nat /\ o \in Nat /\ c \in Nat
      BY <1>3, <2>1, Sizes
    <3>2. Len(delivered) = HeaderSize + d + r + ABytes
      BY <2>4, <2>6
    <3>3. Len(delivered) = HeaderSize + o + c
      BY <1>1, <1>2, <1>6
    <3> HIDE DEF o, c, d
    <3>4. QED
      BY <3>1, <3>2, <3>3, Sizes
  <2>8. opened = m /\ c = r + ABytes
    <3>1. r + ABytes \in 1 .. FrameSize /\ FrameSize \in Nat /\ FrameSize >= 1
      BY Sizes
    <3>2. QED
      BY <1>3, <2>1, <2>7, <3>1, SameQuotient
  <2>9. header = HeaderBytes
    <3>1. \A j \in 1 .. HeaderSize : header[j] = HeaderBytes[j]
      BY <1>4, <1>6, <2>4, <2>6 DEF Placed
    <3>2. QED
      BY <1>2, <1>6, <3>1, HeaderIsRead
  <2>10. decBuf = e
    <3>1. d \in Nat /\ r \in Nat /\ o = d
      BY <2>8, Sizes
    <3>2. \A j \in 1 .. c : decBuf[j] = delivered[fed - c + j]
      BY <1>4 DEF Placed
    <3>3. fed - c = HeaderSize + d
      <4> HIDE DEF o, c, d
      <4>1. QED
        BY <1>2, <1>3, <1>6, <2>1, <3>1, Sizes
    <3>4. ASSUME NEW j \in 1 .. r + ABytes PROVE decBuf[j] = e[j]
      <4>1. decBuf[j] = delivered[fed - c + j]
        BY <2>8, <3>2
      <4>2. fed - c + j = HeaderSize + (d + j)
        <5> HIDE DEF c, d
        <5>1. QED
          BY <3>1, <3>3, Sizes
      <4>3. QED
        BY <2>4, <2>6, <4>1, <4>2
    <3>5. decBuf \in Seq(AnyByte) /\ Len(decBuf) = r + ABytes
      <4>1. GoodBytes(pushed) \subseteq AnyByte
        BY DEF GoodBytes
      <4>2. QED
        BY <1>2, <2>8, <4>1
    <3>6. QED
      BY <2>5, <3>4, <3>5, SeqEqual
  <2>11. decBuf[1].of = LastFrame(m, r)
    BY <2>5, <2>10, BytesOfIs DEF e
  <2>12. Opens(header, opened + 1, decBuf) /\ CompleteWith(FrameOf(decBuf))
    BY <2>5, <2>8, <2>9, <2>10, <2>11 DEF Opens, FrameOf, CompleteWith, e
  <2>13. QED
    BY <1>6, <1>8, <2>12, Sizes DEF DecryptorFinish
<1>9. QED
  BY <1>7, <1>8

IntactInv == Positions /\ AcceptsIntact

LEMMA IntactInitially == Init => IntactInv
  BY DEF Init, IntactInv, Positions, AcceptsIntact

LEMMA IntactSteps ==
    IInv /\ IInv' /\ IntactInv /\ [Next]_vars => IntactInv'
<1> SUFFICES ASSUME IInv, IInv', IntactInv, [Next]_vars PROVE IntactInv'
  OBVIOUS
<1>1. CASE \E k \in 0 .. MaxFile : EncryptorPush(k)
  <2>1. phase' = "encrypting"
    BY <1>1 DEF EncryptorPush
  <2>2. QED
    BY <2>1 DEF IntactInv, Positions, AcceptsIntact
<1>2. CASE EncryptorFinish
  <2>1. phase' = "stored"
    BY <1>2 DEF EncryptorFinish
  <2>2. QED
    BY <2>1 DEF IntactInv, Positions, AcceptsIntact
<1>3. CASE Deliver
  <2>1. /\ phase = "stored" /\ phase' = "decrypting"
        /\ header' = header /\ decBuf' = decBuf
    BY <1>3 DEF Deliver, decVars
  <2>2. header' = <<>> /\ decBuf' = <<>>
    BY <2>1 DEF IInv, NotYetRead
  <2>3. Positions'
    BY <2>2 DEF Positions, Placed
  <2>4. QED
    BY <2>1, <2>3 DEF IntactInv, AcceptsIntact
<1>4. CASE \E k \in 0 .. Len(delivered) - fed : DecryptorPush(k)
  <2>1. PICK k \in 0 .. Len(delivered) - fed : DecryptorPush(k)
    BY <1>4
  <2>2. /\ phase = "decrypting" /\ fed + k <= Len(delivered) /\ fed' = fed + k
        /\ header' = HeaderAfter(k) /\ wire' = wire /\ delivered' = delivered
    BY <2>1 DEF DecryptorPush, encVars, HeaderAfter, Bytes, Need
  <2>3. /\ Refuses(HeaderAfter(k), Pieces(k)) => phase' = "refused"
        /\ ~Refuses(HeaderAfter(k), Pieces(k)) =>
              /\ phase' = phase
              /\ decBuf' = After(BufferAfter(k),
                                 FramesDrained(Len(BufferAfter(k))) * FrameSize)
    BY <2>1 DEF DecryptorPush, HeaderAfter, BufferAfter, Pieces, Bytes, Need
  <2>4. k \in Nat
    OBVIOUS
  <2>5. AcceptsIntact'
    <3>1. CASE delivered = wire
      <4>1. ~Refuses(HeaderAfter(k), Pieces(k))
        BY <2>2, <2>4, <3>1, IntactPush DEF IntactInv
      <4>2. QED
        BY <2>2, <2>3, <4>1 DEF AcceptsIntact
    <3>2. CASE delivered # wire
      BY <2>2, <3>2 DEF AcceptsIntact
    <3>3. QED
      BY <3>1, <3>2
  <2>6. Positions'
    <3>1. CASE Refuses(HeaderAfter(k), Pieces(k))
      BY <2>3, <3>1 DEF Positions
    <3>2. CASE ~Refuses(HeaderAfter(k), Pieces(k))
      <4> DEFINE buf == BufferAfter(k)
                 length == Len(buf)
                 d == FramesDrained(length) * FrameSize
                 N == fed + k
      <4>1. Placed(HeaderAfter(k), buf, N)
        BY <2>2, <2>4, PushPlaces DEF IntactInv
      <4>2. buf \in Seq(GoodBytes(pushed)) /\ length \in Nat /\ N \in Nat
        <5>1. fed \in Nat
          BY DEF IInv, BuffersFit
        <5>2. QED
          BY <2>2, <2>4, <5>1, PushTakes
      <4>3. d \in Nat /\ d <= length
        BY <4>2, PushLeaves
      <4>4. decBuf' = SubSeq(buf, d + 1, length)
        BY <2>3, <3>2 DEF After
      <4>5. \A j \in 1 .. Len(HeaderAfter(k)) : HeaderAfter(k)[j] = delivered[j]
        BY <4>1 DEF Placed
      <4>6. \A j \in 1 .. length : buf[j] = delivered[N - length + j]
        BY <4>1 DEF Placed
      <4>7. fed' = N
        BY <2>2
      <4> HIDE DEF buf, d, N
      <4>8. /\ d + 1 \in Nat /\ 1 <= d + 1 /\ d + 1 <= length + 1 /\ length <= Len(buf)
            /\ length - (d + 1) + 1 = length - d /\ (d + 1) - 1 = d
        BY <4>2, <4>3
      <4>9. /\ Len(SubSeq(buf, d + 1, length)) = length - (d + 1) + 1
            /\ \A j \in 1 .. length - (d + 1) + 1 :
                  SubSeq(buf, d + 1, length)[j] = buf[(d + 1) - 1 + j]
        BY <4>2, <4>8, SubSeqIs
      <4> HIDE DEF length
      <4>10. Len(decBuf') = length - d /\ \A j \in 1 .. length - d : decBuf'[j] = buf[d + j]
        BY <4>4, <4>8, <4>9
      <4>11. ASSUME NEW j \in 1 .. length - d
             PROVE  decBuf'[j] = delivered[N - (length - d) + j]
        <5>1. d + j \in 1 .. length /\ N - length + (d + j) = N - (length - d) + j
          BY <4>2, <4>3
        <5>2. decBuf'[j] = buf[d + j]
          BY <4>10
        <5>3. buf[d + j] = delivered[N - length + (d + j)]
          BY <4>6, <5>1
        <5>4. QED
          BY <5>1, <5>2, <5>3
      <4>12. \A j \in 1 .. Len(header') : header'[j] = delivered'[j]
        BY <2>2, <4>5
      <4>13. \A j \in 1 .. Len(decBuf') : decBuf'[j] = delivered'[fed' - Len(decBuf') + j]
        BY <2>2, <4>7, <4>10, <4>11
      <4>14. QED
        BY <4>12, <4>13 DEF Positions, Placed
    <3>3. QED
      BY <3>1, <3>2
  <2>7. QED
    BY <2>5, <2>6 DEF IntactInv
<1>5. CASE DecryptorFinish
  <2>1. phase' \in {"accepted", "refused"} /\ wire' = wire /\ delivered' = delivered
    BY <1>5 DEF DecryptorFinish, encVars
  <2>2. delivered = wire => phase' # "refused"
    BY <1>5, IntactFinish DEF IntactInv
  <2>3. QED
    BY <2>1, <2>2 DEF IntactInv, Positions, AcceptsIntact
<1>6. CASE UNCHANGED vars
  BY <1>6 DEF vars, encVars, decVars, IntactInv, Positions, Placed, AcceptsIntact
<1>7. QED
  BY <1>1, <1>2, <1>3, <1>4, <1>5, <1>6 DEF Next

\* A file that nothing happened to is never refused, whatever the pushes it is
\* written in and read in.
THEOREM IntactFilesAreAccepted == Spec => []AcceptsIntact
<1>1. IntactInv => AcceptsIntact
  BY DEF IntactInv
<1>2. QED
  BY <1>1, Inductive, IntactInitially, IntactSteps, PTL DEF Spec
=============================================================================
