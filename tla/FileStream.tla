------------------------------ MODULE FileStream ------------------------------
(***************************************************************************)
(* Files as streams: FileEncryptor cuts a plaintext into frames, whatever  *)
(* the pushes it arrives in; something may happen to the bytes; and        *)
(* FileDecryptor opens the frames again, from pushes of any other sizes,   *)
(* and tells at finish whether the file was complete.                      *)
(*                                                                         *)
(* Each push and each finish is one action; the loop of a push is written  *)
(* as the number of frames it drains.  encrypt_file, decrypt_file and      *)
(* decrypt_media push pieces of one chunk or frame, and are among the      *)
(* behaviours.  A caller stops at the first error.  The secret stream is   *)
(* ideal: a frame opens exactly if all its bytes are those made under the  *)
(* same header for the same place in the stream.                           *)
(***************************************************************************)
EXTENDS Integers, SequencesExt

CONSTANTS
    ChunkSize,    \* DECRYPTED_CHUNK_SIZE
    ABytes,       \* SECRETSTREAM_ABYTES
    HeaderSize,   \* SECRETSTREAM_HEADER_SIZE
    MaxFile,      \* bound on the plaintext
    MaxTrail      \* bound on the bytes appended to a file

ASSUME SizesAssumption ==
    /\ ChunkSize \in Nat \ {0} /\ ABytes \in Nat \ {0} /\ HeaderSize \in Nat \ {0}
    /\ MaxFile \in Nat /\ MaxTrail \in Nat

VARIABLES
    phase,       \* "encrypting", "stored", "decrypting", "accepted", "refused"
    pushed,      \* length of the plaintext pushed: byte i of it is the number i
    started,     \* FileEncryptor: non-empty plaintext was pushed
    encBuf,      \* its buf
    sealed,      \* its PushStream: frames sealed so far
    wire,        \* the file it has written
    delivered,   \* the file as it reaches the decryptor
    fed,         \* how much of it was pushed
    header,      \* FileDecryptor: its header
    decBuf,      \* its buf
    opened,      \* its PullStream: frames opened so far
    sawChunk,    \* its saw_chunk
    out          \* the plaintext it returned

encVars == <<pushed, started, encBuf, sealed, wire>>
decVars == <<fed, header, decBuf, opened, sawChunk, out>>
vars == <<phase, encVars, delivered, decVars>>

FrameSize == ChunkSize + ABytes

\* A byte of a frame knows the frame; the header counts as frame 0.
Frame(place, data, final) == [place |-> place, data |-> data, final |-> final]

ByteOf(frame, i) == [of |-> frame, at |-> i]

BytesOf(frame) == [i \in 1 .. Len(frame.data) + ABytes |-> ByteOf(frame, i)]

HeaderBytes == [i \in 1 .. HeaderSize |-> ByteOf(Frame(0, <<>>, FALSE), i)]

\* A byte that belongs to no file.
Garbage == ByteOf(Frame(-1, <<>>, FALSE), 0)

\* The i-th piece of s of the given size.
Piece(s, size, i) == SubSeq(s, (i - 1) * size + 1, i * size)

After(s, n) == SubSeq(s, n + 1, Len(s))

Plain(n) == [i \in 1 .. n |-> i]

Init ==
    /\ phase = "encrypting"
    /\ pushed = 0
    /\ started = FALSE
    /\ encBuf = <<>>
    /\ sealed = 0
    /\ wire = <<>>
    /\ delivered = <<>>
    /\ fed = 0
    /\ header = <<>>
    /\ decBuf = <<>>
    /\ opened = 0
    /\ sawChunk = FALSE
    /\ out = <<>>

-----------------------------------------------------------------------------
(***************************************************************************)
(* FileEncryptor.                                                          *)
(***************************************************************************)

\* Variants: one that keeps no full chunk back, and one that drains one only.
DrainsFull(length) == length \div ChunkSize
DrainsOne(length) == IF length > ChunkSize THEN 1 ELSE 0

\* How many chunks a push seals: while more than one is buffered.
ChunksDrained(length) == IF length = 0 THEN 0 ELSE (length - 1) \div ChunkSize

\* The header, which goes ahead of the first bytes returned.
Prefix == IF wire = <<>> THEN HeaderBytes ELSE <<>>

EncryptorPush(k) ==
    LET buf == encBuf \o [i \in 1 .. k |-> pushed + i]
        n == ChunksDrained(Len(buf))
        Sealed(i) == Frame(sealed + i, Piece(buf, ChunkSize, i), FALSE)
    IN
    /\ phase = "encrypting"
    /\ pushed + k <= MaxFile
    /\ pushed' = pushed + k
    /\ started' = (started \/ k > 0)
    /\ encBuf' = After(buf, n * ChunkSize)
    /\ sealed' = sealed + n
    /\ wire' = wire \o Prefix \o FlattenSeq([i \in 1 .. n |-> BytesOf(Sealed(i))])
    /\ UNCHANGED <<phase, delivered, decVars>>

EncryptorFinish ==
    /\ phase = "encrypting"
    /\ phase' = "stored"
    /\ encBuf' = <<>>
    /\ IF started
       THEN /\ sealed' = sealed + 1
            /\ wire' = wire \o Prefix \o BytesOf(Frame(sealed + 1, encBuf, TRUE))
       ELSE /\ wire' = wire \o Prefix
            /\ UNCHANGED sealed
    /\ UNCHANGED <<pushed, started, delivered, decVars>>

\* encrypted_file_size, below the width of its integers.
EncryptedFileSize(n) ==
    n + HeaderSize + ((n + ChunkSize - 1) \div ChunkSize) * ABytes

-----------------------------------------------------------------------------
(***************************************************************************)
(* What may become of a stored file: nothing; one range of it lost,        *)
(* repeated or exchanged with the next; one byte damaged; bytes appended.  *)
(***************************************************************************)
Whole == {wire}

Lost ==
    {SubSeq(wire, 1, i) \o After(wire, j) : i, j \in 0 .. Len(wire)}

Exchanged ==
    {SubSeq(wire, 1, i) \o SubSeq(wire, j + 1, k) \o SubSeq(wire, i + 1, j)
        \o After(wire, k) : i, j, k \in 0 .. Len(wire)}

Damaged == {[wire EXCEPT ![i] = Garbage] : i \in 1 .. Len(wire)}

Extended == {wire \o [i \in 1 .. n |-> Garbage] : n \in 1 .. MaxTrail}

Deliver ==
    /\ phase = "stored"
    /\ phase' = "decrypting"
    /\ delivered' \in Whole \cup Lost \cup Exchanged \cup Damaged \cup Extended
    /\ UNCHANGED <<encVars, decVars>>

-----------------------------------------------------------------------------
(***************************************************************************)
(* FileDecryptor.                                                          *)
(***************************************************************************)

\* pull: whether bytes are the frame at a place of the stream of a header.
Opens(hdr, place, bytes) ==
    /\ hdr = HeaderBytes
    /\ bytes[1].of.place = place
    /\ bytes = BytesOf(bytes[1].of)

FrameOf(bytes) == bytes[1].of

\* A variant that holds no full frame back for finish.
FramesEagerly(length) == length \div FrameSize

\* How many frames a push opens: while more than one is buffered, since only
\* a frame that more data follows is known not to be the final one.
FramesDrained(length) == IF length = 0 THEN 0 ELSE (length - 1) \div FrameSize

\* A variant that looks at the first frame a push drains only.
RefusesFirst(hdr, pieces) ==
    /\ pieces # <<>>
    /\ ~Opens(hdr, opened + 1, pieces[1]) \/ FrameOf(pieces[1]).final

\* A push fails at a frame that does not open, and at a final one, which has
\* data after it.
Refuses(hdr, pieces) ==
    \E i \in DOMAIN pieces :
        ~Opens(hdr, opened + i, pieces[i]) \/ FrameOf(pieces[i]).final

DecryptorPush(k) ==
    LET bytes == SubSeq(delivered, fed + 1, fed + k)
        need == HeaderSize - Len(header)
        hdr == header \o SubSeq(bytes, 1, IF need < k THEN need ELSE k)
        buf == decBuf \o After(bytes, need)
        n == FramesDrained(Len(buf))
        piece == [i \in 1 .. n |-> Piece(buf, FrameSize, i)]
    IN
    /\ phase = "decrypting"
    /\ fed + k <= Len(delivered)
    /\ fed' = fed + k
    /\ header' = hdr
    /\ IF Refuses(hdr, piece)
       THEN /\ phase' = "refused"
            /\ UNCHANGED <<decBuf, opened, sawChunk, out>>
       ELSE /\ decBuf' = After(buf, n * FrameSize)
            /\ opened' = opened + n
            /\ sawChunk' = (sawChunk \/ n > 0)
            /\ out' = out \o FlattenSeq([i \in 1 .. n |-> FrameOf(piece[i]).data])
            /\ UNCHANGED phase
    /\ UNCHANGED <<encVars, delivered>>

\* A variant that takes any last frame for the final one.
CompleteWithAny(frame) == TRUE

CompleteWith(frame) == frame.final

\* finish, at the end of the input: a header that is not complete, a last
\* frame that does not open and one that is not final are refused; a header
\* alone is an empty file.
DecryptorFinish ==
    /\ phase = "decrypting"
    /\ fed = Len(delivered)
    /\ \/ /\ Len(header) = HeaderSize
          /\ decBuf # <<>>
          /\ Opens(header, opened + 1, decBuf)
          /\ CompleteWith(FrameOf(decBuf))
          /\ phase' = "accepted"
          /\ out' = out \o FrameOf(decBuf).data
       \/ /\ Len(header) = HeaderSize
          /\ decBuf = <<>>
          /\ phase' = IF sawChunk THEN "refused" ELSE "accepted"
          /\ UNCHANGED out
       \/ /\ \/ Len(header) < HeaderSize
             \/ /\ decBuf # <<>>
                /\ ~(Opens(header, opened + 1, decBuf) /\ CompleteWith(FrameOf(decBuf)))
          /\ phase' = "refused"
          /\ UNCHANGED out
    /\ UNCHANGED <<encVars, delivered, fed, header, decBuf, opened, sawChunk>>

Next ==
    \/ \E k \in 0 .. MaxFile : EncryptorPush(k)
    \/ EncryptorFinish
    \/ Deliver
    \/ \E k \in 0 .. Len(delivered) - fed : DecryptorPush(k)
    \/ DecryptorFinish

Spec == Init /\ [][Next]_vars

-----------------------------------------------------------------------------
(***************************************************************************)
(* Properties.                                                             *)
(***************************************************************************)
Upto(S, n) == UNION {[1 .. m -> S] : m \in 0 .. n}

\* The type of the state; with it, neither side ever buffers more than one
\* chunk or frame between pushes.
BuffersFit ==
    /\ phase \in {"encrypting", "stored", "decrypting", "accepted", "refused"}
    /\ pushed \in 0 .. MaxFile
    /\ started \in BOOLEAN
    /\ encBuf \in Upto(1 .. MaxFile, ChunkSize)
    /\ sealed \in 0 .. MaxFile
    /\ fed \in 0 .. Len(delivered)
    /\ Len(header) \in 0 .. HeaderSize
    /\ Len(decBuf) \in 0 .. FrameSize
    /\ opened \in 0 .. sealed
    /\ sawChunk \in BOOLEAN
    /\ out \in Upto(1 .. MaxFile, MaxFile)

\* The frames of a file of n bytes.
Frames(n) ==
    LET last == (n + ChunkSize - 1) \div ChunkSize
    IN  [i \in 1 .. last |->
            Frame(i, [j \in 1 .. IF i < last THEN ChunkSize
                                 ELSE n - (last - 1) * ChunkSize
                        |-> (i - 1) * ChunkSize + j], i = last)]

\* A file is framed the same however its plaintext was split: whole chunks, the
\* last of them final and never empty; and encrypted_file_size tells its size
\* before it is encrypted.
FramingIsFixed ==
    phase = "stored" =>
        /\ wire = HeaderBytes
                  \o FlattenSeq([i \in 1 .. Len(Frames(pushed)) |->
                                    BytesOf(Frames(pushed)[i])])
        /\ Len(wire) = EncryptedFileSize(pushed)

\* What the decryptor has returned, even of a damaged file, is the beginning of
\* the plaintext: nothing is missing, repeated or out of order.
ReturnsABeginning == IsPrefix(out, Plain(pushed))

\* A file that finish accepts is complete, unless it was cut to its header,
\* which nothing authenticates and which reads as an empty file.
AcceptsOnlyWhole ==
    phase = "accepted" =>
        out = Plain(pushed) \/ (out = <<>> /\ Len(delivered) = HeaderSize)

\* A file nothing happened to is accepted, however it is split into pushes.
AcceptsIntact == delivered = wire => phase # "refused"
=============================================================================
