------------------------------ MODULE DcfProofs ------------------------------
(***************************************************************************)
(* Proofs about DCF framing, for all widths of the header's fields, packet *)
(* sizes and frame lengths: what is on the wire (WireInv), that the        *)
(* numbering shows losses (SequenceTells) and that a receiver can put      *)
(* frames together again (Reassembles).                                    *)
(***************************************************************************)
EXTENDS Dcf, TLAPS, FiniteSetTheorems

-----------------------------------------------------------------------------
(* Arithmetic                                                              *)

\* Quotient and remainder are the only numbers of their kind.
LEMMA DivisionUnique ==
  ASSUME NEW c \in Nat \ {0}, NEW q \in Int, NEW r \in 0 .. c - 1
  PROVE (c * q + r) % c = r /\ (c * q + r) \div c = q
<1> DEFINE n == c * q + r
           s == n \div c
           t == n % c
<1>1. n = c * s + t /\ t \in 0 .. c - 1 /\ s \in Int
  OBVIOUS
<1>2. n = c * q + r
  OBVIOUS
<1> HIDE DEF n, s, t
<1>3. t - r = c * (q - s)
  BY <1>1, <1>2
<1>4. CASE q - s >= 1
  <2>1. c * (q - s) >= c
    BY <1>1, <1>4
  <2>2. QED
    BY <1>1, <1>3, <2>1
<1>5. CASE q - s <= -1
  <2>1. c * (q - s) <= -c
    BY <1>1, <1>5
  <2>2. QED
    BY <1>1, <1>3, <2>1
<1>6. CASE q = s
  <2>1. t = r
    BY <1>1, <1>2, <1>6
  <2>2. QED
    BY <1>6, <2>1 DEF n, s, t
<1>7. q - s >= 1 \/ q - s <= -1 \/ q = s
  BY <1>1
<1>8. QED
  BY <1>4, <1>5, <1>6, <1>7

\* Adding a multiple of the width does not change the remainder.
LEMMA WholeTurns ==
  ASSUME NEW w \in Nat \ {0}, NEW n \in Int, NEW k \in Int
  PROVE (w * k + n) % w = n % w
<1> DEFINE q == n \div w
           r == n % w
<1>1. n = w * q + r /\ r \in 0 .. w - 1 /\ q \in Int
  OBVIOUS
<1> HIDE DEF q, r
<1>2. w * k + n = w * (k + q) + r /\ k + q \in Int
  BY <1>1
<1>3. (w * (k + q) + r) % w = r
  BY <1>1, <1>2, DivisionUnique, Zenon
<1>4. QED
  BY <1>2, <1>3 DEF r

\* A counter kept modulo its width is the remainder of what it counts.
LEMMA CountModulo ==
  ASSUME NEW w \in Nat \ {0}, NEW x \in Nat, NEW k \in Nat
  PROVE ((x % w) + k) % w = (x + k) % w
<1> DEFINE q == x \div w
           r == x % w
<1>1. x = w * q + r /\ r \in 0 .. w - 1 /\ q \in Int
  OBVIOUS
<1> HIDE DEF q, r
<1>2. x + k = w * q + (r + k) /\ r + k \in Int
  BY <1>1
<1>3. (w * q + (r + k)) % w = (r + k) % w
  BY <1>1, <1>2, WholeTurns, Zenon
<1>4. QED
  BY <1>2, <1>3 DEF r

\* The distance of two counters kept modulo their width.
LEMMA DistanceModulo ==
  ASSUME NEW w \in Nat \ {0}, NEW x \in Nat, NEW y \in Nat
  PROVE ((y % w) - (x % w)) % w = (y - x) % w
<1> DEFINE a == x \div w
           r == x % w
           b == y \div w
           s == y % w
<1>1. x = w * a + r /\ r \in 0 .. w - 1 /\ a \in Int
  OBVIOUS
<1>2. y = w * b + s /\ s \in 0 .. w - 1 /\ b \in Int
  OBVIOUS
<1> HIDE DEF a, r, b, s
<1>3. y - x = w * (b - a) + (s - r) /\ b - a \in Int /\ s - r \in Int
  BY <1>1, <1>2
<1>4. (w * (b - a) + (s - r)) % w = (s - r) % w
  BY <1>3, WholeTurns, Zenon
<1>5. QED
  BY <1>3, <1>4 DEF r, s

\* Two numbers less than a width apart differ modulo that width.
LEMMA CloseModulo ==
  ASSUME NEW w \in Nat \ {0}, NEW x \in Int, NEW y \in Int,
         x <= y, y < x + w, x % w = y % w
  PROVE x = y
<1> DEFINE a == x \div w
           r == x % w
           b == y \div w
<1>1. x = w * a + r /\ r \in 0 .. w - 1 /\ a \in Int
  OBVIOUS
<1>2. y = w * b + r /\ b \in Int
  OBVIOUS
<1> HIDE DEF a, r, b
<1>3. y - x = w * (b - a)
  BY <1>1, <1>2
<1>4. CASE b - a >= 1
  <2>1. w * (b - a) >= w
    BY <1>1, <1>2, <1>4
  <2>2. QED
    BY <1>3, <2>1
<1>5. CASE b - a <= -1
  <2>1. w * (b - a) <= -w
    BY <1>1, <1>2, <1>5
  <2>2. QED
    BY <1>3, <2>1
<1>6. CASE b = a
  BY <1>1, <1>2, <1>6
<1>7. QED
  BY <1>1, <1>2, <1>4, <1>5, <1>6

-----------------------------------------------------------------------------
(* Fragmentation                                                           *)

\* A frame has as many chunks as its bytes need, and not more than the
\* header can count.
LEMMA ChunksEnough ==
  ASSUME NEW len \in Lengths
  PROVE /\ Chunks(len) \in 1 .. Byte - 1
        /\ len <= Chunks(len) * Usable
        /\ Chunks(len) > 1 => (Chunks(len) - 1) * Usable < len
<1> DEFINE u == Usable
           n == (len + u) - 1
           q == n \div u
           r == n % u
<1>1. u \in Nat \ {0} /\ len \in Nat /\ Byte \in Nat \ {0, 1} /\ len <= u * (Byte - 1)
  BY FieldAssumption DEF Usable
<1>2. CASE len <= u
  <2>1. Chunks(len) = 1
    BY <1>2 DEF Chunks
  <2>2. QED
    BY <1>1, <1>2, <2>1
<1>3. CASE ~(len <= u)
  <2>1. n = u * q + r /\ r \in 0 .. u - 1 /\ q \in Int
    BY <1>1
  <2>2. Chunks(len) = q
    BY <1>3 DEF Chunks
  <2>3. n = (len + u) - 1
    OBVIOUS
  <2> HIDE DEF u, n, q, r
  <2>4. u * q >= len /\ u * q <= (len + u) - 1
    BY <1>1, <2>1, <2>3
  <2>5. q >= 1
    <3>1. CASE q <= 0
      <4>1. u * q <= 0
        BY <1>1, <2>1, <3>1
      <4>2. QED
        BY <1>1, <1>3, <2>1, <2>4, <4>1
    <3>2. QED
      BY <2>1, <3>1
  <2>6. q <= Byte - 1
    <3>1. CASE q >= Byte
      <4>1. u * q >= u * Byte
        BY <1>1, <2>1, <3>1
      <4>2. u * (Byte - 1) = u * Byte - u /\ u * Byte \in Int
        BY <1>1
      <4>3. QED
        BY <1>1, <2>1, <2>4, <4>1, <4>2
    <3>2. QED
      BY <1>1, <2>1, <3>1
  <2>7. (q - 1) * u = u * q - u /\ q * u = u * q /\ u * q \in Int
    BY <1>1, <2>1
  <2>8. QED
    BY <1>1, <2>1, <2>2, <2>4, <2>5, <2>6, <2>7 DEF u
<1>4. QED
  BY <1>2, <1>3

\* Every chunk but an empty frame's only one starts inside the frame, so that
\* its index and its offset fit their fields.
LEMMA ChunkStarts ==
  ASSUME NEW len \in Lengths, NEW i \in 0 .. Chunks(len) - 1
  PROVE /\ i * Usable \in 0 .. len
        /\ i % Byte = i /\ Chunks(len) % Byte = Chunks(len)
        /\ (i * Usable) % Short = i * Usable
<1> DEFINE c == Chunks(len)
           u == Usable
<1>1. u \in Nat \ {0} /\ len \in Nat /\ len < Short
      /\ Byte \in Nat \ {0, 1} /\ Short \in Nat \ {0}
  BY FieldAssumption DEF Usable
<1>2. c \in 1 .. Byte - 1 /\ (c > 1 => (c - 1) * u < len)
  BY ChunksEnough
<1>3. i \in 0 .. c - 1
  OBVIOUS
<1> HIDE DEF c, u
<1>4. i * u \in 0 .. len
  <2>1. CASE c = 1
    BY <1>1, <1>3, <2>1
  <2>2. CASE c > 1
    <3>1. i * u <= (c - 1) * u /\ i * u >= 0
      BY <1>1, <1>2, <1>3
    <3>2. i * u \in Int /\ (c - 1) * u \in Int
      BY <1>1, <1>2, <1>3
    <3>3. QED
      BY <1>1, <1>2, <2>2, <3>1, <3>2
  <2>3. QED
    BY <1>2, <2>1, <2>2
<1>5. i % Byte = i /\ c % Byte = c
  BY <1>1, <1>2, <1>3
<1>6. (i * u) % Short = i * u
  <2> DEFINE m == i * u
  <2>1. m \in 0 .. len
    BY <1>4
  <2> HIDE DEF m
  <2>2. m % Short = m
    BY <1>1, <2>1
  <2>3. QED
    BY <2>2 DEF m
<1>7. QED
  BY <1>4, <1>5, <1>6 DEF c, u

\* A byte of a frame lies in the chunk that its position gives and in no
\* other.
LEMMA OneChunkEach ==
  ASSUME NEW len \in Lengths, NEW b \in 1 .. len
  PROVE \E i \in 0 .. Chunks(len) - 1 :
           /\ i * Usable + 1 <= b /\ b <= (i + 1) * Usable
           /\ \A j \in Nat : j * Usable + 1 <= b /\ b <= (j + 1) * Usable => j = i
<1> DEFINE c == Chunks(len)
           u == Usable
           i == (b - 1) \div u
           r == (b - 1) % u
<1>1. u \in Nat \ {0} /\ len \in Nat
  BY FieldAssumption DEF Usable
<1>2. c \in Nat /\ c >= 1 /\ len <= c * u
  <2>1. c \in 1 .. Byte - 1 /\ len <= c * u
    BY ChunksEnough
  <2>2. QED
    BY <2>1, FieldAssumption
<1>3. b - 1 = u * i + r /\ r \in 0 .. u - 1 /\ i \in Int
  BY <1>1
<1> HIDE DEF c, u, i, r
<1>4. i >= 0
  <2>1. CASE i <= -1
    <3>1. u * i <= -u
      BY <1>1, <1>3, <2>1
    <3>2. QED
      BY <1>1, <1>3, <3>1
  <2>2. QED
    BY <1>3, <2>1
<1>5. i <= c - 1
  <2>1. CASE i >= c
    <3>1. u * i >= c * u /\ u * i \in Int /\ c * u \in Int
      BY <1>1, <1>2, <1>3, <2>1
    <3>2. QED
      BY <1>1, <1>2, <1>3, <3>1
  <2>2. QED
    BY <1>2, <1>3, <2>1
<1>6. i * u + 1 <= b /\ b <= (i + 1) * u
  <2>1. i * u = u * i /\ (i + 1) * u = u * i + u /\ u * i \in Int
    BY <1>1, <1>3
  <2>2. QED
    BY <1>1, <1>3, <2>1
<1>7. ASSUME NEW j \in Nat, j * u + 1 <= b, b <= (j + 1) * u
      PROVE j = i
  <2>1. CASE j >= i + 1
    <3>1. j * u >= (i + 1) * u /\ j * u \in Int /\ (i + 1) * u \in Int
      BY <1>1, <1>3, <1>4, <2>1
    <3>2. QED
      BY <1>6, <1>7, <3>1
  <2>2. CASE j <= i - 1
    <3>1. (j + 1) * u <= i * u /\ (j + 1) * u \in Int /\ i * u \in Int
      BY <1>1, <1>3, <1>4, <2>2
    <3>2. QED
      BY <1>6, <1>7, <3>1
  <2>3. QED
    BY <1>3, <2>1, <2>2
<1>8. \A j \in Nat : j * u + 1 <= b /\ b <= (j + 1) * u => j = i
  BY <1>7
<1>9. i \in 0 .. c - 1
  BY <1>2, <1>3, <1>4, <1>5
<1>10. QED
  BY <1>6, <1>8, <1>9, Zenon DEF c, u

-----------------------------------------------------------------------------
(* What is on the wire                                                     *)

\* The packets that packetize makes of a frame, with the numbers it has
\* reached.
NewPieces(len) == {Fragment(len, i) : i \in 0 .. Chunks(len) - 1}

\* Each of them is the piece of the frame that its header says it is, fits
\* the payload, and carries the next number of the sequence.
LEMMA FragmentIsPiece ==
  ASSUME Numbered, NEW len \in Lengths, NEW i \in 0 .. Chunks(len) - 1,
         NEW p, p = Fragment(len, i)
  PROVE /\ p.type # "Control" /\ p.frame = frames + 1
        /\ p.length = len /\ p.index = i
        /\ Piece(p)
        /\ Payload(p) <= MaxPayload
        /\ p.ordinal \in Nat /\ p.seq = p.ordinal % Word
<1> DEFINE c == Chunks(len)
           m == i * Usable
           n == (i + 1) * Usable
<1>0. len \in Nat /\ MaxPayload \in Nat /\ FragmentHeader \in Nat
      /\ Word \in Nat \ {0} /\ Usable \in Nat \ {0}
  BY FieldAssumption
<1>1. c \in Nat /\ i \in Nat /\ i \in 0 .. c - 1
  BY ChunksEnough, FieldAssumption
<1>2. m \in 0 .. len /\ i % Byte = i /\ c % Byte = c /\ m % Short = m
  BY ChunkStarts, Zenon
<1>3. n = m + Usable /\ m \in Nat /\ n \in Nat
  BY <1>0, <1>1
<1> HIDE DEF c, m, n
<1>4. p = [type |-> IF c = 1 THEN "AudioFrame" ELSE "AudioFragment",
           seq |-> (sequence + i) % Word, ordinal |-> ordinal + i,
           frame |-> frames + 1, length |-> len, id |-> frameId,
           index |-> i, count |-> c, offset |-> m, flags |-> Flags(i, c),
           from |-> m + 1, to |-> IF len <= n THEN len ELSE n]
  BY <1>2 DEF Fragment, c, m, n
<1>5. p.type # "Control" /\ p.frame = frames + 1 /\ p.length = len /\ p.index = i
  BY <1>4
<1>6. Piece(p)
  <2>1. p.id = (p.frame - 1) % Short /\ p.frame >= 1
    BY <1>4 DEF Numbered
  <2>2. p.count = Chunks(p.length) /\ p.index \in 0 .. p.count - 1
    BY <1>1, <1>4 DEF c
  <2>3. p.offset = p.index * Usable /\ p.from = p.offset + 1
    BY <1>4 DEF m
  <2>4. p.to = IF p.length <= (p.index + 1) * Usable
               THEN p.length ELSE (p.index + 1) * Usable
    BY <1>4 DEF n
  <2>5. QED
    BY <1>5, <2>1, <2>2, <2>3, <2>4 DEF Piece
<1>7. Payload(p) <= MaxPayload
  <2>1. Payload(p) = FragmentHeader + (p.to + 1 - p.from)
    BY <1>5 DEF Payload
  <2>2. p.from = m + 1 /\ p.to \in Nat /\ p.to <= n
    BY <1>0, <1>3, <1>4
  <2>3. MaxPayload = FragmentHeader + Usable
    BY <1>0 DEF Usable
  <2>4. QED
    BY <1>0, <1>3, <2>1, <2>2, <2>3
<1>8. p.ordinal \in Nat /\ p.seq = p.ordinal % Word
  <2>1. p.ordinal = ordinal + i /\ p.seq = (sequence + i) % Word
    BY <1>4
  <2>2. ordinal \in Nat /\ sequence = ordinal % Word
    BY DEF Numbered
  <2>3. ((ordinal % Word) + i) % Word = (ordinal + i) % Word
    BY <1>0, <1>1, <2>2, CountModulo, Zenon
  <2>4. QED
    BY <1>1, <2>1, <2>2, <2>3
<1>9. QED
  BY <1>5, <1>6, <1>7, <1>8

\* packetize keeps the invariant.
LEMMA PacketizeKeeps ==
  ASSUME WireInv, NEW len \in Lengths, Packetize(len)
  PROVE WireInv'
<1> DEFINE new == NewPieces(len)
           c == Chunks(len)
<1>0. Short \in Nat \ {0} /\ Word \in Nat \ {0} /\ Window \in Nat /\ Window >= 1
  BY FieldAssumption, WindowAssumption
<1>a. PacketsFit /\ Numbered /\ Fragmented
  BY DEF WireInv
<1>b. c \in Nat /\ c >= 1
  BY ChunksEnough, FieldAssumption
<1>1. /\ wire' = Recent(wire) \cup new /\ accepted' = Recent(accepted)
      /\ frames' = frames + 1 /\ frameId' = (frameId + 1) % Short
      /\ sequence' = (sequence + c) % Word /\ ordinal' = ordinal + c
  BY DEF Packetize, NewPieces
<1>2. frames \in Nat /\ frames' \in Nat
  BY <1>a, <1>1 DEF Numbered
<1>3. ASSUME NEW p \in new
      PROVE /\ p.type # "Control" /\ p.frame = frames' /\ p.length = len
            /\ Piece(p) /\ Payload(p) <= MaxPayload
            /\ p.ordinal \in Nat /\ p.seq = p.ordinal % Word
            /\ p.count = c
            /\ p.index \in 0 .. c - 1 /\ p = Fragment(len, p.index)
  <2>1. PICK i \in 0 .. c - 1 : p = Fragment(len, i)
    BY DEF NewPieces
  <2>2. /\ p.type # "Control" /\ p.frame = frames + 1
        /\ p.length = len /\ p.index = i
        /\ Piece(p) /\ Payload(p) <= MaxPayload
        /\ p.ordinal \in Nat /\ p.seq = p.ordinal % Word
    BY <1>a, <2>1, FragmentIsPiece
  <2>3. QED
    BY <1>1, <2>1, <2>2 DEF Piece
<1>4. ASSUME NEW i \in 0 .. c - 1
      PROVE \E q \in new : q.index = i
  <2>1. Fragment(len, i) \in new
    BY DEF NewPieces
  <2>2. Fragment(len, i).index = i
    BY <1>a, FragmentIsPiece
  <2>3. QED
    BY <2>1, <2>2
<1>5. ASSUME NEW p \in Recent(wire)
      PROVE p \in wire /\ p.frame \in (frames' + 1) - Window .. frames
  <2>1. p \in wire /\ p.frame > (frames + 1) - Window
    BY DEF Recent
  <2>2. p.frame \in (frames + 1) - Window .. frames
    BY <1>a, <2>1 DEF Numbered
  <2>3. QED
    BY <1>0, <1>1, <1>2, <2>1, <2>2
<1> HIDE DEF new
<1>6. PacketsFit'
  <2>1. frameId' \in 0 .. Short - 1
    BY <1>0, <1>1, <1>a DEF PacketsFit
  <2>2. sequence' \in 0 .. Word - 1
    BY <1>0, <1>1, <1>a, <1>b DEF PacketsFit
  <2>3. accepted' \subseteq wire'
    BY <1>1, <1>a DEF PacketsFit, Recent
  <2>4. \A p \in Audio(wire') : Payload(p) <= MaxPayload
    BY <1>1, <1>3, <1>5, <1>a DEF PacketsFit, Audio
  <2>5. QED
    BY <2>1, <2>2, <2>3, <2>4 DEF PacketsFit, Payload, Audio
<1>7. Numbered'
  <2>1. frameId' = frames' % Short
    <3>1. ((frames % Short) + 1) % Short = (frames + 1) % Short
      BY <1>0, <1>2, CountModulo
    <3>2. QED
      BY <1>1, <1>a, <3>1 DEF Numbered
  <2>2. ordinal' \in Nat /\ sequence' = ordinal' % Word
    <3>1. ordinal \in Nat /\ sequence = ordinal % Word
      BY <1>a DEF Numbered
    <3>2. ((ordinal % Word) + c) % Word = (ordinal + c) % Word
      BY <1>0, <1>b, <3>1, CountModulo, Zenon
    <3>3. QED
      BY <1>1, <1>b, <3>1, <3>2
  <2>3. ASSUME NEW p \in wire'
        PROVE /\ p.ordinal \in Nat /\ p.seq = p.ordinal % Word
              /\ p.frame \in (frames' + 1) - Window .. frames'
    <3>1. CASE p \in Recent(wire)
      BY <1>1, <1>2, <1>5, <1>a, <3>1 DEF Numbered
    <3>2. CASE p \in new
      BY <1>0, <1>2, <1>3, <3>2
    <3>3. QED
      BY <1>1, <3>1, <3>2
  <2>4. QED
    BY <1>2, <2>1, <2>2, <2>3 DEF Numbered
<1>8. Fragmented'
  <2>1. \A p \in Audio(wire)' : p \in new \/ (p \in Audio(wire) /\ p \in Recent(wire))
    BY <1>1 DEF Audio, Recent
  <2>2. \A p \in new : p \in Audio(wire)'
    BY <1>1, <1>3 DEF Audio
  <2>3. ASSUME NEW p \in Audio(wire)', NEW q \in Audio(wire)', p.frame = q.frame
        PROVE \/ p \in new /\ q \in new
              \/ p \in Audio(wire) /\ q \in Audio(wire)
    <3>1. \A r \in Recent(wire) : r.frame <= frames /\ r.frame \in Int
      BY <1>0, <1>2, <1>5
    <3>2. \A r \in new : r.frame = frames + 1
      BY <1>1, <1>3
    <3>3. ~(p \in new /\ q \in Recent(wire)) /\ ~(q \in new /\ p \in Recent(wire))
      BY <1>2, <2>3, <3>1, <3>2
    <3>4. QED
      BY <2>1, <3>3
  <2>4. ASSUME NEW p \in Audio(wire)', NEW q \in Audio(wire)', p.frame = q.frame
        PROVE p.length = q.length /\ (p.index = q.index => p = q)
    <3>1. CASE p \in new /\ q \in new
      <4>1. p = Fragment(len, p.index) /\ q = Fragment(len, q.index)
            /\ p.length = len /\ q.length = len
        BY <1>3, <3>1
      <4>2. QED
        BY <4>1
    <3>2. CASE p \in Audio(wire) /\ q \in Audio(wire)
      BY <1>a, <2>4, <3>2 DEF Fragmented
    <3>3. QED
      BY <2>3, <2>4, <3>1, <3>2
  <2>5. ASSUME NEW p \in Audio(wire)'
        PROVE Piece(p) /\ \A i \in 0 .. p.count - 1 :
                 \E q \in Audio(wire)' : q.frame = p.frame /\ q.index = i
    <3>1. CASE p \in new
      <4>1. Piece(p) /\ p.count = c /\ p.frame = frames'
        BY <1>3, <3>1
      <4>2. ASSUME NEW i \in 0 .. p.count - 1
            PROVE \E q \in Audio(wire)' : q.frame = p.frame /\ q.index = i
        <5>1. PICK q \in new : q.index = i
          BY <1>4, <4>1
        <5>2. q.frame = frames'
          BY <1>3
        <5>3. QED
          BY <2>2, <4>1, <5>1, <5>2
      <4>3. QED
        BY <4>1, <4>2
    <3>2. CASE p \in Audio(wire) /\ p \in Recent(wire)
      <4>1. Piece(p)
        BY <1>a, <3>2 DEF Fragmented
      <4>2. ASSUME NEW i \in 0 .. p.count - 1
            PROVE \E q \in Audio(wire)' : q.frame = p.frame /\ q.index = i
        <5>1. PICK q \in Audio(wire) : q.frame = p.frame /\ q.index = i
          BY <1>a, <3>2 DEF Fragmented
        <5>2. q \in Audio(wire)'
          BY <1>1, <3>2, <5>1 DEF Audio, Recent
        <5>3. QED
          BY <5>1, <5>2
      <4>3. QED
        BY <4>1, <4>2
    <3>3. QED
      BY <2>1, <3>1, <3>2
  <2>6. \A p \in Audio(wire)' : Piece(p)'
    BY <2>5 DEF Piece, Chunks
  <2>7. QED
    BY <2>4, <2>5, <2>6 DEF Fragmented
<1>9. QED
  BY <1>6, <1>7, <1>8 DEF WireInv

\* control_message keeps the invariant: it takes one number of the sequence
\* and leaves the audio packets alone.
LEMMA ControlKeeps ==
  ASSUME WireInv, NEW len \in ControlLengths, ControlMessage(len)
  PROVE WireInv'
<1> DEFINE msg == Control(len)
<1>0. /\ Word \in Nat \ {0} /\ Window \in Nat /\ Window >= 1
      /\ MaxPayload \in Nat
  BY FieldAssumption, WindowAssumption
<1>a. PacketsFit /\ Numbered /\ Fragmented
  BY DEF WireInv
<1>1. /\ wire' = wire \cup {msg} /\ accepted' = accepted
      /\ frames' = frames /\ frameId' = frameId
      /\ sequence' = (sequence + 1) % Word /\ ordinal' = ordinal + 1
  BY DEF ControlMessage
<1>2. /\ msg.type = "Control" /\ msg.frame = frames
      /\ msg.ordinal = ordinal /\ msg.seq = sequence
  BY DEF Control
<1> HIDE DEF msg
<1>3. PacketsFit'
  <2>1. sequence' \in 0 .. Word - 1
    BY <1>0, <1>1, <1>a DEF PacketsFit
  <2>2. Audio(wire') = Audio(wire)
    BY <1>1, <1>2 DEF Audio
  <2>3. \A p \in Audio(wire') : Payload(p) <= MaxPayload
    BY <1>a, <2>2 DEF PacketsFit
  <2>4. accepted' \subseteq wire' /\ frameId' \in 0 .. Short - 1
    BY <1>1, <1>a DEF PacketsFit
  <2>5. QED
    BY <2>1, <2>3, <2>4 DEF PacketsFit, Payload, Audio
<1>4. Numbered'
  <2>1. ordinal \in Nat /\ sequence = ordinal % Word /\ frames \in Nat
    BY <1>a DEF Numbered
  <2>2. ((ordinal % Word) + 1) % Word = (ordinal + 1) % Word
    BY <1>0, <2>1, CountModulo
  <2>3. ordinal' \in Nat /\ sequence' = ordinal' % Word
    BY <1>1, <2>1, <2>2
  <2>4. ASSUME NEW p \in wire'
        PROVE /\ p.ordinal \in Nat /\ p.seq = p.ordinal % Word
              /\ p.frame \in (frames + 1) - Window .. frames
    <3>1. CASE p \in wire
      BY <1>a, <3>1 DEF Numbered
    <3>2. CASE p = msg
      BY <1>0, <1>2, <2>1, <3>2
    <3>3. QED
      BY <1>1, <3>1, <3>2
  <2>5. QED
    BY <1>1, <1>a, <2>1, <2>3, <2>4 DEF Numbered
<1>5. Fragmented'
  <2>1. Audio(wire)' = Audio(wire)
    BY <1>1, <1>2 DEF Audio
  <2>2. \A p \in Audio(wire) : Piece(p)'
    BY <1>a DEF Fragmented, Piece, Chunks
  <2>3. QED
    BY <1>a, <2>1, <2>2 DEF Fragmented
<1>6. QED
  BY <1>3, <1>4, <1>5 DEF WireInv

\* Receiving a packet, whole, cut or for the second time, accepts nothing
\* that was not sent.
LEMMA ReceiveKeeps ==
  ASSUME WireInv, NEW p \in wire, NEW n, Receive(p, n)
  PROVE WireInv'
<1>1. accepted' \subseteq wire
  BY DEF Receive, Deserialize, WireInv, PacketsFit
<1>2. UNCHANGED <<frameId, sequence, frames, ordinal, wire>>
  BY DEF Receive
<1>3. PacketsFit'
  BY <1>1, <1>2 DEF WireInv, PacketsFit, Payload, Audio
<1>4. Numbered'
  BY <1>2 DEF WireInv, Numbered
<1>5. Fragmented'
  BY <1>2 DEF WireInv, Fragmented, Audio, Piece, Chunks
<1>6. QED
  BY <1>3, <1>4, <1>5 DEF WireInv

\* What DcfTransport puts on the wire, for every packet size, field width and
\* set of frame lengths the header can express: audio packets fit, numbers
\* count frames and packets modulo their widths, and the audio packets are
\* the pieces of their frames.
THEOREM WireInvHolds == DSpec => []WireInv
<1>1. DInit => WireInv
  <2> SUFFICES ASSUME DInit PROVE WireInv
    OBVIOUS
  <2>1. Short \in Nat \ {0} /\ Word \in Nat \ {0} /\ Window \in Nat
    BY FieldAssumption, WindowAssumption
  <2>2. frameId = 0 /\ sequence = 0 /\ frames = 0 /\ ordinal = 0
        /\ wire = {} /\ accepted = {}
    BY DEF DInit
  <2>3. 0 % Short = 0 /\ 0 % Word = 0
    BY <2>1
  <2>4. PacketsFit /\ Numbered
    BY <2>1, <2>2, <2>3 DEF PacketsFit, Numbered, Audio
  <2>5. Fragmented
    BY <2>2 DEF Fragmented, Audio
  <2>6. QED
    BY <2>4, <2>5 DEF WireInv
<1>2. WireInv /\ [DNext]_dcfVars => WireInv'
  <2> SUFFICES ASSUME WireInv, [DNext]_dcfVars PROVE WireInv'
    OBVIOUS
  <2>1. CASE \E len \in Lengths : Packetize(len)
    BY <2>1, PacketizeKeeps
  <2>2. CASE \E len \in ControlLengths : ControlMessage(len)
    BY <2>2, ControlKeeps
  <2>3. CASE \E p \in wire : \E cut \in 0 .. 1 :
                Receive(p, HeaderSize + Payload(p) - cut)
    BY <2>3, ReceiveKeeps
  <2>4. CASE UNCHANGED dcfVars
    <3>1. UNCHANGED <<frameId, sequence, frames, ordinal, wire, accepted>>
      BY <2>4 DEF dcfVars
    <3>2. PacketsFit' /\ Numbered'
      BY <3>1 DEF WireInv, PacketsFit, Numbered, Payload, Audio
    <3>3. Fragmented'
      BY <3>1 DEF WireInv, Fragmented, Audio, Piece, Chunks
    <3>4. QED
      BY <3>2, <3>3 DEF WireInv
  <2>5. QED
    BY <2>1, <2>2, <2>3, <2>4 DEF DNext
<1>3. QED
  BY <1>1, <1>2, PTL DEF DSpec

-----------------------------------------------------------------------------
(* What a receiver can tell                                                *)

\* The numbers of two packets under way differ by the packets sent between
\* them, modulo the width of the sequence number.
THEOREM SequenceTellsHolds == DSpec => []SequenceTells
<1>1. WireInv => SequenceTells
  <2> SUFFICES ASSUME WireInv, NEW p \in wire, NEW q \in wire
               PROVE (q.seq - p.seq) % Word = (q.ordinal - p.ordinal) % Word
    BY DEF SequenceTells
  <2>1. /\ p.ordinal \in Nat /\ p.seq = p.ordinal % Word
        /\ q.ordinal \in Nat /\ q.seq = q.ordinal % Word
    BY DEF WireInv, Numbered
  <2>2. Word \in Nat \ {0}
    BY FieldAssumption
  <2>3. ((q.ordinal % Word) - (p.ordinal % Word)) % Word
        = (q.ordinal - p.ordinal) % Word
    BY <2>1, <2>2, DistanceModulo, Zenon
  <2>4. QED
    BY <2>1, <2>3, Zenon
<1>2. QED
  BY <1>1, WireInvHolds, PTL

\* Packets under one identifier come from one frame: only Window frames are
\* under way, and the identifiers do not wrap around within so many.
LEMMA OneFrame ==
  ASSUME WireInv, NEW id, NEW p \in Group(id), NEW q \in Group(id)
  PROVE p.frame = q.frame
<1>0. Short \in Nat \ {0} /\ Window \in Nat /\ Window <= Short
  BY FieldAssumption, WindowAssumption
<1>1. /\ p \in Audio(wire) /\ q \in Audio(wire) /\ p \in wire /\ q \in wire
      /\ p.id = id /\ q.id = id
  BY DEF Group, Audio, WireInv, PacketsFit
<1>2. p.id = (p.frame - 1) % Short /\ q.id = (q.frame - 1) % Short
  BY <1>1 DEF WireInv, Fragmented, Piece
<1>3. /\ frames \in Nat
      /\ p.frame \in (frames + 1) - Window .. frames
      /\ q.frame \in (frames + 1) - Window .. frames
  BY <1>1 DEF WireInv, Numbered
<1> DEFINE x == p.frame - 1
           y == q.frame - 1
<1>4. x \in Int /\ y \in Int /\ x < y + Short /\ y < x + Short
  BY <1>0, <1>3
<1>5. x % Short = y % Short
  BY <1>1, <1>2
<1> HIDE DEF x, y
<1>6. x = y
  <2>1. CASE x <= y
    BY <1>0, <1>4, <1>5, <2>1, CloseModulo, Zenon
  <2>2. CASE y <= x
    BY <1>0, <1>4, <1>5, <2>2, CloseModulo, Zenon
  <2>3. QED
    BY <1>4, <2>1, <2>2
<1>7. p.frame = x + 1 /\ q.frame = y + 1
  BY <1>0, <1>3 DEF x, y
<1>8. QED
  BY <1>6, <1>7

\* A group that holds every index of its frame holds each byte once.
LEMMA EachByteOnce ==
  ASSUME WireInv, NEW id, Complete(Group(id)), NEW p \in Group(id),
         NEW b \in 1 .. p.length
  PROVE Cardinality({q \in Group(id) : b \in q.from .. q.to}) = 1
<1> DEFINE group == Group(id)
           len == p.length
<1>1. \A q \in group : q \in Audio(wire) /\ Piece(q)
  BY DEF Group, Audio, WireInv, PacketsFit, Fragmented
<1>2. \A q, r \in group : q.frame = r.frame
  BY OneFrame
<1>3. \A q, r \in group : q.length = r.length /\ (q.index = r.index => q = r)
  BY <1>1, <1>2 DEF WireInv, Fragmented
<1>4. len \in Lengths /\ len \in Nat /\ b \in 1 .. len
  BY <1>1, FieldAssumption DEF Piece
<1>5. PICK i \in 0 .. Chunks(len) - 1 :
         /\ i * Usable + 1 <= b /\ b <= (i + 1) * Usable
         /\ \A j \in Nat : j * Usable + 1 <= b /\ b <= (j + 1) * Usable => j = i
  BY <1>4, OneChunkEach
<1>6. PICK q \in group : q.index = i
  <2>1. {q.index : q \in group} = 0 .. Chunks(len) - 1
    BY <1>1 DEF Complete, Piece
  <2>2. QED
    BY <2>1
<1>7. \A r \in group :
         /\ r.index \in Nat /\ r.length = len
         /\ r.from = r.index * Usable + 1
         /\ r.to = IF len <= (r.index + 1) * Usable THEN len
                   ELSE (r.index + 1) * Usable
  <2> TAKE r \in group
  <2>1. Piece(r) /\ r.length = len
    BY <1>1, <1>3
  <2>2. Chunks(len) \in Nat
    BY <1>4, ChunksEnough, FieldAssumption
  <2>3. QED
    BY <2>1, <2>2 DEF Piece
<1> HIDE DEF group, len
<1>a. Usable \in Nat \ {0} /\ i \in Nat
  <2>1. Chunks(len) \in Nat
    BY <1>4, ChunksEnough, FieldAssumption
  <2>2. QED
    BY <2>1, FieldAssumption
<1>8. b \in q.from .. q.to
  <2>1. /\ q.from = i * Usable + 1
        /\ q.to = IF len <= (i + 1) * Usable THEN len ELSE (i + 1) * Usable
    BY <1>6, <1>7
  <2>2. i * Usable \in Int /\ (i + 1) * Usable \in Int
    BY <1>a
  <2>3. QED
    BY <1>4, <1>5, <2>1, <2>2
<1>9. ASSUME NEW r \in group, b \in r.from .. r.to
      PROVE r = q
  <2>1. r.index \in Nat /\ r.from = r.index * Usable + 1
        /\ r.to = IF len <= (r.index + 1) * Usable THEN len
                  ELSE (r.index + 1) * Usable
    BY <1>7
  <2>2. r.index * Usable \in Int /\ (r.index + 1) * Usable \in Int
    BY <1>a, <2>1
  <2>3. r.index * Usable + 1 <= b /\ b <= (r.index + 1) * Usable
    BY <1>4, <1>9, <2>1, <2>2
  <2>4. r.index = i
    BY <1>5, <2>1, <2>3
  <2>5. QED
    BY <1>3, <1>6, <2>4 DEF group
<1>10. {r \in group : b \in r.from .. r.to} = {q}
  BY <1>6, <1>8, <1>9, Zenon
<1>11. QED
  BY <1>10, FS_Singleton DEF group

\* The header is enough: the packets a receiver accepted under an identifier
\* are one whole frame as soon as they look complete, and look complete as
\* soon as all packets of their frame are accepted; for every window that the
\* identifiers can tell apart.
THEOREM ReassemblesHolds == DSpec => []Reassembles
<1>1. WireInv => Reassembles
  <2> SUFFICES ASSUME WireInv, NEW id \in 0 .. Short - 1
               PROVE /\ Complete(Group(id)) =>
                          /\ \A p, q \in Group(id) : p.frame = q.frame
                          /\ \A p \in Group(id) :
                                /\ p.offset + 1 = p.from
                                /\ \A b \in 1 .. p.length :
                                      Cardinality({q \in Group(id) :
                                                     b \in q.from .. q.to}) = 1
                     /\ \A p \in Group(id) :
                           {q \in wire : q.type # "Control" /\ q.frame = p.frame}
                               \subseteq accepted
                           => Complete(Group(id))
    BY DEF Reassembles
  <2>1. \A p, q \in Group(id) : p.frame = q.frame
    BY OneFrame
  <2>2. \A p \in Group(id) : p \in Audio(wire) /\ Piece(p)
    BY DEF Group, Audio, WireInv, PacketsFit, Fragmented
  <2>3. \A p \in Group(id) : p.offset + 1 = p.from
    BY <2>2 DEF Piece
  <2>4. Complete(Group(id)) =>
           \A p \in Group(id) : \A b \in 1 .. p.length :
              Cardinality({q \in Group(id) : b \in q.from .. q.to}) = 1
    BY EachByteOnce
  <2>5. ASSUME NEW p \in Group(id),
               {q \in wire : q.type # "Control" /\ q.frame = p.frame}
                   \subseteq accepted
        PROVE Complete(Group(id))
    <3>1. SUFFICES ASSUME NEW r \in Group(id)
                   PROVE {q.index : q \in Group(id)} = 0 .. r.count - 1
      BY <2>5 DEF Complete
    <3>2. ASSUME NEW q \in Group(id) PROVE q.index \in 0 .. r.count - 1
      <4>1. Piece(q) /\ Piece(r) /\ q.length = r.length
        BY <2>1, <2>2 DEF WireInv, Fragmented
      <4>2. QED
        BY <4>1 DEF Piece
    <3>3. ASSUME NEW i \in 0 .. r.count - 1
          PROVE \E q \in Group(id) : q.index = i
      <4>1. PICK q \in Audio(wire) : q.frame = r.frame /\ q.index = i
        BY <2>2 DEF WireInv, Fragmented
      <4>2. q.frame = p.frame /\ q \in accepted
        BY <2>1, <2>5, <4>1 DEF Audio
      <4>3. Piece(q) /\ Piece(r) /\ r.id = id
        BY <2>2 DEF WireInv, Fragmented, Group
      <4>4. q.id = id
        BY <4>1, <4>3 DEF Piece
      <4>5. QED
        BY <4>1, <4>2, <4>4 DEF Group, Audio
    <3>4. QED
      BY <3>2, <3>3
  <2>6. QED
    BY <2>1, <2>3, <2>4, <2>5
<1>2. QED
  BY <1>1, WireInvHolds, PTL

=============================================================================
