--------------------------- MODULE FrameSyncProofs ---------------------------
(***************************************************************************)
(* Proofs about the byte path of the BT reader, for every byte stream,     *)
(* frame length, concealment limit and way in which the reads cut the      *)
(* stream, whatever libsbc makes of bytes that are not a whole frame:      *)
(* bytes are consumed once (BytesConsumedOnce), a frame that arrives whole *)
(* is lost only to bytes accepted wrongly (IntactFramesDecoded), and       *)
(* concealment only fades (FadeOnlyDown).                                  *)
(***************************************************************************)
EXTENDS FrameSync, SequenceTheorems, TLAPS

-----------------------------------------------------------------------------
(* Frames in byte sequences                                                *)

\* Whether a frame starts at a place depends on FrameLen bytes only.
LEMMA SameFrame ==
  ASSUME NEW s, NEW t, NEW o \in Nat, NEW u \in Nat,
         o + FrameLen <= Len(s), u + FrameLen <= Len(t),
         \A i \in 0 .. FrameLen - 1 : s[o + 1 + i] = t[u + 1 + i]
  PROVE /\ FrameAt(s, o) <=> FrameAt(t, u)
        /\ s[o + 1] = t[u + 1]
<1>1. 0 \in 0 .. FrameLen - 1 /\ o + 1 + 0 = o + 1 /\ u + 1 + 0 = u + 1
  BY FrameLenAssumption
<1>2. s[o + 1] = t[u + 1]
  BY <1>1
<1>3. (\A i \in 0 .. FrameLen - 1 : s[o + 1 + i] = <<s[o + 1][1], i>>)
      <=> (\A i \in 0 .. FrameLen - 1 : t[u + 1 + i] = <<t[u + 1][1], i>>)
  BY <1>2, Zenon
<1>4. QED
  BY <1>2, <1>3, Zenon DEF FrameAt

\* Two places where frames start are at least a frame apart: a byte says its
\* place in its frame.
LEMMA FramesApart ==
  ASSUME NEW s, NEW o \in Nat, NEW u \in Nat, FrameAt(s, o), FrameAt(s, u),
         o < u
  PROVE o + FrameLen <= u
<1>1. SUFFICES ASSUME u < o + FrameLen PROVE FALSE
  BY FrameLenAssumption
<1>2. u - o \in 0 .. FrameLen - 1 /\ o + 1 + (u - o) = u + 1
  BY <1>1, FrameLenAssumption
<1>3. s[u + 1] = <<s[o + 1][1], u - o>>
  <2>1. s[o + 1 + (u - o)] = <<s[o + 1][1], u - o>>
    BY <1>2 DEF FrameAt
  <2>2. QED
    BY <1>2, <2>1
<1>4. s[u + 1] = <<s[u + 1][1], 0>>
  <2>1. 0 \in 0 .. FrameLen - 1 /\ u + 1 + 0 = u + 1
    BY FrameLenAssumption
  <2>2. s[u + 1 + 0] = <<s[u + 1][1], 0>>
    BY <2>1 DEF FrameAt
  <2>3. QED
    BY <2>1, <2>2
<1>5. u - o = 0
  BY <1>3, <1>4
<1>6. QED
  BY <1>5

\* While a frame's length of bytes is left, what starts at offset in source
\* is what starts in the stream behind the bytes consumed.
LEMMA SourceIsStream ==
  ASSUME TypeOK, Buffered, MoreToDecode
  PROVE /\ Here \in Nat /\ Here + FrameLen <= pos /\ Consumed = Here
        /\ FrameAt(source, offset) <=> FrameAt(stream, Here)
        /\ \A i \in 1 .. Len(source) - offset : source[offset + i] = stream[Here + i]
<1> DEFINE n == pos - Len(source)
<1>1. /\ FrameLen \in Nat \ {0} /\ offset \in Nat /\ pos \in Nat
      /\ Len(source) \in Nat /\ Len(stream) \in Nat /\ pos <= Len(stream)
      /\ offset + FrameLen <= Len(source) /\ pc = "decode"
  <2>1. /\ stream \in Seq(Nat \X Nat) /\ source \in Seq(Nat \X Nat)
        /\ pos \in 0 .. Len(stream) /\ offset \in 0 .. Len(source)
        /\ pc = "decode" /\ offset + FrameLen <= Len(source)
    BY Zenon DEF TypeOK, MoreToDecode
  <2>2. Len(source) \in Nat /\ Len(stream) \in Nat
    BY <2>1
  <2> HIDE DEF n
  <2>3. QED
    BY <2>1, <2>2, FrameLenAssumption
<1>2. /\ Len(source) <= pos
      /\ \A i \in 1 .. Len(source) : source[i] = stream[n + i]
  BY <1>1 DEF Buffered, EndOfReceived
<1>3. Here = n + offset /\ n \in Nat
  BY <1>1, <1>2 DEF Here
<1> HIDE DEF n
<1>4. Here \in Nat /\ Here + FrameLen <= pos /\ Consumed = Here
  <2>1. n + Len(source) = pos
    BY <1>1, <1>2 DEF n
  <2>2. QED
    BY <1>1, <1>3, <2>1 DEF Consumed
<1>5. \A i \in 0 .. FrameLen - 1 : source[offset + 1 + i] = stream[Here + 1 + i]
  <2> TAKE i \in 0 .. FrameLen - 1
  <2>1. offset + 1 + i \in 1 .. Len(source)
    BY <1>1
  <2>2. n + (offset + 1 + i) = Here + 1 + i
    BY <1>1, <1>3
  <2>3. QED
    BY <1>2, <2>1, <2>2
<1>6. /\ FrameAt(source, offset) <=> FrameAt(stream, Here)
      /\ source[offset + 1] = stream[Here + 1]
  <2>1. Here + FrameLen <= Len(stream)
    BY <1>1, <1>4
  <2>2. ASSUME NEW o \in Nat, NEW u \in Nat,
               o + FrameLen <= Len(source), u + FrameLen <= Len(stream),
               \A i \in 0 .. FrameLen - 1 : source[o + 1 + i] = stream[u + 1 + i]
        PROVE (FrameAt(source, o) <=> FrameAt(stream, u))
              /\ source[o + 1] = stream[u + 1]
    <3>1. \A t : u + FrameLen <= Len(t)
                  /\ (\A i \in 0 .. FrameLen - 1 : source[o + 1 + i] = t[u + 1 + i])
                  => (FrameAt(source, o) <=> FrameAt(t, u)) /\ source[o + 1] = t[u + 1]
      BY <2>2, SameFrame, Zenon
    <3>2. QED
      BY <2>2, <3>1, Zenon
  <2>3. offset \in Nat /\ Here \in Nat /\ offset + FrameLen <= Len(source)
    BY <1>1, <1>4
  <2>4. QED
    BY <1>5, <2>1, <2>2, <2>3, Zenon
<1>7. \A i \in 1 .. Len(source) - offset : source[offset + i] = stream[Here + i]
  <2> TAKE i \in 1 .. Len(source) - offset
  <2>1. offset + i \in 1 .. Len(source)
    BY <1>1
  <2>2. n + (offset + i) = Here + i
    BY <1>1, <1>3
  <2>3. QED
    BY <1>2, <2>1, <2>2
<1>8. QED
  BY <1>4, <1>6, <1>7

\* Bytes that agree with the stream are that part of what was received.
LEMMA WindowOfReceived ==
  ASSUME pos \in Nat, NEW o \in Nat, o + FrameLen <= pos,
         Received \in Seq(Nat \X Nat), Len(Received) = pos,
         \A i \in 1 .. pos : Received[i] = stream[i],
         NEW b \in Seq(Nat \X Nat), Len(b) = FrameLen,
         \A i \in 1 .. FrameLen : b[i] = stream[o + i]
  PROVE b = SubSeq(Received, o + 1, o + FrameLen)
<1> DEFINE s == SubSeq(Received, o + 1, o + FrameLen)
<1>1. FrameLen \in Nat \ {0}
  BY FrameLenAssumption
<1>2. \A i \in o + 1 .. o + FrameLen : Received[i] \in Nat \X Nat
  <2>1. \A i \in o + 1 .. o + FrameLen : i \in 1 .. Len(Received)
    BY <1>1
  <2>2. \A i \in 1 .. Len(Received) : Received[i] \in Nat \X Nat
    OBVIOUS
  <2>3. QED
    BY <2>1, <2>2, Zenon
<1>3. s \in Seq(Nat \X Nat) /\ Len(s) = FrameLen
  <2>1. ASSUME NEW x \in Int, NEW y \in Int,
               \A h \in x .. y : Received[h] \in Nat \X Nat
        PROVE /\ SubSeq(Received, x, y) \in Seq(Nat \X Nat)
              /\ Len(SubSeq(Received, x, y)) = IF x <= y THEN y - x + 1 ELSE 0
    BY <2>1, SubSeqProperties
  <2>2. o + 1 \in Int /\ o + FrameLen \in Int
    BY <1>1
  <2>3. /\ s \in Seq(Nat \X Nat)
        /\ Len(s) = IF o + 1 <= o + FrameLen
                    THEN (o + FrameLen) - (o + 1) + 1 ELSE 0
    BY <1>2, <2>1, <2>2, Zenon
  <2> HIDE DEF s
  <2>4. o + 1 <= o + FrameLen /\ (o + FrameLen) - (o + 1) + 1 = FrameLen
    BY <1>1
  <2>5. QED
    BY <2>3, <2>4
<1>4. ASSUME NEW i \in 1 .. FrameLen PROVE s[i] = b[i]
  <2>1. s[i] = Received[(o + 1) + i - 1]
    BY <1>1
  <2>2. (o + 1) + i - 1 = o + i /\ o + i \in 1 .. pos
    BY <1>1
  <2>3. QED
    BY <2>1, <2>2
<1> HIDE DEF s
<1>5. Len(s) = Len(b) /\ \A i \in 1 .. Len(s) : s[i] = b[i]
  BY <1>3, <1>4
<1>6. s = b
  BY <1>3, <1>5, SeqEqual, Zenon
<1>7. QED
  BY <1>6 DEF s

-----------------------------------------------------------------------------
(* Pushing a PCM frame                                                     *)

\* What push_pcm does to the frames pushed before.
LEMMA Pushed ==
  ASSUME TypeOK, NEW p, pushed' = Append(pushed, p)
  PROVE /\ Len(pushed) \in Nat /\ Len(pushed') = Len(pushed) + 1
        /\ \A k \in 1 .. Len(pushed) : pushed'[k] = pushed[k]
        /\ pushed'[Len(pushed) + 1] = p
        /\ \A k \in 1 .. Len(pushed') : k \in 1 .. Len(pushed) \/ k = Len(pushed) + 1
        /\ \A k \in 1 .. Len(pushed) :
              pushed[k] \in PcmFrames /\ pushed[k].at \in Nat
<1>1. pushed \in Seq(PcmFrames)
  BY DEF TypeOK
<1>2. Len(pushed) \in Nat /\ Len(pushed') = Len(pushed) + 1
  BY <1>1
<1>3. \A k \in 1 .. Len(pushed) : pushed'[k] = pushed[k]
  BY <1>1
<1>4. pushed'[Len(pushed) + 1] = p
  BY <1>1
<1>5. \A k \in 1 .. Len(pushed) : pushed[k] \in PcmFrames
  BY <1>1
<1>6. \A k \in 1 .. Len(pushed) : pushed[k].at \in Nat
  BY <1>5 DEF PcmFrames
<1>7. \A k \in 1 .. Len(pushed') : k \in 1 .. Len(pushed) \/ k = Len(pushed) + 1
  BY <1>2
<1>8. QED
  BY <1>2, <1>3, <1>4, <1>5, <1>6, <1>7

\* A frame that stands for the next bytes of the stream extends the tiling by
\* their number.
LEMMA PushTiles ==
  ASSUME TypeOK, Tiled, NEW p \in PcmFrames, pushed' = Append(pushed, p),
         Consumed \in Nat, p.at = Consumed, Consumed' = Consumed + Width(p)
  PROVE Tiled'
<1> DEFINE l == Len(pushed)
           c == Consumed
           w == Width(p)
           W(k) == Width(pushed[k])
<1>1. /\ l \in Nat /\ Len(pushed') = l + 1 /\ pushed'[l + 1] = p
      /\ \A k \in 1 .. l : pushed'[k] = pushed[k]
      /\ \A k \in 1 .. l : pushed[k].at \in Nat
  BY Pushed
<1>2. w \in Nat /\ \A k \in 1 .. l : W(k) \in Nat
  <2>1. \A k \in 1 .. l : pushed[k] \in PcmFrames
    BY Pushed
  <2>2. ASSUME NEW q \in PcmFrames PROVE Width(q) \in Nat
    BY DEF PcmFrames, Width
  <2>3. QED
    BY <2>1, <2>2
<1>3. /\ \A k \in 1 .. l : pushed[k].at + W(k) <= c
      /\ \A j, k \in 1 .. l : j < k => pushed[j].at + W(j) <= pushed[k].at
      /\ \A b \in 1 .. c : \E k \in 1 .. l :
            b \in pushed[k].at + 1 .. pushed[k].at + W(k)
  BY DEF Tiled, Bytes
<1>4. c \in Nat /\ p.at = c /\ Consumed' = c + w
  OBVIOUS
<1>5. \A k \in 1 .. l : Width(pushed'[k]) = W(k)
  BY <1>1
<1>6. Width(pushed'[l + 1]) = w
  BY <1>1
<1> HIDE DEF l, c, w, W
<1>7. ASSUME NEW k \in 1 .. l + 1
      PROVE pushed'[k].at + Width(pushed'[k]) <= c + w
  <2>1. CASE k = l + 1
    BY <1>1, <1>2, <1>4, <1>6, <2>1
  <2>2. CASE k \in 1 .. l
    <3>1. pushed'[k].at = pushed[k].at /\ pushed[k].at \in Nat /\ Width(pushed'[k]) = W(k)
          /\ pushed[k].at + W(k) <= c /\ W(k) \in Nat
      BY <1>1, <1>2, <1>3, <1>5, <2>2
    <3>2. QED
      BY <1>2, <1>4, <3>1
  <2>3. QED
    BY <1>1, <2>1, <2>2
<1>8. ASSUME NEW j \in 1 .. l + 1, NEW k \in 1 .. l + 1, j < k
      PROVE pushed'[j].at + Width(pushed'[j]) <= pushed'[k].at
  <2>1. j \in 1 .. l /\ pushed'[j].at = pushed[j].at /\ Width(pushed'[j]) = W(j)
    BY <1>1, <1>5, <1>8
  <2>2. CASE k = l + 1
    BY <1>1, <1>3, <1>4, <2>1, <2>2
  <2>3. CASE k \in 1 .. l
    <3>1. pushed'[k].at = pushed[k].at
      BY <1>1, <2>3
    <3>2. QED
      BY <1>3, <1>8, <2>1, <2>3, <3>1
  <2>4. QED
    BY <1>1, <2>2, <2>3
<1>9. ASSUME NEW b \in 1 .. c + w
      PROVE \E k \in 1 .. l + 1 :
               b \in pushed'[k].at + 1 .. pushed'[k].at + Width(pushed'[k])
  <2>1. CASE b <= c
    <3>1. b \in 1 .. c
      BY <1>2, <1>4, <2>1
    <3>2. PICK k \in 1 .. l : b \in pushed[k].at + 1 .. pushed[k].at + W(k)
      BY <1>3, <3>1
    <3>3. pushed'[k].at = pushed[k].at /\ Width(pushed'[k]) = W(k) /\ k \in 1 .. l + 1
      BY <1>1, <1>5
    <3>4. QED
      BY <3>2, <3>3
  <2>2. CASE ~(b <= c)
    <3>1. b \in c + 1 .. c + w
      BY <1>2, <1>4, <2>2
    <3>2. pushed'[l + 1].at = c /\ Width(pushed'[l + 1]) = w /\ l + 1 \in 1 .. l + 1
      BY <1>1, <1>4, <1>6
    <3>3. QED
      BY <3>1, <3>2
  <2>3. QED
    BY <2>1, <2>2
<1>10. Len(pushed)' = l + 1 /\ Consumed' = c + w
  BY <1>1, <1>4
<1>11. /\ \A k \in 1 .. Len(pushed)' : (pushed[k].at + Width(pushed[k]))' <= Consumed'
       /\ \A j, k \in 1 .. Len(pushed)' :
             j < k => (pushed[j].at + Width(pushed[j]))' <= pushed'[k].at
  BY <1>7, <1>8, <1>10 DEF Width
<1>12. \A b \in 1 .. Consumed' : \E k \in 1 .. Len(pushed)' : b \in Bytes(pushed[k])'
  BY <1>9, <1>10 DEF Width, Bytes
<1>13. QED
  BY <1>11, <1>12 DEF Tiled

\* A frame that was decoded from what the stream holds at its place, and is
\* a whole frame where one starts, keeps what was decoded genuine.
LEMMA PushGenuine ==
  ASSUME TypeOK, Genuine, NEW p, pushed' = Append(pushed, p), stream' = stream,
         p.kind = "decoded" => DecodedFrom(p),
         FrameAt(stream, p.at) => p.kind = "decoded" /\ Len(p.bytes) = FrameLen
  PROVE Genuine'
<1> DEFINE l == Len(pushed)
           Good(q) == /\ q.kind = "decoded" => DecodedFrom(q)
                      /\ FrameAt(stream, q.at) =>
                            q.kind = "decoded" /\ Len(q.bytes) = FrameLen
<1>1. /\ pushed'[l + 1] = p
      /\ \A k \in 1 .. l : pushed'[k] = pushed[k]
      /\ \A k \in 1 .. Len(pushed') : k \in 1 .. l \/ k = l + 1
  BY Pushed
<1>2. Good(p)
  OBVIOUS
<1>3. \A k \in 1 .. l : Good(pushed[k])
  BY Zenon DEF Genuine
<1> HIDE DEF Good
<1>4. ASSUME NEW k \in 1 .. Len(pushed') PROVE Good(pushed'[k])
  BY <1>1, <1>2, <1>3, Zenon
<1>5. \A k \in 1 .. Len(pushed') :
         /\ pushed'[k].kind = "decoded" => DecodedFrom(pushed[k])'
         /\ FrameAt(stream', pushed'[k].at) =>
               pushed'[k].kind = "decoded" /\ Len(pushed'[k].bytes) = FrameLen
  BY <1>4, Zenon DEF Good, DecodedFrom
<1>6. QED
  BY <1>5, Zenon DEF Genuine, FrameAt

\* A concealment frame that follows a louder frame keeps the fade.
LEMMA PushFades ==
  ASSUME TypeOK, FadeOnlyDown, NEW p, pushed' = Append(pushed, p),
         p.kind = "concealed" =>
            /\ pushed # <<>>
            /\ pushed[Len(pushed)].kind # "silence"
            /\ p.bytes = pushed[Len(pushed)].bytes
            /\ p.shift > pushed[Len(pushed)].shift
  PROVE FadeOnlyDown'
<1> DEFINE l == Len(pushed)
<1>1. /\ l \in Nat /\ pushed'[l + 1] = p
      /\ \A k \in 1 .. l : pushed'[k] = pushed[k]
      /\ \A k \in 1 .. Len(pushed') : k \in 1 .. l \/ k = l + 1
  BY Pushed
<1>2. pushed # <<>> => l \in 1 .. l
  BY DEF TypeOK
<1>3. ASSUME NEW k \in 1 .. Len(pushed'), pushed'[k].kind = "concealed"
      PROVE /\ k > 1
            /\ pushed'[k - 1].kind # "silence"
            /\ pushed'[k].bytes = pushed'[k - 1].bytes
            /\ pushed'[k].shift > pushed'[k - 1].shift
  <2>1. CASE k = l + 1
    <3>1. /\ l \in 1 .. l /\ pushed[l].kind # "silence"
          /\ p.bytes = pushed[l].bytes /\ p.shift > pushed[l].shift
      BY <1>1, <1>2, <1>3, <2>1
    <3>2. pushed'[l] = pushed[l] /\ k - 1 = l /\ k > 1 /\ pushed'[k] = p
      BY <1>1, <2>1, <3>1
    <3>3. QED
      BY <3>1, <3>2
  <2>2. CASE k \in 1 .. l
    <3>1. pushed'[k] = pushed[k]
      BY <1>1, <2>2
    <3>2. /\ k > 1 /\ pushed[k - 1].kind # "silence"
          /\ pushed[k].bytes = pushed[k - 1].bytes
          /\ pushed[k].shift > pushed[k - 1].shift
      BY <1>3, <2>2, <3>1 DEF FadeOnlyDown
    <3>3. pushed'[k - 1] = pushed[k - 1]
      BY <1>1, <2>2, <3>2
    <3>4. QED
      BY <3>1, <3>2, <3>3
  <2>3. QED
    BY <1>1, <2>1, <2>2
<1>4. QED
  BY <1>3 DEF FadeOnlyDown

\* The types after a frame is pushed and bytes of source are consumed.
LEMMA PushTypes ==
  ASSUME TypeOK, MoreToDecode, NEW p \in PcmFrames,
         pushed' = Append(pushed, p),
         NEW n \in 1 .. Len(source) - offset, offset' = offset + n,
         lastPcm' \in [bytes : Seq(Nat \X Nat), shift : Nat], lost' \in Nat,
         UNCHANGED <<stream, pos, pc, source, leftover>>
  PROVE /\ TypeOK'
        /\ Buffered => Buffered'
        /\ Consumed' = Here + n
<1>1. pushed' \in Seq(PcmFrames)
  BY DEF TypeOK
<1>2. offset' \in 0 .. Len(source')
  BY FrameLenAssumption DEF TypeOK, MoreToDecode
<1>3. /\ stream' \in Seq(Nat \X Nat) /\ source' \in Seq(Nat \X Nat)
      /\ leftover' \in Seq(Nat \X Nat)
      /\ pos' \in 0 .. Len(stream') /\ pc' \in {"read", "decode"}
      /\ Len(leftover') < FrameLen
  BY DEF TypeOK
<1>4. TypeOK'
  BY <1>1, <1>2, <1>3 DEF TypeOK
<1>5. Buffered => Buffered'
  BY DEF Buffered, EndOfReceived
<1>6. Consumed' = Here + n
  BY FrameLenAssumption DEF Consumed, Here, MoreToDecode, TypeOK
<1>7. QED
  BY <1>4, <1>5, <1>6

-----------------------------------------------------------------------------
(* The reader's steps                                                      *)

\* decode_frame keeps the invariant, however many bytes it consumes.
LEMMA DecodeKeeps ==
  ASSUME SyncInv, NEW n \in 1 .. Len(source) - offset, DecodeFrame(n)
  PROVE SyncInv'
<1> DEFINE b == SubSeq(source, offset + 1, offset + n)
           p == Decoded(b)
<1>a. TypeOK /\ Buffered /\ Tiled /\ Genuine /\ Concealment /\ FadeOnlyDown
  BY DEF SyncInv
<1>1. /\ MoreToDecode /\ n \in Consumes(source, offset)
      /\ lastPcm' = [bytes |-> b, shift |-> 0] /\ pushed' = Append(pushed, p)
      /\ lost' = 0 /\ offset' = offset + n
      /\ UNCHANGED <<stream, pos, pc, source, leftover>>
  BY DEF DecodeFrame
<1>2. /\ Here \in Nat /\ Consumed = Here
      /\ FrameAt(source, offset) <=> FrameAt(stream, Here)
      /\ \A i \in 1 .. Len(source) - offset : source[offset + i] = stream[Here + i]
  BY <1>1, <1>a, SourceIsStream, Zenon
<1>3. /\ b \in Seq(Nat \X Nat) /\ Len(b) = n
      /\ \A i \in 1 .. n : b[i] = stream[Here + i]
  <2>1. /\ source \in Seq(Nat \X Nat) /\ offset \in Nat /\ n \in Nat
        /\ offset + n <= Len(source) /\ Len(source) \in Nat
    <3>1. source \in Seq(Nat \X Nat) /\ offset \in 0 .. Len(source)
      BY <1>a, Zenon DEF TypeOK
    <3>2. QED
      BY <3>1
  <2>2. \A i \in offset + 1 .. offset + n : source[i] \in Nat \X Nat
    BY <2>1
  <2>3. b \in Seq(Nat \X Nat) /\ Len(b) = n
    BY <2>1, <2>2
  <2>4. ASSUME NEW i \in 1 .. n PROVE b[i] = stream[Here + i]
    <3>1. b[i] = source[(offset + 1) + i - 1]
      <4>1. ASSUME NEW x \in Int, NEW y \in Int, NEW j \in 1 .. y - x + 1,
                   \A h \in x .. y : source[h] \in Nat \X Nat
            PROVE SubSeq(source, x, y)[j] = source[x + j - 1]
        BY <4>1, SubSeqProperties
      <4>2. offset + 1 \in Int /\ offset + n \in Int
            /\ i \in 1 .. (offset + n) - (offset + 1) + 1
        BY <2>1
      <4>3. QED
        BY <2>2, <4>1, <4>2, Zenon
    <3>2. (offset + 1) + i - 1 = offset + i /\ i \in 1 .. Len(source) - offset
      BY <2>1
    <3>3. QED
      BY <1>2, <3>1, <3>2
  <2>5. QED
    BY <2>3, <2>4
<1> HIDE DEF b
<1>4. p \in PcmFrames /\ p.at = Here /\ p.kind = "decoded" /\ p.bytes = b
      /\ p.shift = 0 /\ Width(p) = n
  BY <1>2, <1>3 DEF Decoded, PcmFrames, Width
<1> HIDE DEF p
<1>5. TypeOK' /\ Buffered' /\ Consumed' = Here + n
  <2>1. lost' \in Nat /\ lastPcm' \in [bytes : Seq(Nat \X Nat), shift : Nat]
    BY <1>1, <1>3
  <2>2. QED
    BY <1>1, <1>4, <1>a, <2>1, PushTypes, Zenon
<1>6. Tiled'
  BY <1>1, <1>2, <1>4, <1>5, <1>a, PushTiles
<1>7. Genuine'
  <2>1. DecodedFrom(p)
    <3>1. b # <<>>
      BY <1>3
    <3>2. QED
      BY <1>3, <1>4, <3>1 DEF DecodedFrom
  <2>2. FrameAt(stream, p.at) => Len(p.bytes) = FrameLen
    <3>1. ASSUME FrameAt(source, offset) PROVE n = FrameLen
      BY <1>1, <3>1, Zenon DEF Consumes
    <3>2. QED
      BY <1>2, <1>3, <1>4, <3>1, Zenon
  <2>3. QED
    BY <1>1, <1>4, <1>a, <2>1, <2>2, PushGenuine, Zenon
<1>8. Concealment'
  <2>1. Len(pushed') = Len(pushed) + 1 /\ Len(pushed) \in Nat /\ pushed'[Len(pushed')] = p
    BY <1>1, <1>a, Pushed
  <2>2. pushed' # <<>>
    BY <2>1
  <2>3. QED
    BY <1>1, <1>4, <2>1, <2>2 DEF Concealment
<1>9. FadeOnlyDown'
  BY <1>1, <1>4, <1>a, PushFades
<1>10. QED
  BY <1>5, <1>6, <1>7, <1>8, <1>9 DEF SyncInv

\* plc and the byte skipped keep the invariant.
LEMMA ConcealKeeps ==
  SyncInv /\ ConcealAndResync => SyncInv'
<1> SUFFICES ASSUME SyncInv, ConcealAndResync PROVE SyncInv'
  OBVIOUS
<1>a. TypeOK /\ Buffered /\ Tiled /\ Genuine /\ Concealment /\ FadeOnlyDown
  BY DEF SyncInv
<1>b. lastPcm \in [bytes : Seq(Nat \X Nat), shift : Nat] /\ lost \in Nat /\ PlcMax \in Nat
  BY <1>a, PlcAssumption DEF TypeOK
<1>1. /\ MoreToDecode /\ ~FrameAt(source, offset) /\ Plc /\ offset' = offset + 1
      /\ UNCHANGED <<stream, pos, pc, source, leftover>>
  <2>1. /\ MoreToDecode /\ 0 \in Consumes(source, offset) /\ Plc
        /\ offset' = offset + 1 /\ UNCHANGED <<stream, pos, pc, source, leftover>>
    BY DEF ConcealAndResync
  <2>2. FrameLen # 0
    BY FrameLenAssumption
  <2>3. ASSUME FrameAt(source, offset) PROVE FALSE
    BY <2>1, <2>2, <2>3, Zenon DEF Consumes
  <2>4. QED
    BY <2>1, <2>3, Zenon
<1>2. /\ Here \in Nat /\ Consumed = Here
      /\ FrameAt(source, offset) <=> FrameAt(stream, Here)
  BY <1>1, <1>a, SourceIsStream, Zenon
<1>3. /\ lastPcm' \in [bytes : Seq(Nat \X Nat), shift : Nat] /\ lost' \in Nat
      /\ \E p \in PcmFrames :
            /\ pushed' = Append(pushed, p) /\ p.at = Here
            /\ p.kind \in {"concealed", "silence"}
            /\ p.kind = "concealed" =>
                  /\ lastPcm.bytes # <<>> /\ lost <= PlcMax
                  /\ p.bytes = lastPcm.bytes /\ p.shift > lastPcm.shift
                  /\ lastPcm'.bytes = p.bytes /\ lastPcm'.shift = p.shift
            /\ p.kind = "silence" => lastPcm'.bytes = <<>> \/ lost' > PlcMax
  <2>1. CASE lastPcm.bytes = <<>>
    <3>1. pushed' = Append(pushed, Silence) /\ lastPcm' = lastPcm /\ lost' = lost
      BY <1>1, <2>1 DEF Plc
    <3>2. Silence \in PcmFrames /\ Silence.at = Here /\ Silence.kind = "silence"
      BY <1>2 DEF Silence, PcmFrames
    <3>3. QED
      BY <1>b, <2>1, <3>1, <3>2
  <2>2. CASE lastPcm.bytes # <<>> /\ lost + 1 > PlcMax
    <3>1. pushed' = Append(pushed, Silence) /\ lastPcm' = lastPcm /\ lost' = lost + 1
      BY <1>1, <2>2 DEF Plc
    <3>2. Silence \in PcmFrames /\ Silence.at = Here /\ Silence.kind = "silence"
      BY <1>2 DEF Silence, PcmFrames
    <3>3. QED
      BY <1>b, <2>2, <3>1, <3>2
  <2>3. CASE lastPcm.bytes # <<>> /\ ~(lost + 1 > PlcMax)
    <3> DEFINE shift == lastPcm.shift + IF lost' < 15 THEN lost' ELSE 15
               p == Concealed(lastPcm.bytes, shift)
    <3>1. /\ pushed' = Append(pushed, p) /\ lost' = lost + 1
          /\ lastPcm' = [lastPcm EXCEPT !.shift = shift]
      BY <1>1, <2>3 DEF Plc
    <3>2. shift \in Nat /\ shift > lastPcm.shift
      BY <1>b, <3>1
    <3> HIDE DEF shift
    <3>3. /\ p \in PcmFrames /\ p.at = Here /\ p.kind = "concealed"
          /\ p.bytes = lastPcm.bytes /\ p.shift = shift
      BY <1>2, <1>b, <3>2 DEF Concealed, PcmFrames
    <3>4. /\ lastPcm' \in [bytes : Seq(Nat \X Nat), shift : Nat]
          /\ lastPcm'.bytes = lastPcm.bytes /\ lastPcm'.shift = shift
      BY <1>b, <3>1, <3>2
    <3> HIDE DEF p
    <3>5. QED
      BY <1>b, <2>3, <3>1, <3>2, <3>3, <3>4
  <2>4. QED
    BY <2>1, <2>2, <2>3
<1>4. PICK p \in PcmFrames :
         /\ pushed' = Append(pushed, p) /\ p.at = Here
         /\ p.kind \in {"concealed", "silence"}
         /\ p.kind = "concealed" =>
               /\ lastPcm.bytes # <<>> /\ lost <= PlcMax
               /\ p.bytes = lastPcm.bytes /\ p.shift > lastPcm.shift
               /\ lastPcm'.bytes = p.bytes /\ lastPcm'.shift = p.shift
         /\ p.kind = "silence" => lastPcm'.bytes = <<>> \/ lost' > PlcMax
  BY <1>3
<1>5. TypeOK' /\ Buffered' /\ Consumed' = Here + 1
  <2>1. 1 \in 1 .. Len(source) - offset
    BY <1>1, <1>a, FrameLenAssumption DEF MoreToDecode, TypeOK
  <2>2. QED
    BY <1>1, <1>3, <1>4, <1>a, <2>1, PushTypes, Zenon
<1>6. Tiled'
  <2>1. Width(p) = 1
    BY <1>4 DEF Width
  <2>2. QED
    BY <1>2, <1>4, <1>5, <1>a, <2>1, PushTiles
<1>7. Genuine'
  <2>1. p.kind # "decoded"
    BY <1>4
  <2>2. ~FrameAt(stream, p.at)
    BY <1>1, <1>2, <1>4, Zenon
  <2>3. QED
    BY <1>1, <1>4, <1>a, <2>1, <2>2, PushGenuine, Zenon
<1>8. Concealment'
  <2>1. Len(pushed') = Len(pushed) + 1 /\ Len(pushed) \in Nat /\ pushed'[Len(pushed')] = p
    BY <1>4, <1>a, Pushed
  <2>2. pushed' # <<>>
    BY <2>1
  <2>3. CASE p.kind = "concealed"
    BY <1>4, <2>1, <2>2, <2>3 DEF Concealment
  <2>4. CASE p.kind = "silence"
    <3>1. lost' \in Nat
      BY <1>3
    <3>2. QED
      BY <1>4, <1>b, <2>4, <3>1 DEF Concealment
  <2>5. QED
    BY <1>4, <2>3, <2>4
<1>9. FadeOnlyDown'
  <2>1. p.kind = "concealed" =>
           /\ pushed # <<>>
           /\ pushed[Len(pushed)].kind # "silence"
           /\ p.bytes = pushed[Len(pushed)].bytes
           /\ p.shift > pushed[Len(pushed)].shift
    BY <1>4, <1>a DEF Concealment
  <2>2. QED
    BY <1>4, <1>a, <2>1, PushFades
<1>10. QED
  BY <1>5, <1>6, <1>7, <1>8, <1>9 DEF SyncInv

\* A step that neither pushes nor consumes keeps what was pushed.
LEMMA OutputKept ==
  ASSUME SyncInv, UNCHANGED <<stream, lastPcm, lost, pushed>>,
         Consumed' = Consumed
  PROVE Tiled' /\ Genuine' /\ Concealment' /\ FadeOnlyDown'
<1>1. Tiled'
  BY DEF SyncInv, Tiled, Width, Bytes
<1>2. Genuine'
  BY Zenon DEF SyncInv, Genuine, FrameAt, DecodedFrom
<1>3. Concealment' /\ FadeOnlyDown'
  BY DEF SyncInv, Concealment, FadeOnlyDown
<1>4. QED
  BY <1>1, <1>2, <1>3

\* A read puts the next bytes of the stream behind those left over.
LEMMA ReadKeeps ==
  ASSUME SyncInv, NEW n \in 1 .. MaxRead, ReadBytes(n)
  PROVE SyncInv'
<1> DEFINE l == Len(leftover)
           next == SubSeq(stream, pos + 1, pos + n)
<1>a. TypeOK /\ Buffered
  BY DEF SyncInv
<1>1. /\ pc = "read" /\ pos + n <= Len(stream) /\ source' = leftover \o next
      /\ pos' = pos + n /\ offset' = 0 /\ pc' = "decode"
      /\ UNCHANGED <<stream, leftover, lastPcm, lost, pushed>>
  BY DEF ReadBytes
<1>2. /\ n \in Nat /\ pos \in Nat /\ l \in Nat /\ Len(stream) \in Nat
      /\ stream \in Seq(Nat \X Nat) /\ leftover \in Seq(Nat \X Nat)
  BY <1>a, ReadAssumption DEF TypeOK
<1>3. l <= pos /\ \A i \in 1 .. l : leftover[i] = stream[(pos - l) + i]
  BY <1>a, <1>1 DEF Buffered, EndOfReceived
<1>4. /\ next \in Seq(Nat \X Nat) /\ Len(next) = n
      /\ \A i \in 1 .. n : next[i] = stream[pos + i]
  <2>1. \A i \in pos + 1 .. pos + n : stream[i] \in Nat \X Nat
    <3>1. \A i \in 1 .. Len(stream) : stream[i] \in Nat \X Nat
      BY <1>2
    <3>2. \A i \in pos + 1 .. pos + n : i \in 1 .. Len(stream)
      BY <1>1, <1>2
    <3>3. QED
      BY <3>1, <3>2, Zenon
  <2>2. Len(next) = n
    BY <1>1, <1>2
  <2>3. \A i \in 1 .. n : next[i] = stream[pos + i]
    <3> TAKE i \in 1 .. n
    <3>1. next[i] = stream[(pos + 1) + i - 1]
      BY <1>1, <1>2
    <3>2. (pos + 1) + i - 1 = pos + i
      BY <1>2
    <3>3. QED
      BY <3>1, <3>2
  <2>4. next \in Seq(Nat \X Nat)
    BY <1>1, <1>2, <2>1
  <2>5. QED
    BY <2>2, <2>3, <2>4
<1> HIDE DEF next
<1>5. /\ source' \in Seq(Nat \X Nat) /\ Len(source') = l + n
      /\ \A i \in 1 .. l + n :
            source'[i] = IF i <= l THEN leftover[i] ELSE next[i - l]
  BY <1>1, <1>2, <1>4, ConcatProperties, Zenon
<1>6. EndOfReceived(source)'
  <2>1. pos' - Len(source') = pos - l /\ Len(source') <= pos'
    BY <1>1, <1>2, <1>3, <1>5
  <2>2. ASSUME NEW i \in 1 .. l + n
        PROVE source'[i] = stream[(pos - l) + i]
    <3>1. CASE i <= l
      <4>1. i \in 1 .. l
        BY <1>2, <3>1
      <4>2. source'[i] = leftover[i]
        BY <1>5, <3>1
      <4>3. QED
        BY <1>3, <4>1, <4>2
    <3>2. CASE ~(i <= l)
      <4>1. i - l \in 1 .. n /\ (pos - l) + i = pos + (i - l)
        BY <1>2, <3>2
      <4>2. source'[i] = next[i - l]
        BY <1>5, <3>2
      <4>3. QED
        BY <1>4, <4>1, <4>2
    <3>3. QED
      BY <3>1, <3>2
  <2>3. QED
    BY <1>1, <1>5, <2>1, <2>2 DEF EndOfReceived
<1>7. Consumed' = Consumed
  BY <1>1, <1>2, <1>3, <1>5 DEF Consumed, Here
<1>8. TypeOK'
  <2>1. pos' \in 0 .. Len(stream') /\ offset' \in 0 .. Len(source')
    BY <1>1, <1>2, <1>5
  <2>2. QED
    BY <1>1, <1>5, <1>a, <2>1 DEF TypeOK
<1>9. Buffered'
  BY <1>1, <1>6 DEF Buffered
<1>10. QED
  BY <1>1, <1>7, <1>8, <1>9, OutputKept DEF SyncInv

\* What is left over is less than a frame and the end of what was received.
LEMMA SaveKeeps ==
  SyncInv /\ SaveLeftover => SyncInv'
<1> SUFFICES ASSUME SyncInv, SaveLeftover PROVE SyncInv'
  OBVIOUS
<1> DEFINE l == Len(source)
           rest == SubSeq(source, offset + 1, l)
<1>a. TypeOK /\ Buffered
  BY DEF SyncInv
<1>1. /\ pc = "decode" /\ ~(offset + FrameLen <= l) /\ leftover' = rest
      /\ source' = <<>> /\ offset' = 0 /\ pc' = "read"
      /\ UNCHANGED <<stream, pos, lastPcm, lost, pushed>>
  BY DEF SaveLeftover, MoreToDecode
<1>2. /\ offset \in 0 .. l /\ l \in Nat /\ pos \in Nat /\ offset \in Nat
      /\ source \in Seq(Nat \X Nat) /\ FrameLen \in Nat
  BY <1>a, FrameLenAssumption DEF TypeOK
<1>3. l <= pos /\ \A i \in 1 .. l : source[i] = stream[(pos - l) + i]
  BY <1>a, <1>1 DEF Buffered, EndOfReceived
<1>4. /\ rest \in Seq(Nat \X Nat) /\ Len(rest) = l - offset
      /\ \A i \in 1 .. l - offset : rest[i] = source[offset + i]
  <2>1. \A i \in offset + 1 .. l : source[i] \in Nat \X Nat
    BY <1>2
  <2>2. Len(rest) = l - offset
    BY <1>2
  <2>3. \A i \in 1 .. l - offset : rest[i] = source[offset + i]
    <3> TAKE i \in 1 .. l - offset
    <3>1. rest[i] = source[(offset + 1) + i - 1]
      BY <1>2
    <3>2. (offset + 1) + i - 1 = offset + i
      BY <1>2
    <3>3. QED
      BY <3>1, <3>2
  <2>4. rest \in Seq(Nat \X Nat)
    BY <1>2, <2>1
  <2>5. QED
    BY <2>2, <2>3, <2>4
<1> HIDE DEF rest
<1>5. EndOfReceived(leftover)'
  <2>1. pos - Len(rest) = (pos - l) + offset /\ Len(rest) <= pos
    BY <1>2, <1>3, <1>4
  <2>2. ASSUME NEW i \in 1 .. l - offset
        PROVE rest[i] = stream[((pos - l) + offset) + i]
    <3>1. offset + i \in 1 .. l /\ (pos - l) + (offset + i) = ((pos - l) + offset) + i
      BY <1>2
    <3>2. QED
      BY <1>3, <1>4, <3>1
  <2>3. QED
    BY <1>1, <1>4, <2>1, <2>2 DEF EndOfReceived
<1>6. Consumed' = Consumed
  BY <1>1, <1>2, <1>3, <1>4 DEF Consumed, Here
<1>7. TypeOK'
  <2>1. Len(leftover') < FrameLen
    BY <1>1, <1>2, <1>4
  <2>2. source' \in Seq(Nat \X Nat) /\ offset' \in 0 .. Len(source')
    BY <1>1
  <2>3. QED
    BY <1>1, <1>4, <1>a, <2>1, <2>2 DEF TypeOK
<1>8. Buffered'
  BY <1>1, <1>5 DEF Buffered
<1>9. QED
  BY <1>1, <1>6, <1>7, <1>8, OutputKept DEF SyncInv

\* The reader's buffers, output and concealment state stay together, for
\* every byte stream and every way the reads cut it.
THEOREM SyncInvHolds == Spec => []SyncInv
<1>1. Init => SyncInv
  <2> SUFFICES ASSUME Init PROVE SyncInv
    OBVIOUS
  <2>1. /\ stream \in Seq(Nat \X Nat) /\ pos = 0 /\ pc = "read"
        /\ source = <<>> /\ offset = 0 /\ leftover = <<>> /\ pushed = <<>>
        /\ lastPcm = [bytes |-> <<>>, shift |-> 0] /\ lost = 0
    BY StreamAssumption DEF Init
  <2>2. Len(pushed) = 0 /\ Len(leftover) = 0 /\ Len(stream) \in Nat
    BY <2>1
  <2>3. TypeOK
    BY <2>1, <2>2, FrameLenAssumption DEF TypeOK
  <2>4. Buffered
    BY <2>1, <2>2 DEF Buffered, EndOfReceived
  <2>5. Tiled /\ FadeOnlyDown
    BY <2>1, <2>2 DEF Tiled, FadeOnlyDown, Consumed
  <2>6. Genuine
    <3>1. 1 .. Len(pushed) = {}
      BY <2>2
    <3>2. QED
      BY <3>1, Zenon DEF Genuine
  <2>7. Concealment
    BY <2>1 DEF Concealment
  <2>8. QED
    BY <2>3, <2>4, <2>5, <2>6, <2>7 DEF SyncInv
<1>2. SyncInv /\ [Next]_vars => SyncInv'
  <2> SUFFICES ASSUME SyncInv, [Next]_vars PROVE SyncInv'
    OBVIOUS
  <2>1. CASE \E n \in 1 .. MaxRead : ReadBytes(n)
    BY <2>1, ReadKeeps
  <2>2. CASE \E n \in 1 .. Len(source) - offset : DecodeFrame(n)
    BY <2>2, DecodeKeeps
  <2>3. CASE ConcealAndResync
    BY <2>3, ConcealKeeps
  <2>4. CASE SaveLeftover
    BY <2>4, SaveKeeps
  <2>5. CASE StreamDone \/ UNCHANGED vars
    <3>1. UNCHANGED vars
      BY <2>5 DEF StreamDone
    <3>2. UNCHANGED <<stream, pos, pc, source, offset, leftover, lastPcm, lost, pushed>>
      BY <3>1 DEF vars
    <3>3. Consumed' = Consumed
      BY <3>2 DEF Consumed, Here
    <3>4. TypeOK' /\ Buffered'
      BY <3>2 DEF SyncInv, TypeOK, Buffered, EndOfReceived
    <3>5. QED
      BY <3>2, <3>3, <3>4, OutputKept DEF SyncInv
  <2>6. QED
    BY <2>1, <2>2, <2>3, <2>4, <2>5 DEF Next
<1>3. QED
  BY <1>1, <1>2, PTL DEF Spec

\* Concealment fades and never comes back before the next good frame, for
\* every plc_max.
THEOREM FadeOnlyDownHolds == Spec => []FadeOnlyDown
<1>1. SyncInv => FadeOnlyDown
  BY DEF SyncInv
<1>2. QED
  BY <1>1, SyncInvHolds, PTL

\* Between two reads every byte received belongs to exactly one frame pushed
\* or is left over.
THEOREM BytesConsumedOnceHolds == Spec => []BytesConsumedOnce
<1>1. SyncInv => BytesConsumedOnce
  <2> SUFFICES ASSUME SyncInv, pc = "read"
               PROVE /\ leftover = SubSeq(stream, (pos - Len(leftover)) + 1, pos)
                     /\ \A b \in 1 .. pos :
                           IF b > pos - Len(leftover)
                           THEN \A k \in 1 .. Len(pushed) : b \notin Bytes(pushed[k])
                           ELSE \E k \in 1 .. Len(pushed) : \A j \in 1 .. Len(pushed) :
                                   b \in Bytes(pushed[j]) <=> j = k
    BY DEF BytesConsumedOnce
  <2> DEFINE l == Len(leftover)
             c == pos - l
             m == Len(pushed)
             At(k) == pushed[k].at
             End(k) == pushed[k].at + Width(pushed[k])
  <2>1. /\ pos \in Nat /\ l \in Nat /\ l <= pos /\ m \in Nat
        /\ stream \in Seq(Nat \X Nat) /\ leftover \in Seq(Nat \X Nat)
        /\ pos <= Len(stream) /\ Len(stream) \in Nat
        /\ \A i \in 1 .. l : leftover[i] = stream[c + i]
    <3>1. TypeOK /\ EndOfReceived(leftover)
      BY DEF SyncInv, Buffered
    <3>2. /\ pos \in Nat /\ l \in Nat /\ pos <= Len(stream) /\ Len(stream) \in Nat
          /\ stream \in Seq(Nat \X Nat) /\ leftover \in Seq(Nat \X Nat)
      BY <3>1 DEF TypeOK
    <3>3. m \in Nat
      BY <3>1 DEF TypeOK
    <3>4. QED
      BY <3>1, <3>2, <3>3 DEF EndOfReceived
  <2>2. \A k \in 1 .. m : At(k) \in Nat /\ End(k) \in Nat
    <3>1. \A k \in 1 .. m : pushed[k] \in PcmFrames
      BY DEF SyncInv, TypeOK
    <3>2. \A k \in 1 .. m : Width(pushed[k]) \in Nat
      BY <3>1 DEF PcmFrames, Width
    <3>3. QED
      BY <3>1, <3>2 DEF PcmFrames
  <2>3. /\ \A k \in 1 .. m : End(k) <= c
        /\ \A j, k \in 1 .. m : j < k => End(j) <= At(k)
        /\ \A b \in 1 .. c : \E k \in 1 .. m : b \in At(k) + 1 .. End(k)
    BY DEF SyncInv, Tiled, Consumed, Bytes
  <2>4. \A b : \A k \in 1 .. m : b \in Bytes(pushed[k]) <=> b \in At(k) + 1 .. End(k)
    BY DEF Bytes
  <2>5. leftover = SubSeq(stream, c + 1, pos)
    <3> DEFINE s == SubSeq(stream, c + 1, pos)
    <3>1. c + 1 \in Int /\ pos \in Int /\ c \in Nat /\ c + l = pos
      BY <2>1
    <3>2. \A i \in c + 1 .. pos : stream[i] \in Nat \X Nat
      BY <2>1, <3>1
    <3>3. /\ s \in Seq(Nat \X Nat)
          /\ Len(s) = IF c + 1 <= pos THEN pos - (c + 1) + 1 ELSE 0
          /\ \A i \in 1 .. pos - (c + 1) + 1 : s[i] = stream[(c + 1) + i - 1]
      <4> HIDE DEF c
      <4>1. ASSUME NEW a \in Int, NEW e \in Int,
                   \A i \in a .. e : stream[i] \in Nat \X Nat
            PROVE /\ SubSeq(stream, a, e) \in Seq(Nat \X Nat)
                  /\ Len(SubSeq(stream, a, e)) = IF a <= e THEN e - a + 1 ELSE 0
                  /\ \A i \in 1 .. e - a + 1 :
                        SubSeq(stream, a, e)[i] = stream[a + i - 1]
        BY <4>1, SubSeqProperties
      <4>2. QED
        BY <3>1, <3>2, <4>1, Zenon
    <3> HIDE DEF s, c, l
    <3>4. Len(s) = l
      BY <2>1, <3>1, <3>3
    <3>5. ASSUME NEW i \in 1 .. l PROVE s[i] = leftover[i]
      <4>1. i \in 1 .. pos - (c + 1) + 1 /\ (c + 1) + i - 1 = c + i
        BY <2>1, <3>1
      <4>2. s[i] = stream[c + i]
        BY <3>3, <4>1
      <4>3. QED
        BY <2>1, <4>2
    <3>6. leftover = s
      <4>1. Len(s) = Len(leftover) /\ \A i \in 1 .. Len(s) : s[i] = leftover[i]
        BY <3>4, <3>5 DEF l
      <4>2. s = leftover
        BY <2>1, <3>3, <4>1, SeqEqual, Zenon
      <4>3. QED
        BY <4>2
    <3>7. QED
      BY <3>6 DEF s
  <2>6. c \in Nat
    BY <2>1
  <2> HIDE DEF l, c, m, At, End
  <2>7. ASSUME NEW b \in 1 .. pos, b > c, NEW k \in 1 .. m
        PROVE b \notin At(k) + 1 .. End(k)
    BY <2>1, <2>2, <2>3, <2>6, <2>7
  <2>8. ASSUME NEW b \in 1 .. pos, ~(b > c)
        PROVE \E k \in 1 .. m : \A j \in 1 .. m : b \in At(j) + 1 .. End(j) <=> j = k
    <3>1. b \in 1 .. c
      BY <2>1, <2>6, <2>8
    <3>2. PICK k \in 1 .. m : b \in At(k) + 1 .. End(k)
      BY <2>3, <3>1
    <3>3. ASSUME NEW j \in 1 .. m, b \in At(j) + 1 .. End(j) PROVE j = k
      <4>1. ~(j < k) /\ ~(k < j)
        BY <2>2, <2>3, <3>2, <3>3
      <4>2. QED
        BY <2>1, <4>1
    <3>4. QED
      BY <3>2, <3>3
  <2>9. ASSUME NEW b \in 1 .. pos
        PROVE IF b > c
              THEN \A k \in 1 .. m : b \notin Bytes(pushed[k])
              ELSE \E k \in 1 .. m : \A j \in 1 .. m :
                      b \in Bytes(pushed[j]) <=> j = k
    <3>1. CASE b > c
      BY <2>4, <2>7, <3>1, Zenon
    <3>2. CASE ~(b > c)
      <4>1. PICK k \in 1 .. m : \A j \in 1 .. m : b \in At(j) + 1 .. End(j) <=> j = k
        BY <2>8, <3>2, Zenon
      <4>2. \A j \in 1 .. m : b \in Bytes(pushed[j]) <=> j = k
        BY <2>4, <4>1, Zenon
      <4>3. QED
        BY <3>2, <4>2, Zenon
    <3>3. QED
      BY <3>1, <3>2, Zenon
  <2>10. QED
    BY <2>5, <2>9, Zenon DEF l, c, m
<1>2. QED
  BY <1>1, SyncInvHolds, PTL

\* Between two reads every frame that arrived whole has been decoded, unless
\* the decoder accepted bytes that reach into it at an earlier place where no
\* whole frame starts.
THEOREM IntactFramesDecodedHolds == Spec => []IntactFramesDecoded
<1>1. SyncInv => IntactFramesDecoded
  <2> DEFINE m == Len(pushed)
             c == pos - Len(leftover)
             Whole(k, o) == /\ pushed[k].at = o
                            /\ pushed[k].bytes = SubSeq(Received, o + 1, o + FrameLen)
             Into(k, o) == /\ pushed[k].at \notin IntactStarts
                           /\ pushed[k].at < o /\ o < pushed[k].at + Width(pushed[k])
  <2> SUFFICES ASSUME SyncInv, pc = "read"
               PROVE /\ \A o \in IntactStarts : \/ \E k \in DecodedFrames : Whole(k, o)
                                                \/ \E k \in DecodedFrames : Into(k, o)
                     /\ \A j, k \in DecodedFrames :
                           j < k => pushed[j].at < pushed[k].at
    BY Zenon DEF IntactFramesDecoded
  <2>1. /\ pos \in Nat /\ stream \in Seq(Nat \X Nat) /\ pos <= Len(stream)
        /\ Len(leftover) \in Nat /\ Len(leftover) < FrameLen
        /\ Len(leftover) <= pos /\ m \in Nat /\ FrameLen \in Nat \ {0}
    BY FrameLenAssumption DEF SyncInv, TypeOK, Buffered, EndOfReceived
  <2>2. /\ Len(Received) = pos /\ \A i \in 1 .. pos : Received[i] = stream[i]
        /\ Received \in Seq(Nat \X Nat)
    BY <2>1 DEF Received
  <2>3. \A k \in 1 .. m : /\ pushed[k].at \in Nat /\ Width(pushed[k]) \in Nat
                          /\ pushed[k].bytes \in Seq(Nat \X Nat)
    <3>1. \A k \in 1 .. m : pushed[k] \in PcmFrames
      BY DEF SyncInv, TypeOK
    <3>2. QED
      BY <3>1 DEF PcmFrames, Width
  <2>4. /\ \A k \in 1 .. m : pushed[k].at + Width(pushed[k]) <= c
        /\ \A j, k \in 1 .. m :
              j < k => pushed[j].at + Width(pushed[j]) <= pushed[k].at
        /\ \A b \in 1 .. c : \E k \in 1 .. m :
              b \in pushed[k].at + 1 .. pushed[k].at + Width(pushed[k])
    BY DEF SyncInv, Tiled, Consumed, Bytes
  <2>5. \A k \in 1 .. m :
           /\ pushed[k].kind = "decoded" => DecodedFrom(pushed[k])
           /\ FrameAt(stream, pushed[k].at) =>
                 pushed[k].kind = "decoded" /\ Len(pushed[k].bytes) = FrameLen
    BY Zenon DEF SyncInv, Genuine
  <2>6. c \in Nat /\ c <= pos /\ pos < c + FrameLen
    BY <2>1
  <2>7. ASSUME NEW o \in Nat, o + FrameLen <= pos
        PROVE FrameAt(Received, o) <=> FrameAt(stream, o)
    <3>1. o + FrameLen <= Len(Received) /\ o + FrameLen <= Len(stream)
      BY <2>1, <2>2, <2>7
    <3>2. \A i \in 0 .. FrameLen - 1 : Received[o + 1 + i] = stream[o + 1 + i]
      <4> TAKE i \in 0 .. FrameLen - 1
      <4>1. o + 1 + i \in 1 .. pos
        BY <2>1, <2>7
      <4>2. QED
        BY <2>2, <4>1
    <3>3. ASSUME NEW u \in Nat,
                 u + FrameLen <= Len(Received), u + FrameLen <= Len(stream),
                 \A i \in 0 .. FrameLen - 1 : Received[u + 1 + i] = stream[u + 1 + i]
          PROVE FrameAt(Received, u) <=> FrameAt(stream, u)
      BY <3>3, SameFrame, Zenon
    <3>4. QED
      BY <3>1, <3>2, <3>3, Zenon
  <2> HIDE DEF m, c, Whole, Into
  <2>8. ASSUME NEW o \in IntactStarts
        PROVE \/ \E k \in DecodedFrames : Whole(k, o)
              \/ \E k \in DecodedFrames : Into(k, o)
    <3>1. o \in 0 .. pos /\ FrameAt(Received, o)
      BY Zenon DEF IntactStarts
    <3>2. o + FrameLen <= pos
      BY <2>2, <3>1, Zenon DEF FrameAt
    <3>3. o \in Nat /\ o + 1 \in 1 .. c
      BY <2>1, <2>6, <3>1, <3>2
    <3>4. FrameAt(stream, o)
      BY <2>7, <3>1, <3>2, <3>3, Zenon
    <3>5. PICK k \in 1 .. m :
             o + 1 \in pushed[k].at + 1 .. pushed[k].at + Width(pushed[k])
      BY <2>4, <3>3
    <3>6. /\ pushed[k].at \in Nat /\ Width(pushed[k]) \in Nat
          /\ pushed[k].at <= o /\ o < pushed[k].at + Width(pushed[k])
      <4>1. pushed[k].at \in Nat /\ Width(pushed[k]) \in Nat
        BY <2>3
      <4>2. QED
        BY <3>3, <3>5, <4>1
    <3>7. CASE pushed[k].at = o
      <4>1. pushed[k].kind = "decoded" /\ Len(pushed[k].bytes) = FrameLen
        BY <2>5, <3>4, <3>7, Zenon
      <4>2. \A i \in 1 .. FrameLen : pushed[k].bytes[i] = stream[o + i]
        BY <2>5, <3>7, <4>1, Zenon DEF DecodedFrom
      <4>3. pushed[k].bytes = SubSeq(Received, o + 1, o + FrameLen)
        BY <2>1, <2>2, <2>3, <3>2, <3>3, <4>1, <4>2, WindowOfReceived, Zenon
      <4>4. k \in DecodedFrames /\ Whole(k, o)
        BY <3>7, <4>1, <4>3 DEF DecodedFrames, Whole, m
      <4>5. QED
        BY <4>4
    <3>8. CASE pushed[k].at # o
      <4>1. pushed[k].at < o
        BY <3>3, <3>6, <3>8
      <4>2. pushed[k].kind = "decoded"
        BY <3>3, <3>6, <4>1 DEF Width
      <4>3. pushed[k].at \notin IntactStarts
        <5>1. SUFFICES ASSUME pushed[k].at \in IntactStarts PROVE FALSE
          OBVIOUS
        <5>2. FrameAt(Received, pushed[k].at)
          BY <5>1, Zenon DEF IntactStarts
        <5>3. pushed[k].at + FrameLen <= pos
          BY <2>2, <5>2, Zenon DEF FrameAt
        <5>4. FrameAt(stream, pushed[k].at)
          BY <2>7, <3>6, <5>2, <5>3, Zenon
        <5>5. pushed[k].at + FrameLen <= o
          BY <3>3, <3>4, <3>6, <4>1, <5>4, FramesApart, Zenon
        <5>6. Width(pushed[k]) = FrameLen
          BY <2>5, <4>2, <5>4, Zenon DEF Width
        <5>7. QED
          BY <2>1, <3>3, <3>6, <5>5, <5>6
      <4>4. k \in DecodedFrames /\ Into(k, o)
        BY <3>6, <4>1, <4>2, <4>3 DEF DecodedFrames, Into, m
      <4>5. QED
        BY <4>4
    <3>9. QED
      BY <3>7, <3>8
  <2>9. ASSUME NEW j \in DecodedFrames, NEW k \in DecodedFrames, j < k
        PROVE pushed[j].at < pushed[k].at
    <3>1. j \in 1 .. m /\ k \in 1 .. m /\ pushed[j].kind = "decoded"
      BY DEF DecodedFrames, m
    <3>2. pushed[j].at + Width(pushed[j]) <= pushed[k].at
      BY <2>4, <2>9, <3>1
    <3>3. /\ pushed[j].at \in Nat /\ pushed[k].at \in Nat
          /\ pushed[j].bytes \in Seq(Nat \X Nat)
      BY <2>3, <3>1
    <3>4. pushed[j].bytes # <<>> /\ Width(pushed[j]) = Len(pushed[j].bytes)
      BY <2>5, <3>1, Zenon DEF DecodedFrom, Width
    <3>5. Width(pushed[j]) \in Nat \ {0}
      BY <3>3, <3>4
    <3>6. QED
      BY <3>2, <3>3, <3>5
  <2>10. QED
    BY <2>8, <2>9, Zenon
<1>2. QED
  BY <1>1, SyncInvHolds, PTL

=============================================================================
