-------------------------- MODULE FrameCodecProofs --------------------------
(***************************************************************************)
(* For any bytes, frames, buffer size and cuts: what is decoded is what    *)
(* was encoded, and a buffer overflows because of a long frame only.       *)
(*                                                                         *)
(* What is on its way between the two ends is a piece of one stream, the   *)
(* encoding of the frames, and each container (a chunk, the buffer, the    *)
(* network) is the slice that starts where the one before it ends.  The    *)
(* stream and the places where its frames end are quantified, not computed *)
(* by a recursive operator: a new frame makes both longer.                 *)
(***************************************************************************)
EXTENDS FrameCodec, TLAPS

Byte == Letter \cup {0}

(* t is what the stream holds behind its first a bytes.                    *)
Slice(t, stream, a) ==
    /\ a \in Nat /\ a + Len(t) <= Len(stream)
    /\ \A i \in 1..Len(t) : t[i] = stream[a + i]

(* The stream holds the frames, and frame i ends with byte bound[i].       *)
Coded(stream, bound, frames) ==
    /\ stream \in Seq(Byte) /\ frames \in Seq(Seq(Letter))
    /\ bound \in [0..Len(frames) -> Nat]
    /\ bound[0] = 0 /\ bound[Len(frames)] = Len(stream)
    /\ \A i \in 1..Len(frames) :
          /\ bound[i] = bound[i - 1] + Len(frames[i]) + 1
          /\ bound[i] <= Len(stream) /\ stream[bound[i]] = 0
          /\ \A k \in 1..Len(frames[i]) : stream[bound[i - 1] + k] = frames[i][k]

(* The pieces of q follow one another in the stream: piece i is behind     *)
(* byte at[i], and the last of these is where all of them end.             *)
Chain(q, stream, at) ==
    /\ at \in Seq(Nat) /\ Len(at) = Len(q) + 1
    /\ \A i \in 1..Len(q) : Slice(q[i], stream, at[i]) /\ at[i + 1] = at[i] + Len(q[i])

(* A queue of pieces without the first byte of the first one.              *)
DropByte(q) == IF Tail(q[1]) = <<>> THEN Tail(q) ELSE [q EXCEPT ![1] = Tail(q[1])]

-----------------------------------------------------------------------------
(* Slices.                                                                 *)
LEMMA EmptyLength ==
    ASSUME NEW S, NEW t \in Seq(S)
    PROVE  t = <<>> <=> Len(t) = 0
  OBVIOUS

LEMMA Concatenation ==
    ASSUME NEW u \in Seq(Byte), NEW w \in Seq(Byte)
    PROVE  /\ u \o w \in Seq(Byte) /\ Len(u \o w) = Len(u) + Len(w)
           /\ \A i \in 1..Len(u) : (u \o w)[i] = u[i]
           /\ \A i \in 1..Len(w) : (u \o w)[Len(u) + i] = w[i]
  OBVIOUS

LEMMA SliceTail ==
    ASSUME NEW stream \in Seq(Byte), NEW t \in Seq(Byte), NEW a, Slice(t, stream, a), t # <<>>
    PROVE  Slice(Tail(t), stream, a + 1) /\ Head(t) = stream[a + 1] /\ a + 1 <= Len(stream)
  BY DEF Slice

LEMMA SliceAppend ==
    ASSUME NEW stream \in Seq(Byte), NEW t \in Seq(Byte), NEW a, Slice(t, stream, a),
           a + Len(t) + 1 <= Len(stream)
    PROVE  Slice(Append(t, stream[a + Len(t) + 1]), stream, a)
<1> DEFINE u == Append(t, stream[a + Len(t) + 1])
<1>1. Len(u) = Len(t) + 1 /\ \A i \in 1..Len(t) : u[i] = t[i]
  OBVIOUS
<1>2. u[Len(t) + 1] = stream[a + (Len(t) + 1)]
  BY DEF Slice
<1>3. \A i \in 1..Len(u) : u[i] = stream[a + i]
  BY <1>1, <1>2 DEF Slice
<1> QED BY <1>1, <1>3 DEF Slice

LEMMA SliceCut ==
    ASSUME NEW stream \in Seq(Byte), NEW t \in Seq(Byte), NEW a, Slice(t, stream, a),
           NEW k \in 0..Len(t)
    PROVE  /\ Slice(SubSeq(t, 1, k), stream, a)
           /\ Slice(SubSeq(t, k + 1, Len(t)), stream, a + k)
<1> DEFINE front == SubSeq(t, 1, k)
           back  == SubSeq(t, k + 1, Len(t))
<1>1. Len(front) = k /\ \A i \in 1..k : front[i] = t[i]
  OBVIOUS
<1>2. Len(back) = Len(t) - k /\ \A i \in 1..Len(t) - k : back[i] = t[k + i]
  OBVIOUS
<1>3. Slice(front, stream, a)
  BY <1>1 DEF Slice
<1>4. a + k \in Nat /\ (a + k) + Len(back) <= Len(stream)
  <2>1. a \in Nat /\ a + Len(t) <= Len(stream) /\ Len(t) \in Nat /\ Len(stream) \in Nat /\ k \in Nat
    BY DEF Slice
  <2> HIDE DEF back
  <2> QED BY <1>2, <2>1
<1>5. ASSUME NEW i \in 1..Len(back) PROVE back[i] = stream[(a + k) + i]
  <2>1. back[i] = t[k + i] /\ k + i \in 1..Len(t)
    BY <1>2, SMTT(30)
  <2>2. t[k + i] = stream[a + (k + i)] /\ a + (k + i) = (a + k) + i
    BY <2>1 DEF Slice
  <2> QED BY <2>1, <2>2
<1> QED BY <1>3, <1>4, <1>5 DEF Slice

LEMMA SliceGrows ==
    ASSUME NEW stream \in Seq(Byte), NEW u \in Seq(Byte), NEW t \in Seq(Byte), NEW a,
           Slice(t, stream, a)
    PROVE  Slice(t, stream \o u, a)
  BY DEF Slice

LEMMA SliceEnd ==
    ASSUME NEW stream \in Seq(Byte), NEW u \in Seq(Byte)
    PROVE  Slice(u, stream \o u, Len(stream))
  BY DEF Slice

LEMMA SliceJoin ==
    ASSUME NEW stream \in Seq(Byte), NEW t \in Seq(Byte), NEW u \in Seq(Byte), NEW a,
           Slice(t, stream, a), Slice(u, stream, a + Len(t))
    PROVE  Slice(t \o u, stream, a)
<1>1. Len(t \o u) = Len(t) + Len(u)
  OBVIOUS
<1>2. ASSUME NEW i \in 1..Len(t \o u) PROVE (t \o u)[i] = stream[a + i]
  <2>1. CASE i <= Len(t)
    BY <2>1 DEF Slice
  <2>2. CASE i > Len(t)
    <3>1. (t \o u)[i] = u[i - Len(t)] /\ i - Len(t) \in 1..Len(u)
      BY <1>1, <2>2
    <3>2. u[i - Len(t)] = stream[(a + Len(t)) + (i - Len(t))]
      BY <3>1 DEF Slice
    <3>3. (a + Len(t)) + (i - Len(t)) = a + i
      BY DEF Slice
    <3> QED BY <3>1, <3>2, <3>3
  <2> QED BY <2>1, <2>2
<1> QED BY <1>1, <1>2 DEF Slice

LEMMA SliceNone ==
    ASSUME NEW stream \in Seq(Byte), NEW a \in 0..Len(stream)
    PROVE  Slice(<<>>, stream, a)
  BY DEF Slice

-----------------------------------------------------------------------------
(* Chains of slices.                                                       *)
LEMMA ChainGrows ==
    ASSUME NEW stream \in Seq(Byte), NEW u \in Seq(Byte), NEW q \in Seq(Seq(Byte)), NEW at,
           Chain(q, stream, at)
    PROVE  Chain(q, stream \o u, at)
<1>1. ASSUME NEW i \in 1..Len(q) PROVE Slice(q[i], stream \o u, at[i])
  <2>1. q[i] \in Seq(Byte) /\ Slice(q[i], stream, at[i])
    BY DEF Chain
  <2> QED BY <2>1, SliceGrows
<1> QED BY <1>1 DEF Chain

LEMMA ChainAppend ==
    ASSUME NEW stream \in Seq(Byte), NEW q \in Seq(Seq(Byte)), NEW at, NEW t \in Seq(Byte),
           Chain(q, stream, at), Slice(t, stream, at[Len(at)])
    PROVE  Chain(Append(q, t), stream, Append(at, at[Len(at)] + Len(t)))
<1> DEFINE r   == Append(q, t)
           new == Append(at, at[Len(at)] + Len(t))
<1>1. at \in Seq(Nat) /\ Len(at) = Len(q) + 1 /\ at[Len(at)] \in Nat
  BY DEF Chain
<1>2. new \in Seq(Nat) /\ Len(new) = Len(r) + 1
  BY <1>1
<1>3. \A i \in 1..Len(at) : new[i] = at[i]
  BY <1>1
<1>4. new[Len(at) + 1] = at[Len(at)] + Len(t)
  BY <1>1
<1>5. ASSUME NEW i \in 1..Len(r) PROVE Slice(r[i], stream, new[i]) /\ new[i + 1] = new[i] + Len(r[i])
  <2>1. CASE i = Len(r)
    BY <1>1, <1>3, <1>4, <2>1
  <2>2. CASE i # Len(r)
    <3>1. i \in 1..Len(q) /\ r[i] = q[i] /\ new[i] = at[i] /\ new[i + 1] = at[i + 1]
      BY <1>1, <1>3, <2>2
    <3> QED BY <3>1 DEF Chain
  <2> QED BY <2>1, <2>2
<1> QED BY <1>2, <1>5 DEF Chain

LEMMA ChainDrop ==
    ASSUME NEW stream \in Seq(Byte), NEW q \in Seq(Seq(Byte)), NEW at,
           Chain(q, stream, at), q # <<>>, q[1] # <<>>
    PROVE  /\ q[1][1] = stream[at[1] + 1] /\ at[1] + 1 <= Len(stream)
           /\ \E new : /\ Chain(DropByte(q), stream, new)
                       /\ new[1] = at[1] + 1 /\ new[Len(new)] = at[Len(at)]
<1>1. q[1] \in Seq(Byte) /\ Slice(q[1], stream, at[1]) /\ at[2] = at[1] + Len(q[1]) /\ at[1] \in Nat
  BY DEF Chain
<1>2. Slice(Tail(q[1]), stream, at[1] + 1) /\ q[1][1] = stream[at[1] + 1] /\ at[1] + 1 <= Len(stream)
  BY <1>1, SliceTail
<1>3. CASE Tail(q[1]) = <<>>
  <2>1. DropByte(q) = Tail(q) /\ Len(q[1]) = 1
    <3>1. Len(Tail(q[1])) = Len(q[1]) - 1 /\ Len(q[1]) \in Nat
      BY <1>1
    <3>2. Len(Tail(q[1])) = 0
      <4>1. Len(<<>>) = 0
        OBVIOUS
      <4> QED BY <1>3, <4>1, Zenon
    <3> QED BY <1>3, <3>1, <3>2 DEF DropByte
  <2>2. Chain(Tail(q), stream, Tail(at))
    BY SMTT(30) DEF Chain
  <2>3. Tail(at)[1] = at[1] + 1 /\ Tail(at)[Len(Tail(at))] = at[Len(at)]
    BY <1>1, <2>1 DEF Chain
  <2> QED BY <1>2, <2>1, <2>2, <2>3
<1>4. CASE Tail(q[1]) # <<>>
  <2> DEFINE r   == [q EXCEPT ![1] = Tail(q[1])]
             new == [at EXCEPT ![1] = at[1] + 1]
  <2>1. DropByte(q) = r
    BY <1>4 DEF DropByte
  <2>2. new \in Seq(Nat) /\ Len(new) = Len(r) + 1 /\ Len(r) = Len(q) /\ new[1] = at[1] + 1
    BY <1>1 DEF Chain
  <2>3. \A i \in 2..Len(at) : new[i] = at[i]
    BY DEF Chain
  <2>4. ASSUME NEW i \in 1..Len(r) PROVE Slice(r[i], stream, new[i]) /\ new[i + 1] = new[i] + Len(r[i])
    <3>1. CASE i = 1
      <4>1. r[1] = Tail(q[1]) /\ Len(Tail(q[1])) = Len(q[1]) - 1 /\ Len(q[1]) \in Nat
        BY <1>1
      <4>2. new[2] = at[2]
        BY <2>3 DEF Chain
      <4>3. at[2] = (at[1] + 1) + Len(Tail(q[1]))
        BY <1>1, <4>1
      <4> HIDE DEF r, new
      <4> QED BY <1>2, <2>2, <3>1, <4>1, <4>2, <4>3
    <3>2. CASE i # 1
      <4>1. r[i] = q[i] /\ new[i] = at[i] /\ new[i + 1] = at[i + 1] /\ i \in 1..Len(q)
        BY <2>2, <2>3, <3>2 DEF Chain
      <4> QED BY <4>1 DEF Chain
    <3> QED BY <3>1, <3>2
  <2>5. Chain(r, stream, new)
    BY <2>2, <2>4 DEF Chain
  <2>6. new[Len(new)] = at[Len(at)]
    BY <2>2, <2>3 DEF Chain
  <2> HIDE DEF new
  <2> QED BY <1>2, <2>1, <2>2, <2>5, <2>6
<1> QED BY <1>3, <1>4

LEMMA ChainNone ==
    ASSUME NEW stream \in Seq(Byte), NEW a \in Nat
    PROVE  Chain(<<>>, stream, <<a>>)
  BY DEF Chain

-----------------------------------------------------------------------------
(* The encoding of a list of frames.                                       *)
LEMMA CodedNone == Coded(<<>>, [i \in 0..0 |-> 0], <<>>)
  BY DEF Coded

LEMMA CodedAppend ==
    ASSUME NEW stream, NEW bound, NEW frames, NEW f \in Seq(Letter), Coded(stream, bound, frames)
    PROVE  \E new : /\ Coded(stream \o Encode(f), new, Append(frames, f))
                    /\ \A i \in 0..Len(frames) : new[i] = bound[i]
<1> DEFINE more == Append(frames, f)
           s    == stream \o Encode(f)
           new  == [i \in 0..Len(more) |-> IF i = Len(more) THEN Len(s) ELSE bound[i]]
<1>1. stream \in Seq(Byte) /\ frames \in Seq(Seq(Letter)) /\ bound \in [0..Len(frames) -> Nat]
  BY DEF Coded
<1>2. Encode(f) \in Seq(Byte) /\ Len(Encode(f)) = Len(f) + 1
  BY DEF Encode, Delimiter, Byte
<1>3. s \in Seq(Byte) /\ Len(s) = Len(stream) + Len(f) + 1
  <2>1. s \in Seq(Byte) /\ Len(s) = Len(stream) + Len(Encode(f))
    BY <1>1, <1>2, Concatenation
  <2> QED BY <1>1, <1>2, <2>1
<1>4. more \in Seq(Seq(Letter)) /\ Len(more) = Len(frames) + 1 /\ more[Len(frames) + 1] = f
  BY <1>1
<1>5. \A i \in 1..Len(frames) : more[i] = frames[i]
  BY <1>1
<1>6. \A i \in 1..Len(stream) : s[i] = stream[i]
  BY <1>1, <1>2, Concatenation
<1>7. (\A k \in 1..Len(f) : s[Len(stream) + k] = f[k]) /\ s[Len(stream) + Len(f) + 1] = 0
  <2>1. \A k \in 1..Len(f) : Encode(f)[k] = f[k]
    BY DEF Encode
  <2>2. Encode(f)[Len(f) + 1] = 0
    BY DEF Encode, Delimiter
  <2>3. \A k \in 1..Len(f) + 1 : s[Len(stream) + k] = Encode(f)[k]
    BY <1>1, <1>2, Concatenation
  <2>4. Len(f) \in Nat /\ Len(stream) \in Nat /\ Len(f) + 1 \in 1..Len(f) + 1
    BY <1>1
  <2>5. ASSUME NEW k \in 1..Len(f) PROVE s[Len(stream) + k] = f[k]
    <3>1. k \in 1..Len(f) + 1
      BY <2>4
    <3> HIDE DEF s
    <3> QED BY <2>1, <2>3, <3>1
  <2>6. s[Len(stream) + (Len(f) + 1)] = 0
    BY <2>2, <2>3, <2>4
  <2>7. Len(stream) + (Len(f) + 1) = Len(stream) + Len(f) + 1
    BY <2>4
  <2> HIDE DEF s
  <2> QED BY <2>5, <2>6, <2>7
<1>8. /\ new \in [0..Len(more) -> Nat]
      /\ \A i \in 0..Len(frames) : new[i] = bound[i]
      /\ new[Len(more)] = Len(s)
  BY <1>1, <1>3, <1>4
<1> HIDE DEF new, s, more
<1>9. ASSUME NEW i \in 1..Len(more)
      PROVE  /\ new[i] = new[i - 1] + Len(more[i]) + 1
             /\ new[i] <= Len(s) /\ s[new[i]] = 0
             /\ \A k \in 1..Len(more[i]) : s[new[i - 1] + k] = more[i][k]
  <2>1. CASE i = Len(more)
    <3>1. Len(frames) \in Nat /\ i = Len(frames) + 1 /\ i - 1 = Len(frames)
      BY <1>1, <1>4, <2>1
    <3>2. bound[Len(frames)] = Len(stream)
      BY DEF Coded
    <3>3. new[i] = Len(s) /\ more[i] = f /\ new[i - 1] = Len(stream)
      BY <1>4, <1>8, <2>1, <3>1, <3>2
    <3>4. Len(s) \in Nat
      BY <1>3
    <3> QED BY <1>3, <1>7, <3>3, <3>4
  <2>2. CASE i # Len(more)
    <3>1. i \in 1..Len(frames) /\ i - 1 \in 0..Len(frames) /\ i \in 0..Len(frames)
      BY <1>1, <1>4, <2>2
    <3>2. new[i] = bound[i] /\ new[i - 1] = bound[i - 1] /\ more[i] = frames[i] /\ frames[i] \in Seq(Letter)
      BY <1>1, <1>5, <1>8, <3>1
    <3>3. /\ bound[i] = bound[i - 1] + Len(frames[i]) + 1
          /\ bound[i] <= Len(stream) /\ stream[bound[i]] = 0
          /\ \A k \in 1..Len(frames[i]) : stream[bound[i - 1] + k] = frames[i][k]
      BY <3>1 DEF Coded
    <3>4. bound[i - 1] \in Nat /\ bound[i] \in Nat /\ Len(stream) \in Nat /\ Len(frames[i]) \in Nat
      <4>1. bound[i - 1] \in Nat /\ bound[i] \in Nat
        BY <1>1, <3>1
      <4> QED BY <1>1, <3>2, <4>1
    <3>5. \A k \in 1..Len(frames[i]) : bound[i - 1] + k \in 1..Len(stream)
      BY <3>3, <3>4
    <3>6. bound[i] \in 1..Len(stream)
      BY <3>3, <3>4
    <3>7. bound[i] <= Len(s)
      BY <1>2, <1>3, <3>3, <3>4
    <3>8. s[bound[i]] = 0 /\ \A k \in 1..Len(frames[i]) : s[bound[i - 1] + k] = frames[i][k]
      BY <1>6, <3>3, <3>5, <3>6
    <3> QED BY <3>2, <3>3, <3>7, <3>8
  <2> QED BY <2>1, <2>2
<1>10. new[0] = 0
  BY <1>8, <1>1 DEF Coded
<1> QED BY <1>3, <1>4, <1>8, <1>9, <1>10 DEF Coded, s, more

(* What the byte behind a piece of a frame is.  The piece is no longer     *)
(* than the frame, for the delimiter would be in it; so the next byte is   *)
(* the delimiter exactly when the piece is the whole frame.                *)
LEMMA NextByte ==
    ASSUME NEW stream, NEW bound, NEW frames, Coded(stream, bound, frames),
           NEW j \in 0..Len(frames), NEW t \in Seq(Letter),
           Slice(t, stream, bound[j]), bound[j] + Len(t) + 1 <= Len(stream)
    PROVE  /\ j + 1 \in 1..Len(frames) /\ Len(t) <= Len(frames[j + 1])
           /\ stream[bound[j] + Len(t) + 1] \in Byte
           /\ stream[bound[j] + Len(t) + 1] = 0 =>
                 frames[j + 1] = t /\ bound[j + 1] = bound[j] + Len(t) + 1
           /\ stream[bound[j] + Len(t) + 1] # 0 => Len(t) < Len(frames[j + 1])
<1>1. stream \in Seq(Byte) /\ frames \in Seq(Seq(Letter)) /\ bound \in [0..Len(frames) -> Nat]
  BY DEF Coded
<1>2. bound[j] \in Nat /\ Len(t) \in Nat /\ Len(stream) \in Nat /\ Len(frames) \in Nat
  <2>1. bound[j] \in Nat
    BY <1>1
  <2> QED BY <1>1, <2>1
<1>3. j # Len(frames)
  BY <1>2 DEF Coded
<1>4. j + 1 \in 1..Len(frames) /\ (j + 1) - 1 = j
  BY <1>2, <1>3
<1> DEFINE f == frames[j + 1]
<1>5. f \in Seq(Letter) /\ Len(f) \in Nat
  BY <1>1, <1>4
<1>6. /\ bound[j + 1] = bound[j] + Len(f) + 1 /\ stream[bound[j + 1]] = 0
      /\ \A k \in 1..Len(f) : stream[bound[j] + k] = f[k]
  BY <1>4 DEF Coded
<1>7. Len(t) <= Len(f)
  <2> SUFFICES ASSUME Len(t) > Len(f) PROVE FALSE
    BY <1>2, <1>5
  <2>1. Len(f) + 1 \in 1..Len(t)
    BY <1>2, <1>5
  <2>2. t[Len(f) + 1] = stream[bound[j] + (Len(f) + 1)]
    BY <2>1 DEF Slice
  <2>3. bound[j] + (Len(f) + 1) = bound[j + 1]
    <3>1. bound[j + 1] = bound[j] + Len(f) + 1
      BY <1>6
    <3> HIDE DEF f
    <3> QED BY <1>2, <1>5, <3>1, SMTT(30)
  <2>4. t[Len(f) + 1] \in Letter
    BY <2>1
  <2> QED BY <1>6, <2>2, <2>3, <2>4, CodecAssumption
<1>8. CASE Len(t) < Len(f)
  <2>1. Len(t) + 1 \in 1..Len(f)
    BY <1>2, <1>5, <1>8
  <2>2. stream[bound[j] + (Len(t) + 1)] = f[Len(t) + 1] /\ f[Len(t) + 1] \in Letter
    BY <1>5, <1>6, <2>1
  <2>3. bound[j] + (Len(t) + 1) = bound[j] + Len(t) + 1
    BY <1>2
  <2> QED BY <1>4, <1>7, <1>8, <2>2, <2>3, CodecAssumption DEF Byte
<1>9. CASE Len(t) = Len(f)
  <2>1. bound[j + 1] = bound[j] + Len(t) + 1
    BY <1>6, <1>9
  <2>2. \A i \in 1..Len(t) : t[i] = f[i]
    BY <1>6, <1>9 DEF Slice
  <2>3. t = f
    BY <1>5, <1>9, <2>2
  <2> QED BY <1>4, <1>6, <1>7, <2>1, <2>3 DEF Byte
<1> QED BY <1>2, <1>5, <1>7, <1>8, <1>9

-----------------------------------------------------------------------------
(***************************************************************************)
(* One direction of the connection: of the frames, those that are done,    *)
(* then a piece of the next one in a buffer, then the pieces of q, then    *)
(* the bytes of net, which end behind byte e of the stream.                *)
(***************************************************************************)
Piped(stream, bound, at, e, frames, done, buffer, q, net) ==
    /\ Coded(stream, bound, frames)
    /\ Len(done) <= Len(frames) /\ \A i \in 1..Len(done) : done[i] = frames[i]
    /\ Slice(buffer, stream, bound[Len(done)])
    /\ Chain(q, stream, at) /\ at[1] = bound[Len(done)] + Len(buffer)
    /\ Slice(net, stream, at[Len(at)]) /\ e = at[Len(at)] + Len(net)

(* Types of the parts of such a direction.                                 *)
PipeTypes(done, buffer, q, net) ==
    /\ done \in Seq(Seq(Letter)) /\ buffer \in Seq(Letter)
    /\ q \in Seq(Seq(Byte)) /\ \A i \in 1..Len(q) : q[i] # <<>>
    /\ net \in Seq(Byte)

LEMMA PipedTypes ==
    ASSUME NEW stream, NEW bound, NEW at, NEW e, NEW frames, NEW done, NEW buffer, NEW q, NEW net,
           PipeTypes(done, buffer, q, net),
           Piped(stream, bound, at, e, frames, done, buffer, q, net)
    PROVE  /\ stream \in Seq(Byte) /\ at[Len(at)] \in Nat /\ Len(at) \in Nat \ {0}
           /\ e \in Nat /\ e <= Len(stream) /\ Len(done) \in 0..Len(frames)
           /\ bound[Len(done)] \in Nat /\ frames \in Seq(Seq(Letter))
<1>1. stream \in Seq(Byte) /\ frames \in Seq(Seq(Letter)) /\ bound \in [0..Len(frames) -> Nat]
  BY DEF Piped, Coded
<1>2. Len(done) \in 0..Len(frames)
  BY <1>1 DEF Piped, PipeTypes
<1>3. at \in Seq(Nat) /\ Len(at) = Len(q) + 1 /\ Len(q) \in Nat
  BY DEF Piped, Chain, PipeTypes
<1>4. at[Len(at)] \in Nat /\ Len(at) \in Nat \ {0}
  BY <1>3
<1>5. Len(net) \in Nat
  BY DEF PipeTypes
<1>6. e \in Nat /\ e <= Len(stream)
  BY <1>4, <1>5 DEF Piped, Slice
<1> QED BY <1>1, <1>2, <1>4, <1>6

(* A direction in which nothing was sent.                                  *)
LEMMA PipedNone ==
    \E bound : Piped(<<>>, bound, <<0>>, 0, <<>>, <<>>, <<>>, <<>>, <<>>)
<1> DEFINE bound == [i \in 0..0 |-> 0]
<1>1. Coded(<<>>, bound, <<>>) /\ bound[0] = 0
  BY CodedNone
<1>2. <<>> \in Seq(Byte) /\ Len(<<>>) = 0
  OBVIOUS
<1>3. Slice(<<>>, <<>>, 0)
  BY DEF Slice
<1>4. Chain(<<>>, <<>>, <<0>>)
  BY <1>2, ChainNone
<1> HIDE DEF bound
<1>5. Piped(<<>>, bound, <<0>>, 0, <<>>, <<>>, <<>>, <<>>, <<>>)
  BY <1>1, <1>2, <1>3, <1>4 DEF Piped
<1> QED BY <1>5

(* One more frame: nothing moves.                                          *)
LEMMA PipedGrows ==
    ASSUME NEW stream, NEW bound, NEW at, NEW e, NEW frames, NEW done, NEW buffer, NEW q, NEW net,
           PipeTypes(done, buffer, q, net),
           Piped(stream, bound, at, e, frames, done, buffer, q, net),
           NEW f \in Seq(Letter)
    PROVE  \E new : Piped(stream \o Encode(f), new, at, e, Append(frames, f), done, buffer, q, net)
<1>1. PICK new : /\ Coded(stream \o Encode(f), new, Append(frames, f))
                 /\ \A i \in 0..Len(frames) : new[i] = bound[i]
  BY CodedAppend DEF Piped
<1>2. stream \in Seq(Byte) /\ Len(done) \in 0..Len(frames) /\ frames \in Seq(Seq(Letter))
  BY PipedTypes
<1>3. Encode(f) \in Seq(Byte)
  BY DEF Encode, Delimiter, Byte
<1>4. new[Len(done)] = bound[Len(done)]
  BY <1>1, <1>2
<1>5. buffer \in Seq(Byte) /\ q \in Seq(Seq(Byte)) /\ net \in Seq(Byte)
  BY DEF PipeTypes, Byte
<1>6. Slice(buffer, stream \o Encode(f), new[Len(done)])
  BY <1>2, <1>3, <1>4, <1>5, SliceGrows DEF Piped
<1>7. Chain(q, stream \o Encode(f), at)
  BY <1>2, <1>3, <1>5, ChainGrows DEF Piped
<1>8. Slice(net, stream \o Encode(f), at[Len(at)])
  BY <1>2, <1>3, <1>5, SliceGrows DEF Piped
<1>9. Len(done) <= Len(Append(frames, f)) /\ \A i \in 1..Len(done) : done[i] = Append(frames, f)[i]
  BY <1>2 DEF Piped
<1> QED BY <1>1, <1>4, <1>6, <1>7, <1>8, <1>9 DEF Piped

(* More bytes on the network.                                              *)
LEMMA PipedJoin ==
    ASSUME NEW stream, NEW bound, NEW at, NEW e, NEW frames, NEW done, NEW buffer, NEW q, NEW net,
           PipeTypes(done, buffer, q, net),
           Piped(stream, bound, at, e, frames, done, buffer, q, net),
           NEW u \in Seq(Byte), Slice(u, stream, e)
    PROVE  Piped(stream, bound, at, e + Len(u), frames, done, buffer, q, net \o u)
<1>1. stream \in Seq(Byte) /\ net \in Seq(Byte) /\ at[Len(at)] \in Nat
  BY PipedTypes DEF PipeTypes
<1>2. Slice(net, stream, at[Len(at)]) /\ e = at[Len(at)] + Len(net)
  BY DEF Piped
<1>3. Slice(net \o u, stream, at[Len(at)])
  BY <1>1, <1>2, SliceJoin
<1>4. e + Len(u) = at[Len(at)] + Len(net \o u)
  <2>1. Len(net \o u) = Len(net) + Len(u) /\ Len(net) \in Nat /\ Len(u) \in Nat
    BY <1>1
  <2> QED BY <1>1, <1>2, <2>1
<1> QED BY <1>3, <1>4 DEF Piped

LEMMA PipedByte ==
    ASSUME NEW stream, NEW bound, NEW at, NEW e, NEW frames, NEW done, NEW buffer, NEW q, NEW net,
           PipeTypes(done, buffer, q, net),
           Piped(stream, bound, at, e, frames, done, buffer, q, net),
           e + 1 <= Len(stream)
    PROVE  Piped(stream, bound, at, e + 1, frames, done, buffer, q, Append(net, stream[e + 1]))
<1>1. stream \in Seq(Byte) /\ e \in Nat /\ net \in Seq(Byte)
  BY PipedTypes DEF PipeTypes
<1> DEFINE u == <<stream[e + 1]>>
<1>2. u \in Seq(Byte) /\ Len(u) = 1
  BY <1>1
<1>3. Slice(u, stream, e)
  BY <1>1 DEF Slice
<1>4. net \o u = Append(net, stream[e + 1])
  BY <1>1, <1>2
<1>5. Piped(stream, bound, at, e + Len(u), frames, done, buffer, q, net \o u)
  BY <1>2, <1>3, PipedJoin
<1> QED BY <1>2, <1>4, <1>5

(* The bytes from some place on are lost.                                  *)
LEMMA PipedCut ==
    ASSUME NEW stream, NEW bound, NEW at, NEW e, NEW frames, NEW done, NEW buffer, NEW q, NEW net,
           PipeTypes(done, buffer, q, net),
           Piped(stream, bound, at, e, frames, done, buffer, q, net),
           NEW k \in 0..Len(net)
    PROVE  Piped(stream, bound, at, at[Len(at)] + k, frames, done, buffer, q, SubSeq(net, 1, k))
<1>1. stream \in Seq(Byte) /\ net \in Seq(Byte) /\ at[Len(at)] \in Nat
  BY PipedTypes DEF PipeTypes
<1>2. Slice(SubSeq(net, 1, k), stream, at[Len(at)])
  BY <1>1, SliceCut DEF Piped
<1>3. Len(SubSeq(net, 1, k)) = k
  BY <1>1
<1> QED BY <1>2, <1>3 DEF Piped

(* The first k bytes become a piece of their own.                          *)
LEMMA PipedLoad ==
    ASSUME NEW stream, NEW bound, NEW at, NEW e, NEW frames, NEW done, NEW buffer, NEW q, NEW net,
           PipeTypes(done, buffer, q, net),
           Piped(stream, bound, at, e, frames, done, buffer, q, net),
           NEW k \in 1..Len(net)
    PROVE  /\ \E new : Piped(stream, bound, new, e, frames, done, buffer,
                             Append(q, SubSeq(net, 1, k)), SubSeq(net, k + 1, Len(net)))
           /\ PipeTypes(done, buffer, Append(q, SubSeq(net, 1, k)), SubSeq(net, k + 1, Len(net)))
<1> DEFINE t    == SubSeq(net, 1, k)
           rest == SubSeq(net, k + 1, Len(net))
           new  == Append(at, at[Len(at)] + Len(t))
<1>1. /\ stream \in Seq(Byte) /\ net \in Seq(Byte) /\ at[Len(at)] \in Nat
      /\ q \in Seq(Seq(Byte)) /\ \A i \in 1..Len(q) : q[i] # <<>>
  BY PipedTypes DEF PipeTypes
<1>2. t \in Seq(Byte) /\ Len(t) = k /\ t # <<>>
  <2>1. t \in Seq(Byte) /\ Len(t) = k /\ Len(<<>>) = 0 /\ k # 0
    BY <1>1
  <2> QED BY <2>1, Zenon
<1>3. rest \in Seq(Byte) /\ Len(rest) = Len(net) - k
  BY <1>1
<1>4. Slice(t, stream, at[Len(at)]) /\ Slice(rest, stream, at[Len(at)] + k)
  BY <1>1, SliceCut DEF Piped
<1> HIDE DEF t, rest
<1>5. Chain(Append(q, t), stream, new)
  BY <1>1, <1>2, <1>4, ChainAppend DEF Piped
<1>6. at \in Seq(Nat) /\ Len(at) = Len(q) + 1 /\ Len(q) \in Nat
  BY <1>1 DEF Piped, Chain
<1>7. new[1] = at[1] /\ new[Len(new)] = at[Len(at)] + k
  BY <1>1, <1>2, <1>6
<1>8. e = new[Len(new)] + Len(rest)
  <2>1. e = at[Len(at)] + Len(net) /\ Len(net) \in Nat
    BY <1>1 DEF Piped
  <2> QED BY <1>1, <1>3, <1>7, <2>1
<1> HIDE DEF new
<1>9. Piped(stream, bound, new, e, frames, done, buffer, Append(q, t), rest)
  BY <1>4, <1>5, <1>7, <1>8 DEF Piped
<1>10. PipeTypes(done, buffer, Append(q, t), rest)
  <2>1. Append(q, t) \in Seq(Seq(Byte))
    BY <1>1, <1>2
  <2>2. \A i \in 1..Len(Append(q, t)) : Append(q, t)[i] # <<>>
    BY <1>1, <1>2
  <2> QED BY <1>3, <2>1, <2>2 DEF PipeTypes
<1> QED BY <1>9, <1>10 DEF t, rest

(* The first byte of the first piece is decoded.                           *)
LEMMA PipedTake ==
    ASSUME NEW stream, NEW bound, NEW at, NEW e, NEW frames, NEW done, NEW buffer, NEW q, NEW net,
           PipeTypes(done, buffer, q, net),
           Piped(stream, bound, at, e, frames, done, buffer, q, net),
           q # <<>>
    PROVE  /\ q[1][1] \in Byte
           /\ q[1][1] = 0 => \E new : Piped(stream, bound, new, e, frames,
                                           Append(done, buffer), <<>>, DropByte(q), net)
           /\ q[1][1] # 0 => /\ \E new : Piped(stream, bound, new, e, frames,
                                               done, Append(buffer, q[1][1]), DropByte(q), net)
                            /\ Len(done) + 1 \in 1..Len(frames)
                            /\ Len(buffer) < Len(frames[Len(done) + 1])
<1> DEFINE b == q[1][1]
           j == Len(done)
<1>0. b = q[1][1] /\ j = Len(done)
  OBVIOUS
<1>1. /\ stream \in Seq(Byte) /\ q \in Seq(Seq(Byte)) /\ buffer \in Seq(Letter) /\ j \in 0..Len(frames)
      /\ done \in Seq(Seq(Letter)) /\ frames \in Seq(Seq(Letter)) /\ bound[j] \in Nat
      /\ q[1] # <<>> /\ buffer \in Seq(Byte) /\ Len(buffer) \in Nat /\ Len(frames) \in Nat
  <2>1. stream \in Seq(Byte) /\ j \in 0..Len(frames) /\ frames \in Seq(Seq(Letter)) /\ bound[j] \in Nat
    BY PipedTypes
  <2>2. q \in Seq(Seq(Byte)) /\ done \in Seq(Seq(Letter)) /\ buffer \in Seq(Letter)
    BY DEF PipeTypes
  <2>3. q[1] # <<>>
    BY <2>2 DEF PipeTypes
  <2>4. buffer \in Seq(Byte) /\ Len(buffer) \in Nat
    BY <2>2 DEF Byte
  <2>5. Len(frames) \in Nat
    BY <2>1
  <2> QED BY <2>1, <2>2, <2>3, <2>4, <2>5
<1> HIDE DEF b, j
<1>2. Chain(q, stream, at) /\ at[1] = bound[j] + Len(buffer) /\ Coded(stream, bound, frames)
  BY <1>0 DEF Piped
<1>3. PICK new : /\ b = stream[at[1] + 1] /\ at[1] + 1 <= Len(stream)
                 /\ Chain(DropByte(q), stream, new)
                 /\ new[1] = at[1] + 1 /\ new[Len(new)] = at[Len(at)]
  <2>1. /\ q[1][1] = stream[at[1] + 1] /\ at[1] + 1 <= Len(stream)
        /\ \E new : /\ Chain(DropByte(q), stream, new)
                    /\ new[1] = at[1] + 1 /\ new[Len(new)] = at[Len(at)]
    BY <1>1, <1>2, ChainDrop, SMTT(30)
  <2> QED BY <1>0, <2>1
<1>4. bound[j] + Len(buffer) + 1 = at[1] + 1
  BY <1>2
<1>5. Slice(buffer, stream, bound[j])
  BY <1>0 DEF Piped
<1>6. /\ j + 1 \in 1..Len(frames) /\ b \in Byte
      /\ b = 0 => frames[j + 1] = buffer /\ bound[j + 1] = at[1] + 1
      /\ b # 0 => Len(buffer) < Len(frames[j + 1])
  <2>1. bound[j] + Len(buffer) + 1 <= Len(stream)
    BY <1>3, <1>4
  <2>2. stream[bound[j] + Len(buffer) + 1] = b
    BY <1>3, <1>4
  <2>3. /\ j + 1 \in 1..Len(frames)
        /\ stream[bound[j] + Len(buffer) + 1] \in Byte
        /\ stream[bound[j] + Len(buffer) + 1] = 0 =>
              frames[j + 1] = buffer /\ bound[j + 1] = bound[j] + Len(buffer) + 1
        /\ stream[bound[j] + Len(buffer) + 1] # 0 => Len(buffer) < Len(frames[j + 1])
    BY <1>1, <1>2, <1>5, <2>1, NextByte
  <2> QED BY <1>4, <2>2, <2>3
<1>7. ASSUME b = 0 PROVE Piped(stream, bound, new, e, frames, Append(done, buffer), <<>>, DropByte(q), net)
  <2>1. Len(Append(done, buffer)) = j + 1 /\ \A i \in 1..j : Append(done, buffer)[i] = done[i]
    BY <1>0, <1>1
  <2>2. Append(done, buffer)[j + 1] = buffer
    BY <1>0, <1>1
  <2>3. ASSUME NEW i \in 1..Len(Append(done, buffer)) PROVE Append(done, buffer)[i] = frames[i]
    <3>1. CASE i = j + 1
      BY <1>6, <1>7, <2>2, <3>1
    <3>2. CASE i # j + 1
      <4>1. i \in 1..j
        <5>1. j \in Nat /\ i \in 1..j + 1
          BY <1>1, <2>1
        <5> QED BY <3>2, <5>1
      <4> QED BY <1>0, <2>1, <4>1 DEF Piped
    <3> QED BY <3>1, <3>2
  <2>4. Slice(<<>>, stream, bound[j + 1]) /\ Len(<<>>) = 0
    <3>1. at[1] + 1 \in 0..Len(stream)
      BY <1>1, <1>2, <1>3, SMTT(30)
    <3> QED BY <1>1, <1>6, <1>7, <3>1, SliceNone
  <2>5. new[1] = bound[j + 1] + 0
    <3>1. at[1] + 1 \in Nat
      BY <1>1, <1>2
    <3> QED BY <1>3, <1>6, <1>7, <3>1
  <2>6. j + 1 <= Len(frames)
    BY <1>1, <1>6
  <2>7. Slice(net, stream, new[Len(new)]) /\ e = new[Len(new)] + Len(net)
    BY <1>3 DEF Piped
  <2> QED BY <1>2, <1>3, <2>1, <2>3, <2>4, <2>5, <2>6, <2>7 DEF Piped
<1>8. ASSUME b # 0 PROVE Piped(stream, bound, new, e, frames, done, Append(buffer, b), DropByte(q), net)
  <2>1. Slice(Append(buffer, b), stream, bound[j])
    BY <1>1, <1>3, <1>4, <1>5, SliceAppend
  <2>2. new[1] = bound[j] + Len(Append(buffer, b))
    <3>1. Len(Append(buffer, b)) = Len(buffer) + 1
      BY <1>1
    <3>2. new[1] = (bound[j] + Len(buffer)) + 1
      BY <1>2, <1>3
    <3> QED BY <1>1, <3>1, <3>2
  <2>3. Slice(net, stream, new[Len(new)]) /\ e = new[Len(new)] + Len(net)
    BY <1>3 DEF Piped
  <2> QED BY <1>0, <1>3, <2>1, <2>2, <2>3 DEF Piped
<1> QED BY <1>0, <1>6, <1>7, <1>8

(* The first byte of the network is decoded; there are no pieces.          *)
LEMMA PipedRead ==
    ASSUME NEW stream, NEW bound, NEW at, NEW e, NEW frames, NEW done, NEW buffer, NEW net,
           PipeTypes(done, buffer, <<>>, net),
           Piped(stream, bound, at, e, frames, done, buffer, <<>>, net),
           net # <<>>
    PROVE  /\ Head(net) \in Byte
           /\ Head(net) = 0 => \E new : Piped(stream, bound, new, e, frames,
                                             Append(done, buffer), <<>>, <<>>, Tail(net))
           /\ Head(net) # 0 => /\ \E new : Piped(stream, bound, new, e, frames,
                                                 done, Append(buffer, Head(net)), <<>>, Tail(net))
                              /\ Len(done) + 1 \in 1..Len(frames)
                              /\ Len(buffer) < Len(frames[Len(done) + 1])
<1>1. net \in Seq(Byte) /\ 1 \in 1..Len(net)
  BY DEF PipeTypes
<1> DEFINE q == Append(<<>>, SubSeq(net, 1, 1))
<1>2. SubSeq(net, 1 + 1, Len(net)) = Tail(net)
  BY <1>1
<1>3. q[1][1] = Head(net) /\ q # <<>> /\ Len(q) = 1 /\ Len(q[1]) = 1
  BY <1>1
<1>4. DropByte(q) = <<>>
  <2>1. Tail(q[1]) = <<>> /\ Tail(q) = <<>>
    BY <1>1, <1>3
  <2> QED BY <2>1 DEF DropByte
<1>5. PICK new : Piped(stream, bound, new, e, frames, done, buffer, q, Tail(net))
  BY <1>1, <1>2, PipedLoad
<1>6. PipeTypes(done, buffer, q, Tail(net))
  BY <1>1, <1>2, PipedLoad
<1> HIDE DEF q
<1> QED BY <1>3, <1>4, <1>5, <1>6, PipedTake

-----------------------------------------------------------------------------
(* The invariant.                                                          *)
TypesOK ==
    /\ mode \in {"blocking", "reactor"}
    /\ writing \in Seq(Byte) /\ toServer \in Seq(Byte) /\ toClient \in Seq(Byte)
    /\ byteBuffer \in Seq(Letter) /\ Len(byteBuffer) <= Capacity /\ frame \in Seq(Letter)
    /\ tasks \in Seq(Seq(Byte)) /\ \A i \in 1..Len(tasks) : tasks[i] # <<>>
    /\ writeQueue \in Seq(Seq(Byte))
    /\ \A i \in 1..Len(writeQueue) : writeQueue[i] # <<>> /\ Last(writeQueue[i]) = Delimiter
    /\ mode = "blocking" => tasks = <<>> /\ writeQueue = <<>>
    /\ serverOpen \in BOOLEAN /\ clientOpen \in BOOLEAN
    /\ listening \in BOOLEAN /\ overflowed \in BOOLEAN
    /\ sent \in Seq(Seq(Letter)) /\ processed \in Seq(Seq(Letter)) /\ received \in Seq(Seq(Letter))

CloseOK ==
    /\ ~serverOpen => toServer = <<>> /\ writeQueue = <<>>
    /\ ~clientOpen => writing = <<>>

(* From the client: while both ends are open nothing of it is lost.        *)
StreamOK ==
    mode = "blocking" \/ ~overflowed =>
        \E stream, bound, at, e :
            /\ Piped(stream, bound, at, e, sent, processed, byteBuffer, tasks, toServer)
            /\ serverOpen /\ clientOpen =>
                  Slice(writing, stream, e) /\ e + Len(writing) = Len(stream)

(* The answers: of the frames processed, those the client has read ...     *)
ReceivedOK ==
    Len(received) <= Len(processed) /\ \A i \in 1..Len(received) : received[i] = processed[i]

(* ... and, as long as it listens, what it will read next.                 *)
AnswerOK ==
    listening =>
        \E stream, bound, at, e :
            /\ Piped(stream, bound, at, e, processed, received, frame, <<>>, toClient)
            /\ serverOpen /\ clientOpen =>
                  \E line : /\ Chain(writeQueue, stream, line)
                           /\ line[1] = e /\ line[Len(line)] = Len(stream)

IInv == TypesOK /\ CloseOK /\ StreamOK /\ ReceivedOK /\ AnswerOK /\ OnlyLongOverflow

-----------------------------------------------------------------------------
LEMMA Types ==
    ASSUME TypesOK
    PROVE  /\ writing \in Seq(Byte) /\ toServer \in Seq(Byte) /\ toClient \in Seq(Byte)
           /\ byteBuffer \in Seq(Letter) /\ frame \in Seq(Letter)
           /\ PipeTypes(processed, byteBuffer, tasks, toServer)
           /\ PipeTypes(received, frame, <<>>, toClient)
           /\ \A i \in 1..Len(writeQueue) : writeQueue[i] # <<>>
<1>1. /\ writing \in Seq(Byte) /\ toServer \in Seq(Byte) /\ toClient \in Seq(Byte)
      /\ byteBuffer \in Seq(Letter) /\ frame \in Seq(Letter)
  BY DEF TypesOK
<1>2. PipeTypes(processed, byteBuffer, tasks, toServer)
  BY <1>1 DEF TypesOK, PipeTypes
<1>3. PipeTypes(received, frame, <<>>, toClient)
  BY <1>1 DEF TypesOK, PipeTypes
<1>4. \A i \in 1..Len(writeQueue) : writeQueue[i] # <<>>
  BY DEF TypesOK
<1> QED BY <1>1, <1>2, <1>3, <1>4

LEMMA DropTypes ==
    ASSUME NEW q \in Seq(Seq(Byte)), q # <<>>, \A i \in 1..Len(q) : q[i] # <<>>
    PROVE  /\ DropByte(q) \in Seq(Seq(Byte))
           /\ \A i \in 1..Len(DropByte(q)) :
                 /\ DropByte(q)[i] # <<>>
                 /\ \E j \in 1..Len(q) : Last(DropByte(q)[i]) = Last(q[j])
           /\ q[1] \in Seq(Byte) /\ q[1][1] \in Byte
<1>1. q[1] \in Seq(Byte) /\ q[1] # <<>> /\ q[1][1] \in Byte /\ 1 \in 1..Len(q)
  OBVIOUS
<1>2. CASE Tail(q[1]) = <<>>
  <2>1. DropByte(q) = Tail(q)
    BY <1>2 DEF DropByte
  <2>2. Tail(q) \in Seq(Seq(Byte)) /\ \A i \in 1..Len(Tail(q)) : i + 1 \in 1..Len(q) /\ Tail(q)[i] = q[i + 1]
    OBVIOUS
  <2> QED BY <1>1, <2>1, <2>2
<1>3. CASE Tail(q[1]) # <<>>
  <2>1. DropByte(q) = [q EXCEPT ![1] = Tail(q[1])]
    BY <1>3 DEF DropByte
  <2>2. Tail(q[1]) \in Seq(Byte) /\ Last(Tail(q[1])) = Last(q[1])
    BY <1>1, <1>3 DEF Last
  <2>3. DropByte(q) \in Seq(Seq(Byte)) /\ Len(DropByte(q)) = Len(q)
    BY <2>1, <2>2
  <2>4. ASSUME NEW i \in 1..Len(q)
        PROVE  DropByte(q)[i] # <<>> /\ Last(DropByte(q)[i]) = Last(q[i])
    <3>1. CASE i = 1
      BY <1>3, <2>1, <2>2, <3>1
    <3>2. CASE i # 1
      BY <2>1, <3>2
    <3> QED BY <3>1, <3>2
  <2> QED BY <1>1, <2>3, <2>4
<1> QED BY <1>2, <1>3

LEMMA InitIInv == Init => IInv
<1> SUFFICES ASSUME Init PROVE IInv
  OBVIOUS
<1>1. TypesOK
  <2>1. <<>> \in Seq(Byte) /\ <<>> \in Seq(Letter) /\ <<>> \in Seq(Seq(Byte)) /\ <<>> \in Seq(Seq(Letter))
    OBVIOUS
  <2>2. DOMAIN <<>> = {} /\ Len(<<>>) = 0 /\ 0 <= Capacity
    BY CodecAssumption
  <2>3. \A i \in 1..Len(<<>>) : FALSE
    BY <2>2
  <2> QED BY <2>1, <2>2, <2>3 DEF Init, TypesOK
<1>2. CloseOK /\ ReceivedOK /\ OnlyLongOverflow
  BY DEF Init, CloseOK, ReceivedOK, OnlyLongOverflow
<1>3. PICK bound : Piped(<<>>, bound, <<0>>, 0, <<>>, <<>>, <<>>, <<>>, <<>>)
  BY PipedNone
<1>4. Slice(<<>>, <<>>, 0) /\ 0 + Len(<<>>) = Len(<<>>)
  BY DEF Slice
<1>5. StreamOK
  BY <1>3, <1>4 DEF Init, StreamOK
<1>6. Chain(<<>>, <<>>, <<0>>) /\ <<0>>[1] = 0 /\ <<0>>[Len(<<0>>)] = Len(<<>>)
  <2>1. <<>> \in Seq(Byte) /\ 0 \in Nat
    OBVIOUS
  <2>2. Chain(<<>>, <<>>, <<0>>)
    BY <2>1, ChainNone
  <2>3. <<0>>[1] = 0 /\ <<0>>[Len(<<0>>)] = Len(<<>>)
    OBVIOUS
  <2> QED BY <2>2, <2>3
<1>7. AnswerOK
  BY <1>3, <1>6 DEF Init, AnswerOK
<1> QED BY <1>1, <1>2, <1>5, <1>7 DEF IInv

-----------------------------------------------------------------------------
(* Steps of the client.                                                    *)
LEMMA SendKeeps ==
    ASSUME IInv, NEW f \in Frame, SendFrameAscii(f)
    PROVE  IInv'
<1>a. /\ clientOpen /\ writing = <<>> /\ writing' = Encode(f) /\ sent' = Append(sent, f)
      /\ UNCHANGED <<frame, clientOpen, listening, received, toServer, toClient>>
      /\ UNCHANGED <<mode, tasks, byteBuffer, writeQueue, serverOpen, processed, overflowed>>
  BY DEF SendFrameAscii, server, network, Encode
<1>b. f \in Seq(Letter) /\ Encode(f) \in Seq(Byte)
  BY CodecAssumption DEF Encode, Delimiter, Byte
<1>c. TypesOK /\ CloseOK /\ StreamOK
  BY DEF IInv
<1>1. TypesOK'
  BY <1>a, <1>b, <1>c DEF TypesOK
<1>2. CloseOK'
  BY <1>a, <1>c DEF CloseOK
<1>3. StreamOK'
  <2> SUFFICES ASSUME mode = "blocking" \/ ~overflowed
               PROVE  \E stream, bound, at, e :
                        /\ Piped(stream, bound, at, e, Append(sent, f), processed, byteBuffer, tasks, toServer)
                        /\ serverOpen /\ clientOpen =>
                              Slice(Encode(f), stream, e) /\ e + Len(Encode(f)) = Len(stream)
    BY <1>a DEF StreamOK
  <2>1. PICK stream, bound, at, e :
          /\ Piped(stream, bound, at, e, sent, processed, byteBuffer, tasks, toServer)
          /\ serverOpen /\ clientOpen => e + Len(writing) = Len(stream)
    BY <1>c DEF StreamOK
  <2>2. PipeTypes(processed, byteBuffer, tasks, toServer)
    BY <1>c, Types
  <2>3. PICK new : Piped(stream \o Encode(f), new, at, e, Append(sent, f), processed, byteBuffer, tasks, toServer)
    BY <1>b, <2>1, <2>2, PipedGrows
  <2>4. stream \in Seq(Byte) /\ e \in Nat
    BY <2>1, <2>2, PipedTypes
  <2>5. ASSUME serverOpen /\ clientOpen
        PROVE  Slice(Encode(f), stream \o Encode(f), e) /\ e + Len(Encode(f)) = Len(stream \o Encode(f))
    <3>1. e = Len(stream)
      <4>1. Len(writing) = 0
        BY <1>a
      <4> QED BY <2>1, <2>4, <2>5, <4>1
    <3> QED BY <1>b, <2>4, <3>1, SliceEnd, Concatenation
  <2> QED BY <2>3, <2>5
<1>4. ReceivedOK' /\ AnswerOK'
  BY <1>a DEF IInv, ReceivedOK, AnswerOK
<1>5. OnlyLongOverflow'
  <2>1. \A i \in 1..Len(sent) : i \in 1..Len(sent') /\ sent'[i] = sent[i]
    BY <1>a, <1>c DEF TypesOK
  <2>2. DOMAIN sent = 1..Len(sent) /\ DOMAIN sent' = 1..Len(sent')
    BY <1>a, <1>b, <1>c DEF TypesOK
  <2> QED BY <1>a, <2>1, <2>2 DEF IInv, OnlyLongOverflow, Fits
<1> QED BY <1>1, <1>2, <1>3, <1>4, <1>5 DEF IInv

LEMMA SendBytesKeeps ==
    ASSUME IInv, SendBytes
    PROVE  IInv'
<1>a. /\ writing # <<>>
      /\ UNCHANGED <<frame, clientOpen, listening, sent, received, toClient>>
      /\ UNCHANGED <<mode, tasks, byteBuffer, writeQueue, serverOpen, processed, overflowed>>
      /\ \/ serverOpen /\ writing' = Tail(writing) /\ toServer' = Append(toServer, Head(writing))
         \/ ~serverOpen /\ writing' \in {Tail(writing), <<>>} /\ toServer' = toServer
  BY DEF SendBytes, server
<1>b. TypesOK /\ CloseOK /\ StreamOK /\ writing \in Seq(Byte) /\ toServer \in Seq(Byte)
  BY Types DEF IInv
<1>c. Head(writing) \in Byte /\ Tail(writing) \in Seq(Byte)
  BY <1>a, <1>b
<1>1. TypesOK'
  <2>1. writing' \in Seq(Byte)
    <3>1. writing' \in {Tail(writing), <<>>} /\ <<>> \in Seq(Byte)
      BY <1>a
    <3> QED BY <1>c, <3>1
  <2>2. toServer' \in Seq(Byte)
    BY <1>a, <1>b, <1>c, SMTT(30)
  <2> QED BY <1>a, <1>b, <2>1, <2>2 DEF TypesOK
<1>2. CloseOK'
  BY <1>a, <1>b DEF CloseOK
<1>3. StreamOK'
  <2> SUFFICES ASSUME mode = "blocking" \/ ~overflowed
               PROVE  \E stream, bound, at, e :
                        /\ Piped(stream, bound, at, e, sent, processed, byteBuffer, tasks, toServer')
                        /\ serverOpen /\ clientOpen =>
                              Slice(writing', stream, e) /\ e + Len(writing') = Len(stream)
    BY <1>a DEF StreamOK
  <2>1. PICK stream, bound, at, e :
          /\ Piped(stream, bound, at, e, sent, processed, byteBuffer, tasks, toServer)
          /\ serverOpen /\ clientOpen => Slice(writing, stream, e) /\ e + Len(writing) = Len(stream)
    BY <1>b DEF StreamOK
  <2>2. PipeTypes(processed, byteBuffer, tasks, toServer)
    BY <1>b, Types
  <2>3. stream \in Seq(Byte) /\ e \in Nat
    BY <2>1, <2>2, PipedTypes
  <2>4. CASE ~serverOpen
    BY <1>a, <2>1, <2>4
  <2>5. CASE serverOpen
    <3>1. clientOpen
      BY <1>a, <1>b DEF CloseOK
    <3>2. Slice(Tail(writing), stream, e + 1) /\ Head(writing) = stream[e + 1] /\ e + 1 <= Len(stream)
      BY <1>a, <1>b, <2>1, <2>3, <2>5, <3>1, SliceTail
    <3>3. Piped(stream, bound, at, e + 1, sent, processed, byteBuffer, tasks, toServer')
      BY <1>a, <2>1, <2>2, <2>5, <3>2, PipedByte
    <3>4. (e + 1) + Len(Tail(writing)) = Len(stream)
      <4>1. Len(Tail(writing)) = Len(writing) - 1 /\ Len(writing) \in Nat
        BY <1>a, <1>b
      <4>2. e + Len(writing) = Len(stream)
        BY <2>1, <2>5, <3>1
      <4>3. ASSUME NEW m \in Nat, NEW n, n = m - 1 PROVE (e + 1) + n = e + m
        BY <2>3, <4>3
      <4> QED BY <4>1, <4>2, <4>3
    <3> QED BY <1>a, <2>5, <3>2, <3>3, <3>4
  <2> QED BY <2>4, <2>5
<1>4. ReceivedOK' /\ AnswerOK' /\ OnlyLongOverflow'
  BY <1>a DEF IInv, ReceivedOK, AnswerOK, OnlyLongOverflow
<1> QED BY <1>1, <1>2, <1>3, <1>4 DEF IInv

LEMMA CloseClientKeeps ==
    ASSUME IInv, CloseClient
    PROVE  IInv'
<1>a. /\ clientOpen' = FALSE /\ toClient' = <<>> /\ writing = <<>>
      /\ UNCHANGED <<writing, frame, listening, sent, received>>
      /\ UNCHANGED <<mode, tasks, byteBuffer, writeQueue, serverOpen, processed, overflowed>>
  BY DEF CloseClient, server
<1>b. PICK k \in 0..Len(toServer) : toServer' = SubSeq(toServer, 1, k)
  BY DEF CloseClient
<1>c. TypesOK /\ toServer \in Seq(Byte) /\ toClient \in Seq(Byte)
  BY Types DEF IInv
<1>d. toServer' \in Seq(Byte)
  BY <1>b, <1>c
<1>1. TypesOK'
  BY <1>a, <1>c, <1>d DEF TypesOK
<1>2. CloseOK'
  <2>1. toServer = <<>> => toServer' = <<>>
    BY <1>b
  <2> QED BY <1>a, <2>1 DEF IInv, CloseOK
<1>3. StreamOK'
  <2> SUFFICES ASSUME mode = "blocking" \/ ~overflowed
               PROVE  \E stream, bound, at, e :
                        Piped(stream, bound, at, e, sent, processed, byteBuffer, tasks, toServer')
    BY <1>a DEF StreamOK
  <2>1. PICK stream, bound, at, e :
          Piped(stream, bound, at, e, sent, processed, byteBuffer, tasks, toServer)
    BY DEF IInv, StreamOK
  <2>2. PipeTypes(processed, byteBuffer, tasks, toServer)
    BY <1>c, Types
  <2>3. Piped(stream, bound, at, at[Len(at)] + k, sent, processed, byteBuffer, tasks, toServer')
    BY <1>b, <2>1, <2>2, PipedCut
  <2> QED BY <2>3
<1>4. AnswerOK'
  <2> SUFFICES ASSUME listening
               PROVE  \E stream, bound, at, e : Piped(stream, bound, at, e, processed, received, frame, <<>>, <<>>)
    BY <1>a DEF AnswerOK
  <2>1. PICK stream, bound, at, e : Piped(stream, bound, at, e, processed, received, frame, <<>>, toClient)
    BY DEF IInv, AnswerOK
  <2>2. SubSeq(toClient, 1, 0) = <<>> /\ 0 \in 0..Len(toClient)
    BY <1>c
  <2>3. PipeTypes(received, frame, <<>>, toClient)
    BY <1>c, Types
  <2>4. Piped(stream, bound, at, at[Len(at)] + 0, processed, received, frame, <<>>, SubSeq(toClient, 1, 0))
    BY <2>1, <2>2, <2>3, PipedCut
  <2> QED BY <2>2, <2>4
<1>5. ReceivedOK' /\ OnlyLongOverflow'
  BY <1>a DEF IInv, ReceivedOK, OnlyLongOverflow
<1> QED BY <1>1, <1>2, <1>3, <1>4, <1>5 DEF IInv

LEMMA GetFrameKeeps ==
    ASSUME IInv, GetFrameAscii
    PROVE  IInv'
<1>a. /\ listening /\ clientOpen /\ toClient # <<>> /\ toClient' = Tail(toClient)
      /\ frame' = IF Head(toClient) = 0 THEN <<>> ELSE Append(frame, Head(toClient))
      /\ received' = IF Head(toClient) = 0 THEN Append(received, frame) ELSE received
      /\ UNCHANGED <<writing, clientOpen, listening, sent, toServer>>
      /\ UNCHANGED <<mode, tasks, byteBuffer, writeQueue, serverOpen, processed, overflowed>>
  BY DEF GetFrameAscii, server, Delimiter
<1>b. TypesOK /\ toClient \in Seq(Byte) /\ frame \in Seq(Letter) /\ PipeTypes(received, frame, <<>>, toClient)
  BY Types DEF IInv
<1>c. Tail(toClient) \in Seq(Byte) /\ Head(toClient) \in Byte
  BY <1>a, <1>b
<1>d. frame' \in Seq(Letter) /\ received' \in Seq(Seq(Letter))
  <2>1. Head(toClient) # 0 => Head(toClient) \in Letter
    BY <1>c DEF Byte
  <2> QED BY <1>a, <1>b, <2>1 DEF TypesOK
<1>1. TypesOK'
  BY <1>a, <1>b, <1>c, <1>d DEF TypesOK
<1>2. CloseOK' /\ StreamOK' /\ OnlyLongOverflow'
  BY <1>a DEF IInv, CloseOK, StreamOK, OnlyLongOverflow
<1>3. PICK stream, bound, at, e :
        /\ Piped(stream, bound, at, e, processed, received, frame, <<>>, toClient)
        /\ serverOpen /\ clientOpen =>
              \E line : /\ Chain(writeQueue, stream, line)
                       /\ line[1] = e /\ line[Len(line)] = Len(stream)
  BY <1>a DEF IInv, AnswerOK
<1>4. PICK new : Piped(stream, bound, new, e, processed, received', frame', <<>>, toClient')
  BY <1>a, <1>b, <1>3, PipedRead
<1>5. AnswerOK'
  BY <1>a, <1>3, <1>4 DEF AnswerOK
<1>6. ReceivedOK'
  BY <1>a, <1>4 DEF ReceivedOK, Piped
<1> QED BY <1>1, <1>2, <1>5, <1>6 DEF IInv

LEMMA GetBytesFailsKeeps ==
    ASSUME IInv, GetBytesFails
    PROVE  IInv'
<1>a. /\ listening' = FALSE /\ frame' = <<>>
      /\ UNCHANGED <<writing, clientOpen, sent, received, toServer, toClient>>
      /\ UNCHANGED <<mode, tasks, byteBuffer, writeQueue, serverOpen, processed, overflowed>>
  BY DEF GetBytesFails, server, network
<1>b. TypesOK
  BY DEF IInv
<1>1. TypesOK'
  <2>1. frame' \in Seq(Letter)
    BY <1>a
  <2>2. listening' \in BOOLEAN
    BY <1>a
  <2> QED BY <1>a, <1>b, <2>1, <2>2 DEF TypesOK
<1>2. CloseOK' /\ StreamOK' /\ ReceivedOK' /\ AnswerOK' /\ OnlyLongOverflow'
  BY <1>a DEF IInv, CloseOK, StreamOK, ReceivedOK, AnswerOK, OnlyLongOverflow
<1> QED BY <1>1, <1>2 DEF IInv

-----------------------------------------------------------------------------
(* Steps of the server.                                                    *)

(* The answer to the frame in the buffer.                                  *)
LEMMA ProcessKeeps ==
    ASSUME IInv, Process(byteBuffer), byteBuffer' = <<>>,
           UNCHANGED <<client, mode, serverOpen, overflowed>>,
           tasks' \in Seq(Seq(Byte)), \A i \in 1..Len(tasks') : tasks'[i] # <<>>,
           mode = "blocking" => tasks' = <<>>,
           toServer' \in Seq(Byte), ~serverOpen => toServer' = <<>>
    PROVE  TypesOK' /\ CloseOK' /\ ReceivedOK' /\ AnswerOK' /\ OnlyLongOverflow'
<1>a. /\ UNCHANGED <<writing, frame, clientOpen, listening, sent, received>>
      /\ UNCHANGED <<mode, serverOpen, overflowed>>
      /\ processed' = Append(processed, byteBuffer)
      /\ mode = "blocking" =>
            /\ writeQueue' = writeQueue
            /\ toClient' = IF serverOpen /\ clientOpen THEN toClient \o Encode(byteBuffer) ELSE toClient
      /\ mode # "blocking" =>
            /\ toClient' = toClient
            /\ writeQueue' = IF serverOpen THEN Append(writeQueue, Encode(byteBuffer)) ELSE writeQueue
  BY DEF Process, client
<1>b. /\ TypesOK /\ byteBuffer \in Seq(Letter) /\ toClient \in Seq(Byte) /\ writeQueue \in Seq(Seq(Byte))
      /\ processed \in Seq(Seq(Letter)) /\ received \in Seq(Seq(Letter))
  BY Types DEF IInv, TypesOK
<1> DEFINE answer == Encode(byteBuffer)
<1>c. answer \in Seq(Byte) /\ answer # <<>> /\ Last(answer) = Delimiter /\ Len(answer) \in Nat
  <2>1. Append(byteBuffer, 0) \in Seq(Byte) /\ Len(Append(byteBuffer, 0)) = Len(byteBuffer) + 1
    BY <1>b DEF Byte
  <2>2. Append(byteBuffer, 0)[Len(byteBuffer) + 1] = 0 /\ Len(byteBuffer) \in Nat
    BY <1>b
  <2>3. Append(byteBuffer, 0) # <<>>
    <3> DEFINE w == Append(byteBuffer, 0)
    <3>1. w \in Seq(Byte) /\ Len(w) # 0
      BY <2>1, <2>2
    <3> HIDE DEF w
    <3>2. w # <<>>
      BY <3>1, EmptyLength
    <3> QED BY <3>2 DEF w
  <2> QED BY <2>1, <2>2, <2>3 DEF Encode, Delimiter, Last
<1> HIDE DEF answer
<1>1. TypesOK'
  <2>1. processed' \in Seq(Seq(Letter)) /\ byteBuffer' \in Seq(Letter) /\ Len(byteBuffer') <= Capacity
    BY <1>a, <1>b, CodecAssumption
  <2>2. toClient' \in Seq(Byte)
    <3>1. toClient' \in {toClient, toClient \o answer}
      BY <1>a, SMTT(30) DEF answer
    <3>2. toClient \in Seq(Byte) /\ answer \in Seq(Byte)
      BY <1>b, <1>c
    <3>3. toClient \o answer \in Seq(Byte)
      BY <3>2, Concatenation
    <3> HIDE DEF answer
    <3> QED BY <3>1, <3>2, <3>3
  <2>3. /\ writeQueue' \in Seq(Seq(Byte))
        /\ \A i \in 1..Len(writeQueue') : writeQueue'[i] # <<>> /\ Last(writeQueue'[i]) = Delimiter
    <3>1. \A i \in 1..Len(writeQueue) : writeQueue[i] # <<>> /\ Last(writeQueue[i]) = Delimiter
      BY <1>b DEF TypesOK
    <3>2. writeQueue' \in {writeQueue, Append(writeQueue, answer)}
      BY <1>a DEF answer
    <3>3. CASE writeQueue' = writeQueue
      BY <1>b, <3>1, <3>3
    <3>4. CASE writeQueue' = Append(writeQueue, answer)
      <4>1. ASSUME NEW i \in 1..Len(writeQueue')
            PROVE  writeQueue'[i] # <<>> /\ Last(writeQueue'[i]) = Delimiter
        <5>1. CASE i = Len(writeQueue) + 1
          BY <1>b, <1>c, <3>4, <5>1
        <5>2. CASE i # Len(writeQueue) + 1
          <6>1. i \in 1..Len(writeQueue) /\ writeQueue'[i] = writeQueue[i]
            BY <1>b, <3>4, <5>2
          <6> QED BY <3>1, <6>1
        <5> QED BY <5>1, <5>2
      <4> QED BY <1>b, <1>c, <3>4, <4>1
    <3> QED BY <3>2, <3>3, <3>4
  <2> QED BY <1>a, <1>b, <2>1, <2>2, <2>3 DEF TypesOK
<1>2. CloseOK' /\ OnlyLongOverflow'
  BY <1>a DEF IInv, CloseOK, OnlyLongOverflow
<1>3. ReceivedOK'
  BY <1>a, <1>b, SMTT(30) DEF IInv, ReceivedOK
<1>4. AnswerOK'
  <2> SUFFICES ASSUME listening
               PROVE  \E stream, bound, at, e :
                        /\ Piped(stream, bound, at, e, processed', received, frame, <<>>, toClient')
                        /\ serverOpen /\ clientOpen =>
                              \E line : /\ Chain(writeQueue', stream, line)
                                       /\ line[1] = e /\ line[Len(line)] = Len(stream)
    BY <1>a DEF AnswerOK
  <2>1. PICK stream, bound, at, e :
          /\ Piped(stream, bound, at, e, processed, received, frame, <<>>, toClient)
          /\ serverOpen /\ clientOpen =>
                \E line : /\ Chain(writeQueue, stream, line)
                         /\ line[1] = e /\ line[Len(line)] = Len(stream)
    BY DEF IInv, AnswerOK
  <2>2. PipeTypes(received, frame, <<>>, toClient)
    BY <1>b, Types
  <2>3. PICK new : Piped(stream \o answer, new, at, e, processed', received, frame, <<>>, toClient)
    BY <1>a, <1>b, <2>1, <2>2, PipedGrows DEF answer
  <2>4. stream \in Seq(Byte) /\ e \in Nat
    BY <2>1, <2>2, PipedTypes
  <2>5. /\ stream \o answer \in Seq(Byte) /\ Len(stream \o answer) = Len(stream) + Len(answer)
        /\ Slice(answer, stream \o answer, Len(stream))
    BY <1>c, <2>4, Concatenation, SliceEnd
  <2>6. CASE ~(serverOpen /\ clientOpen)
    <3>1. toClient' = toClient
      BY <1>a, <2>6
    <3> QED BY <2>3, <2>6, <3>1
  <2>7. CASE serverOpen /\ clientOpen /\ mode = "blocking"
    <3>1. writeQueue = <<>> /\ writeQueue' = <<>> /\ toClient' = toClient \o answer
      BY <1>a, <1>b, <2>7 DEF TypesOK, answer
    <3>2. e = Len(stream)
      BY <2>1, <2>7, <3>1 DEF Chain
    <3>3. Piped(stream \o answer, new, at, e + Len(answer), processed', received, frame, <<>>, toClient')
      BY <1>c, <2>2, <2>3, <2>5, <3>1, <3>2, PipedJoin
    <3>4. e + Len(answer) = Len(stream \o answer) /\ e + Len(answer) \in Nat
      BY <1>c, <2>4, <2>5, <3>2
    <3>5. Chain(writeQueue', stream \o answer, <<e + Len(answer)>>)
      BY <2>5, <3>1, <3>4, ChainNone
    <3>6. <<e + Len(answer)>>[1] = e + Len(answer) /\ Len(<<e + Len(answer)>>) = 1
      OBVIOUS
    <3> QED BY <3>3, <3>4, <3>5, <3>6
  <2>8. CASE serverOpen /\ clientOpen /\ mode # "blocking"
    <3>1. toClient' = toClient /\ writeQueue' = Append(writeQueue, answer)
      BY <1>a, <2>8 DEF answer
    <3>2. PICK line : /\ Chain(writeQueue, stream, line)
                      /\ line[1] = e /\ line[Len(line)] = Len(stream)
      BY <2>1, <2>8
    <3>3. Chain(writeQueue, stream \o answer, line)
      BY <1>b, <1>c, <2>4, <3>2, ChainGrows
    <3> DEFINE more == Append(line, line[Len(line)] + Len(answer))
    <3>4. Chain(writeQueue', stream \o answer, more)
      BY <1>b, <1>c, <2>5, <3>1, <3>2, <3>3, ChainAppend
    <3>5. line \in Seq(Nat) /\ Len(line) \in Nat \ {0}
      BY <1>b, <3>2 DEF Chain
    <3>6. more[1] = e /\ more[Len(more)] = Len(stream \o answer)
      BY <2>5, <3>2, <3>5
    <3> HIDE DEF more
    <3> QED BY <2>3, <3>1, <3>4, <3>6
  <2> QED BY <2>6, <2>7, <2>8
<1> QED BY <1>1, <1>2, <1>3, <1>4

(* A byte of a frame goes into the buffer.                                 *)
LEMMA PutKeeps ==
    ASSUME IInv, NEW b \in Byte, Put(b),
           UNCHANGED <<client, mode, serverOpen, overflowed>>,
           tasks' \in Seq(Seq(Byte)), \A i \in 1..Len(tasks') : tasks'[i] # <<>>,
           mode = "blocking" => tasks' = <<>>,
           toServer' \in Seq(Byte), ~serverOpen => toServer' = <<>>
    PROVE  TypesOK' /\ CloseOK' /\ ReceivedOK' /\ AnswerOK' /\ OnlyLongOverflow'
<1>a. /\ UNCHANGED <<writing, frame, clientOpen, listening, sent, received>>
      /\ UNCHANGED <<mode, serverOpen, overflowed, processed, toClient, writeQueue>>
      /\ b # 0 /\ Len(byteBuffer) < Capacity /\ byteBuffer' = Append(byteBuffer, b)
  BY DEF Put, client, Delimiter
<1>b. TypesOK /\ byteBuffer \in Seq(Letter)
  BY Types DEF IInv
<1>1. TypesOK'
  <2>1. byteBuffer' \in Seq(Letter) /\ Len(byteBuffer') <= Capacity
    <3>1. b \in Letter
      BY <1>a DEF Byte
    <3>2. Len(byteBuffer') = Len(byteBuffer) + 1 /\ Len(byteBuffer) \in Nat
      BY <1>a, <1>b
    <3> QED BY <1>a, <1>b, <3>1, <3>2, CodecAssumption
  <2> QED BY <1>a, <1>b, <2>1 DEF TypesOK
<1>2. CloseOK' /\ ReceivedOK' /\ AnswerOK' /\ OnlyLongOverflow'
  BY <1>a DEF IInv, CloseOK, ReceivedOK, AnswerOK, OnlyLongOverflow
<1> QED BY <1>1, <1>2

LEMMA ReadKeeps ==
    ASSUME IInv, Read
    PROVE  IInv'
<1>a. /\ UNCHANGED <<client, mode, serverOpen, overflowed>> /\ tasks' = tasks /\ sent' = sent
      /\ clientOpen' = clientOpen /\ writing' = writing
      /\ mode = "blocking" /\ serverOpen /\ toServer # <<>> /\ toServer' = Tail(toServer)
      /\ Decode(Head(toServer)) \/ Put(Head(toServer))
  BY DEF Read, client
<1>b. /\ TypesOK /\ toServer \in Seq(Byte) /\ tasks = <<>>
      /\ PipeTypes(processed, byteBuffer, tasks, toServer)
  BY <1>a, Types DEF IInv, TypesOK
<1>c. toServer' \in Seq(Byte) /\ Head(toServer) \in Byte
  BY <1>a, <1>b
<1>d. tasks' \in Seq(Seq(Byte)) /\ \A i \in 1..Len(tasks') : tasks'[i] # <<>>
  BY <1>a, <1>b
<1>1. TypesOK' /\ CloseOK' /\ ReceivedOK' /\ AnswerOK' /\ OnlyLongOverflow'
  <2>1. CASE Decode(Head(toServer))
    BY <1>a, <1>b, <1>c, <1>d, <2>1, ProcessKeeps DEF Decode
  <2>2. CASE Put(Head(toServer))
    BY <1>a, <1>b, <1>c, <1>d, <2>2, PutKeeps
  <2> QED BY <1>a, <2>1, <2>2
<1>2. PICK stream, bound, at, e :
        /\ Piped(stream, bound, at, e, sent, processed, byteBuffer, tasks, toServer)
        /\ serverOpen /\ clientOpen => Slice(writing, stream, e) /\ e + Len(writing) = Len(stream)
  BY <1>a DEF IInv, StreamOK
<1>3. \E new : Piped(stream, bound, new, e, sent, processed', byteBuffer', tasks', toServer')
  <2>1. CASE Decode(Head(toServer))
    <3>1. Head(toServer) = 0 /\ processed' = Append(processed, byteBuffer) /\ byteBuffer' = <<>>
      BY <2>1 DEF Decode, Process, Delimiter
    <3> QED BY <1>a, <1>b, <1>2, <3>1, PipedRead
  <2>2. CASE Put(Head(toServer))
    <3>1. Head(toServer) # 0 /\ processed' = processed /\ byteBuffer' = Append(byteBuffer, Head(toServer))
      BY <2>2 DEF Put, Delimiter
    <3> QED BY <1>a, <1>b, <1>2, <3>1, PipedRead
  <2> QED BY <1>a, <2>1, <2>2
<1>4. StreamOK'
  BY <1>a, <1>2, <1>3 DEF StreamOK
<1> QED BY <1>1, <1>4 DEF IInv

(* The server ends the connection.                                         *)
LEMMA EndKeeps ==
    ASSUME IInv, End,
           UNCHANGED <<client, mode, tasks, byteBuffer, processed>>,
           overflowed' \in BOOLEAN,
           mode = "reactor" => overflowed' = overflowed,
           OnlyLongOverflow'
    PROVE  IInv'
<1>a. /\ serverOpen' = FALSE /\ toServer' = <<>> /\ writeQueue' = <<>>
      /\ UNCHANGED <<writing, frame, clientOpen, listening, sent, received>>
      /\ UNCHANGED <<mode, tasks, byteBuffer, processed>>
  BY DEF End, client
<1>b. PICK k \in 0..Len(toClient) : toClient' = SubSeq(toClient, 1, k)
  BY DEF End
<1>c. /\ TypesOK /\ toServer \in Seq(Byte) /\ toClient \in Seq(Byte)
      /\ PipeTypes(processed, byteBuffer, tasks, toServer) /\ PipeTypes(received, frame, <<>>, toClient)
  BY Types DEF IInv
<1>d. toClient' \in Seq(Byte) /\ toServer' \in Seq(Byte) /\ writeQueue' \in Seq(Seq(Byte))
  BY <1>a, <1>b, <1>c
<1>1. TypesOK'
  <2>1. serverOpen' \in BOOLEAN /\ overflowed' \in BOOLEAN
    BY <1>a, <1>c DEF TypesOK
  <2>2. DOMAIN writeQueue' = {}
    BY <1>a
  <2> QED BY <1>a, <1>c, <1>d, <2>1, <2>2 DEF TypesOK
<1>2. CloseOK' /\ ReceivedOK'
  BY <1>a DEF IInv, CloseOK, ReceivedOK
<1>3. StreamOK'
  <2> SUFFICES ASSUME mode = "blocking" \/ ~overflowed
               PROVE  \E stream, bound, at, e :
                        Piped(stream, bound, at, e, sent, processed, byteBuffer, tasks, <<>>)
    BY <1>a, <1>c DEF StreamOK, TypesOK
  <2>1. PICK stream, bound, at, e :
          Piped(stream, bound, at, e, sent, processed, byteBuffer, tasks, toServer)
    BY DEF IInv, StreamOK
  <2>2. SubSeq(toServer, 1, 0) = <<>> /\ 0 \in 0..Len(toServer)
    BY <1>c
  <2>3. Piped(stream, bound, at, at[Len(at)] + 0, sent, processed, byteBuffer, tasks, SubSeq(toServer, 1, 0))
    BY <1>c, <2>1, <2>2, PipedCut
  <2> QED BY <2>2, <2>3
<1>4. AnswerOK'
  <2> SUFFICES ASSUME listening
               PROVE  \E stream, bound, at, e :
                        Piped(stream, bound, at, e, processed, received, frame, <<>>, toClient')
    BY <1>a DEF AnswerOK
  <2>1. PICK stream, bound, at, e : Piped(stream, bound, at, e, processed, received, frame, <<>>, toClient)
    BY DEF IInv, AnswerOK
  <2>2. Piped(stream, bound, at, at[Len(at)] + k, processed, received, frame, <<>>, toClient')
    BY <1>b, <1>c, <2>1, PipedCut
  <2> QED BY <2>2
<1> QED BY <1>1, <1>2, <1>3, <1>4 DEF IInv

(* A frame does not fit: the one that is being sent is longer than the     *)
(* buffer.                                                                 *)
LEMMA TooLong ==
    ASSUME NEW i \in 1..Len(sent), IInv, Len(sent[i]) > Capacity
    PROVE  \E j \in DOMAIN sent : ~Fits(sent[j])
<1>1. sent[i] \in Seq(Letter) /\ i \in DOMAIN sent
  BY DEF IInv, TypesOK
<1>2. Len(sent[i]) \in Nat /\ Capacity \in Nat
  BY <1>1, CodecAssumption
<1> QED BY <1>1, <1>2 DEF Fits

LEMMA ReadOverflowKeeps ==
    ASSUME IInv, ReadOverflow
    PROVE  IInv'
<1>a. /\ mode = "blocking" /\ toServer # <<>> /\ Head(toServer) # 0 /\ Len(byteBuffer) = Capacity
      /\ End /\ overflowed' = TRUE /\ sent' = sent
      /\ UNCHANGED <<client, mode, tasks, byteBuffer, processed>>
  BY DEF ReadOverflow, Overflows, Delimiter, client
<1>b. PipeTypes(processed, byteBuffer, tasks, toServer) /\ tasks = <<>>
  BY <1>a, Types DEF IInv, TypesOK
<1>1. PICK stream, bound, at, e :
        Piped(stream, bound, at, e, sent, processed, byteBuffer, <<>>, toServer)
  BY <1>a, <1>b DEF IInv, StreamOK
<1>2. Len(processed) + 1 \in 1..Len(sent) /\ Len(byteBuffer) < Len(sent[Len(processed) + 1])
  BY <1>a, <1>b, <1>1, PipedRead
<1>3. Len(sent[Len(processed) + 1]) > Capacity
  <2>1. sent[Len(processed) + 1] \in Seq(Letter)
    BY <1>2 DEF IInv, TypesOK
  <2> QED BY <1>a, <1>2, <2>1, CodecAssumption
<1>4. OnlyLongOverflow'
  BY <1>a, <1>2, <1>3, TooLong DEF OnlyLongOverflow
<1> QED BY <1>a, <1>4, EndKeeps

LEMMA ContinueReadKeeps ==
    ASSUME IInv, ContinueRead
    PROVE  IInv'
<1>a. /\ mode = "reactor" /\ serverOpen
      /\ UNCHANGED <<writing, frame, clientOpen, listening, sent, received>>
      /\ UNCHANGED <<mode, byteBuffer, writeQueue, serverOpen, processed, overflowed, toClient>>
  BY DEF ContinueRead, client
<1>b. PICK k \in 1..Len(toServer) :
        /\ tasks' = Append(tasks, SubSeq(toServer, 1, k))
        /\ toServer' = SubSeq(toServer, k + 1, Len(toServer))
  <2>1. PICK k \in 1..MaxChunk :
          /\ k <= Len(toServer)
          /\ tasks' = Append(tasks, SubSeq(toServer, 1, k))
          /\ toServer' = SubSeq(toServer, k + 1, Len(toServer))
    BY DEF ContinueRead
  <2>2. k \in 1..Len(toServer)
    BY <2>1, Types, CodecAssumption DEF IInv
  <2> QED BY <2>1, <2>2
<1>c. /\ TypesOK /\ toServer \in Seq(Byte)
      /\ PipeTypes(processed, byteBuffer, tasks, toServer)
  BY Types DEF IInv
<1>d. tasks' \in Seq(Seq(Byte)) /\ (\A i \in 1..Len(tasks') : tasks'[i] # <<>>) /\ toServer' \in Seq(Byte)
  <2>1. SubSeq(toServer, 1, k) \in Seq(Byte) /\ Len(SubSeq(toServer, 1, k)) = k /\ Len(<<>>) = 0
    BY <1>c
  <2>2. SubSeq(toServer, 1, k) # <<>>
    BY <2>1
  <2>3. tasks \in Seq(Seq(Byte)) /\ \A i \in 1..Len(tasks) : tasks[i] # <<>>
    BY <1>c DEF PipeTypes
  <2>4. tasks' \in Seq(Seq(Byte)) /\ \A i \in 1..Len(tasks') : tasks'[i] # <<>>
    <3> DEFINE chunk == SubSeq(toServer, 1, k)
    <3>1. chunk \in Seq(Byte) /\ chunk # <<>> /\ tasks' = Append(tasks, chunk)
      BY <1>b, <2>1, <2>2
    <3> HIDE DEF chunk
    <3> QED BY <2>3, <3>1
  <2>5. toServer' \in Seq(Byte)
    BY <1>b, <1>c
  <2> QED BY <2>4, <2>5
<1>1. TypesOK'
  <2> QED BY <1>a, <1>c, <1>d DEF TypesOK
<1>2. CloseOK' /\ ReceivedOK' /\ AnswerOK' /\ OnlyLongOverflow'
  BY <1>a DEF IInv, CloseOK, ReceivedOK, AnswerOK, OnlyLongOverflow
<1>3. StreamOK'
  <2> SUFFICES ASSUME ~overflowed
               PROVE  \E stream, bound, at, e :
                        /\ Piped(stream, bound, at, e, sent, processed, byteBuffer, tasks', toServer')
                        /\ serverOpen /\ clientOpen =>
                              Slice(writing, stream, e) /\ e + Len(writing) = Len(stream)
    BY <1>a DEF StreamOK
  <2>1. PICK stream, bound, at, e :
          /\ Piped(stream, bound, at, e, sent, processed, byteBuffer, tasks, toServer)
          /\ serverOpen /\ clientOpen => Slice(writing, stream, e) /\ e + Len(writing) = Len(stream)
    BY DEF IInv, StreamOK
  <2>2. PICK new : Piped(stream, bound, new, e, sent, processed, byteBuffer, tasks', toServer')
    BY <1>b, <1>c, <2>1, PipedLoad
  <2> QED BY <2>1, <2>2
<1> QED BY <1>1, <1>2, <1>3 DEF IInv

(* What a task of the pool decodes is the first byte of the first chunk.   *)
LEMMA TaskByte ==
    ASSUME IInv, tasks # <<>>
    PROVE  /\ Head(Head(tasks)) = tasks[1][1] /\ tasks[1][1] \in Byte
           /\ mode = "reactor"
           /\ (IF Tail(Head(tasks)) = <<>> THEN Tail(tasks) ELSE [tasks EXCEPT ![1] = Tail(Head(tasks))])
                  = DropByte(tasks)
           /\ DropByte(tasks) \in Seq(Seq(Byte))
           /\ \A i \in 1..Len(DropByte(tasks)) : DropByte(tasks)[i] # <<>>
<1>1. tasks \in Seq(Seq(Byte)) /\ \A i \in 1..Len(tasks) : tasks[i] # <<>>
  BY Types DEF IInv, PipeTypes
<1>2. Head(tasks) = tasks[1] /\ Head(tasks[1]) = tasks[1][1]
  OBVIOUS
<1>3. mode = "reactor"
  BY DEF IInv, TypesOK
<1> QED BY <1>1, <1>2, <1>3, DropTypes DEF DropByte

LEMMA DecodeTaskKeeps ==
    ASSUME IInv, DecodeTask
    PROVE  IInv'
<1>a. /\ UNCHANGED <<client, mode, serverOpen, overflowed>> /\ toServer' = toServer /\ sent' = sent
      /\ clientOpen' = clientOpen /\ writing' = writing /\ tasks # <<>>
  BY DEF DecodeTask, client
<1> DEFINE b == tasks[1][1]
<1>b. /\ b \in Byte /\ mode = "reactor" /\ tasks' = DropByte(tasks)
      /\ Decode(b) \/ Put(b)
  BY <1>a, TaskByte DEF DecodeTask
<1>c. PipeTypes(processed, byteBuffer, tasks, toServer) /\ toServer \in Seq(Byte)
  BY Types DEF IInv
<1>d. tasks' \in Seq(Seq(Byte)) /\ \A i \in 1..Len(tasks') : tasks'[i] # <<>>
  BY <1>a, <1>b, TaskByte
<1>e. ~serverOpen => toServer' = <<>>
  BY <1>a DEF IInv, CloseOK
<1>1. TypesOK' /\ CloseOK' /\ ReceivedOK' /\ AnswerOK' /\ OnlyLongOverflow'
  <2>1. CASE Decode(b)
    BY <1>a, <1>b, <1>c, <1>d, <1>e, <2>1, ProcessKeeps DEF Decode
  <2>2. CASE Put(b)
    BY <1>a, <1>b, <1>c, <1>d, <1>e, <2>2, PutKeeps
  <2> QED BY <1>b, <2>1, <2>2
<1>2. StreamOK'
  <2> SUFFICES ASSUME ~overflowed
               PROVE  \E stream, bound, at, e :
                        /\ Piped(stream, bound, at, e, sent, processed', byteBuffer', tasks', toServer)
                        /\ serverOpen /\ clientOpen =>
                              Slice(writing, stream, e) /\ e + Len(writing) = Len(stream)
    BY <1>a, <1>b DEF StreamOK
  <2>1. PICK stream, bound, at, e :
          /\ Piped(stream, bound, at, e, sent, processed, byteBuffer, tasks, toServer)
          /\ serverOpen /\ clientOpen => Slice(writing, stream, e) /\ e + Len(writing) = Len(stream)
    BY DEF IInv, StreamOK
  <2>2. \E new : Piped(stream, bound, new, e, sent, processed', byteBuffer', tasks', toServer)
    <3>1. CASE Decode(b)
      <4>1. b = 0 /\ processed' = Append(processed, byteBuffer) /\ byteBuffer' = <<>>
        BY <3>1 DEF Decode, Process, Delimiter
      <4> QED BY <1>a, <1>b, <1>c, <2>1, <4>1, PipedTake
    <3>2. CASE Put(b)
      <4>1. b # 0 /\ processed' = processed /\ byteBuffer' = Append(byteBuffer, b)
        BY <3>2 DEF Put, Delimiter
      <4> QED BY <1>a, <1>b, <1>c, <2>1, <4>1, PipedTake
    <3> QED BY <1>b, <3>1, <3>2
  <2> QED BY <2>1, <2>2
<1> QED BY <1>1, <1>2 DEF IInv

LEMMA DecodeTaskOverflowKeeps ==
    ASSUME IInv, DecodeTaskOverflow
    PROVE  IInv'
<1>a. /\ tasks # <<>> /\ tasks' = Tail(tasks) /\ overflowed' = TRUE
      /\ Head(Head(tasks)) # 0 /\ Len(byteBuffer) = Capacity
      /\ UNCHANGED <<writing, frame, clientOpen, listening, sent, received>>
      /\ UNCHANGED <<mode, byteBuffer, writeQueue, serverOpen, processed, toServer, toClient>>
  BY DEF DecodeTaskOverflow, client, network, Overflows, Delimiter
<1>b. TypesOK /\ PipeTypes(processed, byteBuffer, tasks, toServer)
  BY Types DEF IInv
<1>c. mode = "reactor" /\ tasks[1][1] # 0
  BY <1>a, TaskByte
<1>1. TypesOK'
  <2>1. tasks' \in Seq(Seq(Byte)) /\ \A i \in 1..Len(tasks') : tasks'[i] # <<>>
    <3>1. tasks \in Seq(Seq(Byte)) /\ \A i \in 1..Len(tasks) : tasks[i] # <<>>
      BY <1>b DEF PipeTypes
    <3>2. \A i \in 1..Len(Tail(tasks)) : i + 1 \in 1..Len(tasks) /\ Tail(tasks)[i] = tasks[i + 1]
      BY <1>a, <3>1
    <3> QED BY <1>a, <3>1, <3>2
  <2>2. serverOpen' \in BOOLEAN /\ overflowed' \in BOOLEAN
    BY <1>a, <1>b DEF TypesOK
  <2> QED BY <1>a, <1>b, <1>c, <2>1, <2>2 DEF TypesOK
<1>2. CloseOK' /\ StreamOK' /\ ReceivedOK' /\ AnswerOK'
  BY <1>a, <1>c DEF IInv, CloseOK, StreamOK, ReceivedOK, AnswerOK
<1>3. OnlyLongOverflow'
  <2>1. CASE overflowed
    BY <1>a, <2>1 DEF IInv, OnlyLongOverflow
  <2>2. CASE ~overflowed
    <3>1. PICK stream, bound, at, e :
            Piped(stream, bound, at, e, sent, processed, byteBuffer, tasks, toServer)
      BY <2>2 DEF IInv, StreamOK
    <3>2. Len(processed) + 1 \in 1..Len(sent) /\ Len(byteBuffer) < Len(sent[Len(processed) + 1])
      BY <1>a, <1>b, <1>c, <3>1, PipedTake
    <3>3. Len(sent[Len(processed) + 1]) > Capacity
      <4>1. sent[Len(processed) + 1] \in Seq(Letter)
        BY <1>b, <3>2 DEF TypesOK
      <4> QED BY <1>a, <3>2, <4>1, CodecAssumption
    <3> QED BY <1>a, <3>2, <3>3, TooLong DEF OnlyLongOverflow
  <2> QED BY <2>1, <2>2
<1> QED BY <1>1, <1>2, <1>3 DEF IInv

LEMMA ContinueWriteKeeps ==
    ASSUME IInv, ContinueWrite
    PROVE  IInv'
<1>a. /\ writeQueue # <<>> /\ serverOpen
      /\ toClient' = IF clientOpen THEN Append(toClient, Head(Head(writeQueue))) ELSE toClient
      /\ UNCHANGED <<writing, frame, clientOpen, listening, sent, received>>
      /\ UNCHANGED <<mode, tasks, byteBuffer, serverOpen, processed, overflowed, toServer>>
  BY DEF ContinueWrite, client
<1>b. /\ TypesOK /\ toClient \in Seq(Byte) /\ PipeTypes(received, frame, <<>>, toClient)
      /\ writeQueue \in Seq(Seq(Byte)) /\ \A i \in 1..Len(writeQueue) : writeQueue[i] # <<>>
  BY Types DEF IInv, TypesOK
<1>c. Head(Head(writeQueue)) = writeQueue[1][1] /\ writeQueue[1] # <<>> /\ writeQueue[1] \in Seq(Byte)
  BY <1>a, <1>b
<1>d. writeQueue' = DropByte(writeQueue)
  <2>1. Len(writeQueue[1]) = 1 <=> Tail(writeQueue[1]) = <<>>
    <3>1. Tail(writeQueue[1]) \in Seq(Byte) /\ Len(Tail(writeQueue[1])) = Len(writeQueue[1]) - 1
      BY <1>c
    <3>2. Len(writeQueue[1]) \in Nat
      BY <1>c
    <3>3. Tail(writeQueue[1]) = <<>> <=> Len(Tail(writeQueue[1])) = 0
      BY <3>1, EmptyLength
    <3> QED BY <3>1, <3>2, <3>3
  <2>2. Head(writeQueue) = writeQueue[1]
    BY <1>a
  <2> QED BY <2>1, <2>2 DEF ContinueWrite, DropByte
<1>e. /\ writeQueue' \in Seq(Seq(Byte)) /\ writeQueue[1][1] \in Byte
      /\ \A i \in 1..Len(writeQueue') : writeQueue'[i] # <<>> /\ Last(writeQueue'[i]) = Delimiter
  <2>1. \A j \in 1..Len(writeQueue) : Last(writeQueue[j]) = Delimiter
    BY <1>b DEF TypesOK
  <2>2. /\ DropByte(writeQueue) \in Seq(Seq(Byte)) /\ writeQueue[1][1] \in Byte
        /\ \A i \in 1..Len(DropByte(writeQueue)) :
              /\ DropByte(writeQueue)[i] # <<>>
              /\ \E j \in 1..Len(writeQueue) : Last(DropByte(writeQueue)[i]) = Last(writeQueue[j])
    BY <1>a, <1>b, DropTypes
  <2> QED BY <1>d, <2>1, <2>2
<1>1. TypesOK'
  <2>1. toClient' \in Seq(Byte)
    BY <1>a, <1>b, <1>c, <1>e
  <2>2. mode # "blocking"
    BY <1>a, <1>b DEF TypesOK
  <2>3. DOMAIN writeQueue' = 1..Len(writeQueue')
    BY <1>e
  <2> QED BY <1>a, <1>b, <1>e, <2>1, <2>2, <2>3 DEF TypesOK
<1>2. CloseOK' /\ StreamOK' /\ ReceivedOK' /\ OnlyLongOverflow'
  BY <1>a DEF IInv, CloseOK, StreamOK, ReceivedOK, OnlyLongOverflow
<1>3. AnswerOK'
  <2> SUFFICES ASSUME listening
               PROVE  \E stream, bound, at, e :
                        /\ Piped(stream, bound, at, e, processed, received, frame, <<>>, toClient')
                        /\ clientOpen =>
                              \E line : /\ Chain(writeQueue', stream, line)
                                       /\ line[1] = e /\ line[Len(line)] = Len(stream)
    BY <1>a DEF AnswerOK
  <2>1. PICK stream, bound, at, e :
          /\ Piped(stream, bound, at, e, processed, received, frame, <<>>, toClient)
          /\ clientOpen =>
                \E line : /\ Chain(writeQueue, stream, line)
                         /\ line[1] = e /\ line[Len(line)] = Len(stream)
    BY <1>a DEF IInv, AnswerOK
  <2>2. CASE ~clientOpen
    BY <1>a, <2>1, <2>2
  <2>3. CASE clientOpen
    <3>1. PICK line : Chain(writeQueue, stream, line) /\ line[1] = e /\ line[Len(line)] = Len(stream)
      BY <2>1, <2>3
    <3>2. stream \in Seq(Byte)
      BY <1>b, <2>1, PipedTypes
    <3>3. /\ writeQueue[1][1] = stream[e + 1] /\ e + 1 <= Len(stream)
          /\ \E new : /\ Chain(DropByte(writeQueue), stream, new)
                      /\ new[1] = e + 1 /\ new[Len(new)] = line[Len(line)]
      <4>1. /\ writeQueue[1][1] = stream[line[1] + 1] /\ line[1] + 1 <= Len(stream)
            /\ \E new : /\ Chain(DropByte(writeQueue), stream, new)
                        /\ new[1] = line[1] + 1 /\ new[Len(new)] = line[Len(line)]
        BY <1>a, <1>b, <1>c, <3>1, <3>2, ChainDrop
      <4> QED BY <3>1, <4>1
    <3>4. Piped(stream, bound, at, e + 1, processed, received, frame, <<>>, toClient')
      BY <1>a, <1>b, <1>c, <2>1, <2>3, <3>3, PipedByte
    <3> QED BY <1>d, <3>1, <3>3, <3>4
  <2> QED BY <2>2, <2>3
<1> QED BY <1>1, <1>2, <1>3 DEF IInv

LEMMA NextKeeps ==
    ASSUME IInv, [Next]_vars
    PROVE  IInv'
<1>1. ASSUME NEW f \in Frame, SendFrameAscii(f) PROVE IInv'
  BY <1>1, SendKeeps
<1>2. CASE SendBytes \/ CloseClient \/ Listener
  BY <1>2, SendBytesKeeps, CloseClientKeeps, GetFrameKeeps, GetBytesFailsKeeps DEF Listener
<1>3. CASE Read \/ ReadOverflow \/ ContinueRead \/ ContinueWrite
  BY <1>3, ReadKeeps, ReadOverflowKeeps, ContinueReadKeeps, ContinueWriteKeeps
<1>4. CASE EndOfInput \/ CloseServer
  <2>1. /\ End /\ UNCHANGED <<client, mode, tasks, byteBuffer, processed>>
        /\ overflowed' = overflowed /\ sent' = sent
    BY <1>4 DEF EndOfInput, CloseServer, client
  <2>2. overflowed' \in BOOLEAN
    BY <2>1 DEF IInv, TypesOK
  <2>3. OnlyLongOverflow'
    BY <2>1 DEF IInv, OnlyLongOverflow
  <2> QED BY <2>1, <2>2, <2>3, EndKeeps
<1>5. CASE Worker
  BY <1>5, DecodeTaskKeeps, DecodeTaskOverflowKeeps DEF Worker
<1>6. CASE UNCHANGED vars
  <2>1. /\ UNCHANGED <<writing, frame, clientOpen, listening, sent, received, toServer, toClient>>
        /\ UNCHANGED <<mode, tasks, byteBuffer, writeQueue, serverOpen, processed, overflowed>>
    BY <1>6 DEF vars, client, server, network
  <2>2. TypesOK'
    BY <2>1 DEF IInv, TypesOK
  <2>3. CloseOK' /\ StreamOK' /\ ReceivedOK' /\ AnswerOK' /\ OnlyLongOverflow'
    BY <2>1 DEF IInv, CloseOK, StreamOK, ReceivedOK, AnswerOK, OnlyLongOverflow
  <2> QED BY <2>2, <2>3 DEF IInv
<1> QED BY <1>1, <1>2, <1>3, <1>4, <1>5, <1>6 DEF Next, Serve

-----------------------------------------------------------------------------
(* The invariant holds in every state.                                     *)
THEOREM FrameCodecInvariant == Spec => []IInv
<1>1. IInv /\ [Next]_vars => IInv'
  BY NextKeeps
<1> QED BY InitIInv, <1>1, PTL DEF Spec

(* Types: the buffer is never over its size, and only streams hold         *)
(* delimiters, each frame that is written exactly one.                     *)
THEOREM FrameCodecTypeOK == Spec => []TypeOK
<1>1. ASSUME IInv PROVE TypeOK
  <2>1. TypesOK
    BY <1>1 DEF IInv
  <2>2. DOMAIN tasks = 1..Len(tasks) /\ DOMAIN writeQueue = 1..Len(writeQueue)
    BY <2>1 DEF TypesOK
  <2>3. \A i \in DOMAIN tasks : tasks[i] \in Seq(Byte) /\ tasks[i] # <<>>
    BY <2>1, <2>2 DEF TypesOK
  <2>4. {serverOpen, clientOpen, listening, overflowed} \subseteq BOOLEAN
    BY <2>1 DEF TypesOK
  <2> QED BY <2>1, <2>2, <2>3, <2>4 DEF TypesOK, TypeOK, Byte
<1> QED BY FrameCodecInvariant, <1>1, PTL

LEMMA PrefixByElements ==
    ASSUME NEW s \in Seq(Seq(Letter)), NEW t \in Seq(Seq(Letter)), Len(s) <= Len(t),
           \A i \in 1..Len(s) : s[i] = t[i]
    PROVE  IsPrefix(s, t)
<1>1. SubSeq(s, 1, Len(s)) = SubSeq(t, 1, Len(s))
  OBVIOUS
<1> QED BY <1>1 DEF IsPrefix

(* Whatever the cuts and wherever the stream ends, the protocol gets the   *)
(* frames that were sent, whole, in order and once, and the client the     *)
(* answers; but for a reactor that met a frame longer than its buffer.     *)
THEOREM FrameCodecFramesIntact == Spec => []FramesIntact
<1>1. ASSUME IInv PROVE FramesIntact
  <2>1. sent \in Seq(Seq(Letter)) /\ processed \in Seq(Seq(Letter)) /\ received \in Seq(Seq(Letter))
    BY <1>1 DEF IInv, TypesOK
  <2>2. IsPrefix(received, processed)
    BY <1>1, <2>1, PrefixByElements DEF IInv, ReceivedOK
  <2>3. ASSUME mode = "blocking" \/ ~overflowed PROVE IsPrefix(processed, sent)
    <3>1. Len(processed) <= Len(sent) /\ \A i \in 1..Len(processed) : processed[i] = sent[i]
      BY <1>1, <2>3 DEF IInv, StreamOK, Piped
    <3> QED BY <2>1, <3>1, PrefixByElements
  <2> QED BY <2>2, <2>3 DEF FramesIntact
<1> QED BY FrameCodecInvariant, <1>1, PTL

(* A buffer overflows because of a frame that is too long for it, never    *)
(* because of the frames before it or of how the stream was cut.           *)
THEOREM FrameCodecOnlyLongOverflow == Spec => []OnlyLongOverflow
<1>1. IInv => OnlyLongOverflow
  BY DEF IInv
<1> QED BY FrameCodecInvariant, <1>1, PTL
=============================================================================
