----------------------------- MODULE WireProofs -----------------------------
(***************************************************************************)
(* Proofs about the framing, for every header length, limit, socket size   *)
(* and number of frames, however the socket cuts the stream.               *)
(***************************************************************************)
EXTENDS Wire, SequenceTheorems, TLAPS

(* The sizes of frames are numbers, with a header at least.                *)
LEMMA SizeType ==
    ASSUME NEW frame \in Frames
    PROVE  /\ Size(frame) \in Nat /\ Size(frame) >= HeaderLen /\ Size(frame) > 0
           /\ Size(frame) <= HeaderLen + MaxLen
           /\ frame.len \in Nat /\ frame.fd \in BOOLEAN /\ Size(frame) = HeaderLen + frame.len
  BY WireAssumption DEF Size, Frames

(* What is written is a sequence of n bytes.                               *)
LEMMA PieceType ==
    ASSUME NEW f \in Nat, NEW done \in Nat, NEW n \in Nat, NEW rider \in Nat
    PROVE  Piece(f, done, n, rider) \in Seq(Bytes) /\ Len(Piece(f, done, n, rider)) = n
  <1>1. Piece(f, done, n, rider) \in [1 .. n -> Bytes]
    BY DEF Piece, Bytes, NoFd
  <1>2. Piece(f, done, n, rider) \in Seq(Bytes)
    BY <1>1, SeqDef
  <1> QED BY <1>1, <1>2, LenProperties

(* A frame that is appended is the last, and leaves the others alone.      *)
LEMMA FramesGrow ==
    ASSUME TypeOK, NEW frame \in Frames, frames' = Append(frames, frame)
    PROVE  /\ frames' \in Seq(Frames) /\ Len(frames') = Len(frames) + 1 /\ frames' /= <<>>
           /\ \A k \in 1 .. Len(frames) : frames'[k] = frames[k]
           /\ frames'[Len(frames')] = frame /\ Last(frames') = frame
  BY DEF TypeOK, Last

(***************************************************************************)
(* n bytes of the frame under way go into the socket.                      *)
(***************************************************************************)
Writes(F, done, n, P) ==
    /\ TypeOK /\ \A i \in 1 .. Len(wire) : ByteInv(i)
    /\ n > 0 /\ done + n <= Size(frames'[F])
    /\ P \in Seq(Bytes) /\ Len(P) = n
    /\ \A i \in 1 .. n :
          /\ P[i].frame = F /\ P[i].pos = done + i
          /\ P[i].fd = IF done + i = 1 /\ frames'[F].fd THEN F ELSE NoFd
    /\ NextByte = [frame |-> F, pos |-> done + 1]
    /\ wire' = wire \o P
    /\ left' = Size(frames'[F]) - done - n
    /\ frames' \in Seq(Frames) /\ F = Len(frames') /\ F > 0
    /\ Len(frames) <= F /\ \A k \in 1 .. Len(frames) : frames'[k] = frames[k]

(* A piece of the last frame, appended to the socket, leaves the bytes     *)
(* there numbered in order, each with the frame and the descriptor it      *)
(* belongs to.                                                             *)
LEMMA WriteBytes ==
    ASSUME NEW F \in Nat, NEW done \in Nat, NEW n \in Nat, NEW P,
           Writes(F, done, n, P)
    PROVE  /\ wire' \in Seq(Bytes) /\ Len(wire') = Len(wire) + n
           /\ ByteAt(1)' = ByteAt(1)
           /\ \A i \in 1 .. Len(wire') : ByteInv(i)'
  <1>0. PICK L \in Nat : L = Len(wire)
    BY DEF TypeOK, Writes
  <1> DEFINE S == Size(frames'[F])
  <1>1. /\ L \in Nat /\ S \in Nat /\ wire \in Seq(Bytes) /\ Len(frames) \in Nat
        /\ F >= 1 /\ n >= 1 /\ done + n <= S /\ Len(frames) <= F
    BY <1>0, SizeType DEF TypeOK, Writes
  <1> HIDE DEF S
  <1>2. /\ wire' \in Seq(Bytes) /\ Len(wire') = L + n
        /\ \A i \in 1 .. L + n : wire'[i] = IF i <= L THEN wire[i] ELSE P[i - L]
    <2>1. wire' = wire \o P /\ P \in Seq(Bytes) /\ Len(P) = n
      BY DEF Writes
    <2> QED BY <1>0, <1>1, <2>1, ConcatProperties
  <1>a. \A i \in 1 .. L : wire'[i] = wire[i]
    BY <1>1, <1>2
  <1>b. ASSUME NEW i \in 1 .. n
        PROVE  /\ wire'[L + i].frame = F /\ wire'[L + i].pos = done + i
               /\ wire'[L + i].fd = IF done + i = 1 /\ frames'[F].fd THEN F ELSE NoFd
    <2>1. L + i \in 1 .. L + n /\ ~(L + i <= L) /\ (L + i) - L = i
      BY <1>1
    <2>2. wire'[L + i] = P[i]
      BY <1>2, <2>1
    <2> QED BY <2>2 DEF Writes
  <1>3. NextByte' = IF done + n < S THEN [frame |-> F, pos |-> done + n + 1]
                    ELSE [frame |-> F + 1, pos |-> 1]
    <2>1. left' = S - done - n /\ Len(frames') = F /\ Last(frames') = frames'[F]
      BY DEF Writes, S, Last
    <2>2. Size(Last(frames')) = S
      BY <2>1 DEF S
    <2>3. CASE done + n < S
      <3>1. left' > 0 /\ S - left' + 1 = done + n + 1
        BY <1>1, <2>1, <2>3
      <3> QED BY <2>1, <2>2, <2>3, <3>1 DEF NextByte
    <2>4. CASE ~(done + n < S)
      <3>1. ~(left' > 0)
        BY <1>1, <2>1, <2>4
      <3> QED BY <2>1, <2>4, <3>1 DEF NextByte
    <2> QED BY <2>3, <2>4
  <1>4. ASSUME NEW m \in 0 .. n
        PROVE  ByteAt(L + 1 + m)' = IF done + m < S THEN [frame |-> F, pos |-> done + m + 1]
                                    ELSE [frame |-> F + 1, pos |-> 1]
    <2>1. CASE m = n
      <3>1. ~(L + 1 + m <= Len(wire'))
        BY <1>1, <1>2, <2>1
      <3>2. ByteAt(L + 1 + m)' = NextByte'
        BY <3>1 DEF ByteAt
      <3> QED BY <1>3, <2>1, <3>2
    <2>2. CASE m < n
      <3>1. m + 1 \in 1 .. n /\ L + (m + 1) = L + 1 + m /\ L + 1 + m <= L + n
            /\ done + m < S /\ done + (m + 1) = done + m + 1
        BY <1>1, <2>2
      <3>2. wire'[L + (m + 1)].frame = F /\ wire'[L + (m + 1)].pos = done + (m + 1)
        BY <1>b, <3>1
      <3>3. ByteAt(L + 1 + m)' = [frame |-> F, pos |-> done + m + 1]
        BY <1>2, <3>1, <3>2 DEF ByteAt
      <3> QED BY <3>1, <3>3
    <2> QED BY <2>1, <2>2
  <1>5. ASSUME NEW j \in 1 .. L + 1 PROVE ByteAt(j)' = ByteAt(j)
    <2>1. CASE j = L + 1
      <3>1. 0 \in 0 .. n /\ done + 0 < S /\ L + 1 + 0 = L + 1 /\ done + 0 + 1 = done + 1
        BY <1>1
      <3>2. ByteAt(L + 1)' = [frame |-> F, pos |-> done + 1]
        BY <1>4, <3>1
      <3>3. ~(L + 1 <= L)
        BY <1>1
      <3>4. ByteAt(L + 1) = NextByte
        BY <1>0, <3>3 DEF ByteAt
      <3> QED BY <2>1, <3>2, <3>4 DEF Writes
    <2>2. CASE j \in 1 .. L
      <3>1. j <= L /\ j <= Len(wire')
        BY <1>1, <1>2, <2>2
      <3> QED BY <1>0, <1>a, <2>2, <3>1 DEF ByteAt
    <2> QED BY <1>1, <2>1, <2>2
  <1>6. ASSUME NEW i \in 1 .. L PROVE ByteInv(i)'
    <2> DEFINE f == wire[i].frame
               pos == wire[i].pos
               size == Size(frames[f])
    <2>a. ByteInv(i)
      BY <1>0 DEF Writes
    <2>1. /\ f \in 1 .. Len(frames) /\ pos \in 1 .. size
          /\ wire[i].fd = IF pos = 1 /\ frames[f].fd THEN f ELSE NoFd
          /\ \A j \in i + 1 .. L + 1 :
                /\ pos + j - i <= size => ByteAt(j) = [frame |-> f, pos |-> pos + j - i]
                /\ pos + j - i = size + 1 => ByteAt(j) = [frame |-> f + 1, pos |-> 1]
      BY <1>0, <2>a DEF ByteInv
    <2>2. frames[f] \in Frames
      <3>1. frames \in Seq(Frames)
        BY DEF TypeOK, Writes
      <3> QED BY <2>1, <3>1, ElementOfSeq
    <2>3. size \in Nat /\ pos \in Nat
      BY <2>1, <2>2, SizeType
    <2>4. wire'[i] = wire[i] /\ frames'[f] = frames[f]
      BY <1>a, <2>1 DEF Writes
    <2>5. ASSUME NEW j \in i + 1 .. Len(wire') + 1
          PROVE  /\ pos + j - i <= size => ByteAt(j)' = [frame |-> f, pos |-> pos + j - i]
                 /\ pos + j - i = size + 1 => ByteAt(j)' = [frame |-> f + 1, pos |-> 1]
      <3> HIDE DEF f, pos, size
      <3>1. CASE j <= L + 1
        <4>1. j \in 1 .. L + 1 /\ j \in i + 1 .. L + 1
          BY <1>1, <1>2, <3>1
        <4> QED BY <1>5, <2>1, <4>1
      <3>2. CASE j > L + 1 /\ pos + j - i <= size + 1
        <4>1. pos + (L + 1) - i <= size /\ L + 1 \in i + 1 .. L + 1
          BY <1>1, <1>2, <2>3, <3>2
        <4>2. ByteAt(L + 1) = [frame |-> f, pos |-> pos + (L + 1) - i]
          BY <2>1, <4>1
        <4>3. ~(L + 1 <= L)
          BY <1>1
        <4>4. ByteAt(L + 1) = [frame |-> F, pos |-> done + 1]
          BY <1>0, <4>3 DEF ByteAt, Writes
        <4>5. f = F /\ pos + (L + 1) - i = done + 1
          BY <4>2, <4>4
        <4>6. size = S
          BY <2>4, <4>5 DEF size, S
        <4> DEFINE m == j - (L + 1)
        <4>7. m \in 0 .. n /\ L + 1 + m = j /\ pos + j - i = done + m + 1
          BY <1>1, <1>2, <2>3, <3>2, <4>5
        <4> HIDE DEF m
        <4>8. ByteAt(j)' = IF done + m < S THEN [frame |-> F, pos |-> done + m + 1]
                           ELSE [frame |-> F + 1, pos |-> 1]
          BY <1>4, <4>7
        <4>9. (pos + j - i <= size <=> done + m < S) /\ (pos + j - i = size + 1 => ~(done + m < S))
          BY <1>1, <4>6, <4>7
        <4> QED BY <4>5, <4>7, <4>8, <4>9
      <3>3. CASE pos + j - i > size + 1
        BY <1>1, <1>2, <2>3, <3>3
      <3> QED BY <1>1, <1>2, <2>3, <3>1, <3>2, <3>3
    <2>6. Len(frames') = F /\ f \in 1 .. F
      BY <1>1, <2>1 DEF Writes
    <2> QED BY <2>1, <2>4, <2>5, <2>6 DEF ByteInv
  <1>7. ASSUME NEW q \in 1 .. n PROVE ByteInv(L + q)'
    <2>1. /\ wire'[L + q].frame = F /\ wire'[L + q].pos = done + q
          /\ wire'[L + q].fd = IF done + q = 1 /\ frames'[F].fd THEN F ELSE NoFd
      BY <1>b
    <2>2. F \in 1 .. Len(frames') /\ done + q \in 1 .. S
      BY <1>1 DEF Writes
    <2>3. ASSUME NEW j \in L + q + 1 .. Len(wire') + 1
          PROVE  /\ done + q + j - (L + q) <= S
                      => ByteAt(j)' = [frame |-> F, pos |-> done + q + j - (L + q)]
                 /\ done + q + j - (L + q) = S + 1 => ByteAt(j)' = [frame |-> F + 1, pos |-> 1]
      <3> DEFINE m == j - (L + 1)
      <3>1. m \in 0 .. n /\ L + 1 + m = j /\ done + q + j - (L + q) = done + m + 1
        BY <1>1, <1>2
      <3> HIDE DEF m
      <3>2. ByteAt(j)' = IF done + m < S THEN [frame |-> F, pos |-> done + m + 1]
                         ELSE [frame |-> F + 1, pos |-> 1]
        BY <1>4, <3>1
      <3> QED BY <1>1, <3>1, <3>2
    <2> QED BY <2>1, <2>2, <2>3 DEF ByteInv, S
  <1>8. ASSUME NEW i \in 1 .. Len(wire') PROVE ByteInv(i)'
    <2>1. CASE i <= L
      BY <1>1, <1>6, <2>1
    <2>2. CASE i > L
      <3>1. i - L \in 1 .. n /\ L + (i - L) = i
        BY <1>1, <1>2, <2>2
      <3> QED BY <1>7, <3>1
    <2> QED BY <1>1, <1>2, <2>1, <2>2
  <1>9. 1 \in 1 .. L + 1
    BY <1>1
  <1> QED BY <1>0, <1>2, <1>5, <1>8, <1>9

(***************************************************************************)
(* recvmsg takes n bytes out of the socket: they are the next ones of the  *)
(* frame that the receiver is in the middle of, and of no other.           *)
(***************************************************************************)
Reads(n) ==
    /\ TypeOK /\ RecvInv /\ \A i \in 1 .. Len(wire) : ByteInv(i)
    /\ receiver = "open"
    /\ n > 0 /\ n <= Want /\ n <= Len(wire)
    /\ wire' = SubSeq(wire, n + 1, Len(wire))
    /\ UNCHANGED sendVars

HasRead(n, K, p, S) ==
    /\ K \in 1 .. Len(frames) /\ S \in Nat /\ p + n <= S
    /\ \A i \in 1 .. n :
          /\ wire[i].frame = K /\ wire[i].pos = p + i
          /\ wire[i].fd = IF p + i = 1 /\ frames[K].fd THEN K ELSE NoFd
    /\ ByteAt(1)' = IF p + n < S THEN [frame |-> K, pos |-> p + n + 1]
                    ELSE [frame |-> K + 1, pos |-> 1]
    /\ wire' \in Seq(Bytes) /\ \A i \in 1 .. Len(wire') : ByteInv(i)'

(* What is taken from the front of the socket continues the frame the      *)
(* receiver is reading, and what remains is numbered as before.            *)
LEMMA ReadBytes ==
    ASSUME NEW n \in Nat, NEW K \in Nat, NEW p \in Nat, NEW S,
           Reads(n), K = ThisFrame, p = Len(buf), S = Size(frames[K])
    PROVE  HasRead(n, K, p, S)
  <1>0. PICK L \in Nat : L = Len(wire)
    BY DEF TypeOK, Reads
  <1>1. n \in 1 .. L /\ 1 \in 1 .. L /\ wire \in Seq(Bytes) /\ frames \in Seq(Frames)
    BY <1>0 DEF TypeOK, Reads
  <1>2. ASSUME NEW i \in 1 .. L PROVE ByteInv(i)
    BY <1>0 DEF Reads
  <1>3. wire[1].frame = K /\ wire[1].pos = p + 1
    <2>1. ByteAt(1) = [frame |-> K, pos |-> p + 1]
      BY DEF Reads, RecvInv
    <2>2. ByteAt(1) = [frame |-> wire[1].frame, pos |-> wire[1].pos]
      BY <1>0, <1>1 DEF ByteAt
    <2> QED BY <2>1, <2>2
  <1>4. /\ K \in 1 .. Len(frames) /\ p + 1 \in 1 .. S
        /\ wire[1].fd = IF p + 1 = 1 /\ frames[K].fd THEN K ELSE NoFd
        /\ \A j \in 2 .. L + 1 :
              /\ p + j <= S => ByteAt(j) = [frame |-> K, pos |-> p + j]
              /\ p + j = S + 1 => ByteAt(j) = [frame |-> K + 1, pos |-> 1]
    <2>1. ByteInv(1)
      BY <1>1, <1>2
    <2>2. /\ K \in 1 .. Len(frames) /\ p + 1 \in 1 .. S
          /\ wire[1].fd = IF p + 1 = 1 /\ frames[K].fd THEN K ELSE NoFd
          /\ \A j \in 1 + 1 .. L + 1 :
                /\ p + 1 + j - 1 <= S => ByteAt(j) = [frame |-> K, pos |-> p + 1 + j - 1]
                /\ p + 1 + j - 1 = S + 1 => ByteAt(j) = [frame |-> K + 1, pos |-> 1]
      BY <1>0, <1>3, <2>1 DEF ByteInv
    <2>3. \A j \in 2 .. L + 1 : j \in 1 + 1 .. L + 1 /\ p + 1 + j - 1 = p + j
      OBVIOUS
    <2> QED BY <2>2, <2>3
  <1>5. frames[K] \in Frames /\ S \in Nat /\ S >= HeaderLen
    BY <1>1, <1>4, ElementOfSeq, SizeType
  <1>6. p + n <= S
    <2>1. need = HeaderLen \/ need = S
      BY DEF Reads, RecvInv
    <2>2. n <= need - p /\ need \in Int
      BY WireAssumption DEF Reads, Want, TypeOK
    <2> QED BY <1>5, <2>1, <2>2, WireAssumption
  <1>7. ASSUME NEW i \in 1 .. n
        PROVE  /\ wire[i].frame = K /\ wire[i].pos = p + i
               /\ wire[i].fd = IF p + i = 1 /\ frames[K].fd THEN K ELSE NoFd
    <2>1. CASE i = 1
      BY <1>3, <1>4, <2>1
    <2>2. CASE i \in 2 .. n
      <3>1. i \in 2 .. L + 1 /\ i \in 1 .. L /\ p + i <= S
        BY <1>1, <1>5, <1>6, <2>2
      <3>2. ByteAt(i) = [frame |-> K, pos |-> p + i]
        BY <1>4, <3>1
      <3>3. ByteAt(i) = [frame |-> wire[i].frame, pos |-> wire[i].pos]
        BY <1>0, <3>1 DEF ByteAt
      <3>4. wire[i].frame = K /\ wire[i].pos = p + i
        BY <3>2, <3>3
      <3>5. ByteInv(i)
        BY <1>2, <3>1
      <3> QED BY <3>4, <3>5 DEF ByteInv
    <2> QED BY <2>1, <2>2
  <1>8. /\ wire' \in Seq(Bytes) /\ Len(wire') = L - n
        /\ \A i \in 1 .. L - n : wire'[i] = wire[i + n]
    <2>1. wire' = SubSeq(wire, n + 1, L)
      BY <1>0 DEF Reads
    <2>2. \A i \in n + 1 .. L : wire[i] \in Bytes
      BY <1>0, <1>1, ElementOfSeq
    <2>3. /\ wire' \in Seq(Bytes) /\ Len(wire') = IF n + 1 <= L THEN L - (n + 1) + 1 ELSE 0
          /\ \A i \in 1 .. L - (n + 1) + 1 : wire'[i] = wire[n + 1 + i - 1]
      BY <1>1, <2>1, <2>2, SubSeqProperties
    <2>4. L - (n + 1) + 1 = L - n /\ \A i \in 1 .. L - n : n + 1 + i - 1 = i + n
      BY <1>1
    <2>5. Len(wire') = L - n
      BY <1>1, <2>3
    <2> QED BY <2>3, <2>4, <2>5
  <1>9. ASSUME NEW j \in Nat, j >= 1 PROVE ByteAt(j)' = ByteAt(j + n)
    <2>1. NextByte' = NextByte
      BY DEF Reads, sendVars, NextByte
    <2>2. CASE j <= L - n
      <3>1. j + n <= L /\ wire'[j] = wire[j + n] /\ j <= Len(wire')
        BY <1>1, <1>8, <1>9, <2>2
      <3> QED BY <1>0, <3>1 DEF ByteAt
    <2>3. CASE ~(j <= L - n)
      <3>1. ~(j + n <= L) /\ ~(j <= Len(wire'))
        BY <1>1, <1>8, <2>3
      <3> QED BY <1>0, <2>1, <3>1 DEF ByteAt
    <2> QED BY <2>2, <2>3
  <1>10. ByteAt(1)' = IF p + n < S THEN [frame |-> K, pos |-> p + n + 1]
                      ELSE [frame |-> K + 1, pos |-> 1]
    <2>1. n + 1 \in 2 .. L + 1 /\ 1 + n = n + 1 /\ p + (n + 1) = p + n + 1
      BY <1>1
    <2>2. ByteAt(1)' = ByteAt(n + 1)
      BY <1>9, <2>1
    <2>3. (p + n < S => p + (n + 1) <= S) /\ (~(p + n < S) => p + (n + 1) = S + 1)
      BY <1>5, <1>6
    <2> QED BY <1>4, <2>1, <2>2, <2>3
  <1>11. ASSUME NEW i \in 1 .. Len(wire') PROVE ByteInv(i)'
    <2>1. i + n \in 1 .. L /\ wire'[i] = wire[i + n] /\ frames' = frames
      <3>1. i + n \in 1 .. L /\ i \in 1 .. L - n
        BY <1>1, <1>8
      <3> QED BY <1>8, <3>1 DEF Reads, sendVars
    <2> DEFINE f == wire[i + n].frame
               pos == wire[i + n].pos
               size == Size(frames[f])
    <2>2. ByteInv(i + n)
      BY <1>2, <2>1
    <2>3. /\ f \in 1 .. Len(frames) /\ pos \in 1 .. size
          /\ wire[i + n].fd = IF pos = 1 /\ frames[f].fd THEN f ELSE NoFd
          /\ \A j \in i + n + 1 .. L + 1 :
                /\ pos + j - (i + n) <= size => ByteAt(j) = [frame |-> f, pos |-> pos + j - (i + n)]
                /\ pos + j - (i + n) = size + 1 => ByteAt(j) = [frame |-> f + 1, pos |-> 1]
      BY <1>0, <2>2 DEF ByteInv
    <2>4. size \in Nat /\ pos \in Nat
      BY <1>1, <2>3, ElementOfSeq, SizeType
    <2>5. ASSUME NEW j \in i + 1 .. Len(wire') + 1
          PROVE  /\ pos + j - i <= size => ByteAt(j)' = [frame |-> f, pos |-> pos + j - i]
                 /\ pos + j - i = size + 1 => ByteAt(j)' = [frame |-> f + 1, pos |-> 1]
      <3> HIDE DEF f, pos, size
      <3>1. /\ j + n \in i + n + 1 .. L + 1 /\ j \in Nat /\ j >= 1
            /\ pos + (j + n) - (i + n) = pos + j - i
        BY <1>1, <1>8, <2>4
      <3>2. ByteAt(j)' = ByteAt(j + n)
        BY <1>9, <3>1
      <3> QED BY <2>3, <3>1, <3>2
    <2> QED BY <2>1, <2>3, <2>5 DEF ByteInv
  <1> QED BY <1>4, <1>5, <1>6, <1>7, <1>8, <1>10, <1>11 DEF HasRead

(* What recv_frame has read so far is the beginning of its frame, and the  *)
(* descriptor it has attached is that frame's.                             *)
HasPart(n, K, p, got, all) ==
    /\ all \in Seq(Bytes) /\ Len(all) = p + n
    /\ \A i \in 1 .. p + n : all[i].frame = K /\ all[i].pos = i
    /\ Attach(got) = IF frames[K].fd THEN K ELSE NoFd
    /\ p + n >= HeaderLen => HeaderOf(all) = frames[K]

(* Together with what was read before, the bytes read are a prefix of one  *)
(* frame; the descriptor recv_frame holds then is that frame's own or      *)
(* none, and once the header is complete it is that frame's.               *)
LEMMA ReadFrame ==
    ASSUME NEW n \in Nat, NEW K \in Nat, NEW p \in Nat, NEW got, NEW all,
           Reads(n), K = ThisFrame, p = Len(buf),
           got = SubSeq(wire, 1, n), all = buf \o got
    PROVE  HasPart(n, K, p, got, all)
  <1>1. /\ K \in 1 .. Len(frames)
        /\ \A i \in 1 .. n :
              /\ wire[i].frame = K /\ wire[i].pos = p + i
              /\ wire[i].fd = IF p + i = 1 /\ frames[K].fd THEN K ELSE NoFd
    <2>1. PICK S : S = Size(frames[K])
      OBVIOUS
    <2>2. HasRead(n, K, p, S)
      BY <2>1, ReadBytes
    <2> QED BY <2>2 DEF HasRead
  <1>2. /\ n > 0 /\ n <= Len(wire) /\ wire \in Seq(Bytes) /\ buf \in Seq(Bytes)
        /\ \A i \in 1 .. p : buf[i].frame = K /\ buf[i].pos = i
        /\ fd = IF buf /= <<>> /\ frames[K].fd THEN K ELSE NoFd
    BY DEF Reads, RecvInv, TypeOK
  <1>3. /\ got \in Seq(Bytes) /\ Len(got) = n
        /\ \A i \in 1 .. n : got[i] = wire[i]
    <2>1. \A i \in 1 .. n : wire[i] \in Bytes
      BY <1>2, ElementOfSeq
    <2>2. /\ got \in Seq(Bytes) /\ Len(got) = IF 1 <= n THEN n - 1 + 1 ELSE 0
          /\ \A i \in 1 .. n - 1 + 1 : got[i] = wire[1 + i - 1]
      BY <2>1, SubSeqProperties
    <2>3. n - 1 + 1 = n /\ 1 <= n /\ \A i \in 1 .. n : 1 + i - 1 = i
      BY <1>2
    <2> QED BY <2>2, <2>3
  <1>4. /\ all \in Seq(Bytes) /\ Len(all) = p + n
        /\ \A i \in 1 .. p + n : all[i] = IF i <= p THEN buf[i] ELSE got[i - p]
    BY <1>2, <1>3, ConcatProperties
  <1>5. ASSUME NEW i \in 1 .. p + n PROVE all[i].frame = K /\ all[i].pos = i
    <2>1. CASE i <= p
      BY <1>2, <1>4, <2>1
    <2>2. CASE ~(i <= p)
      <3>1. i - p \in 1 .. n /\ p + (i - p) = i
        BY <2>2
      <3>2. all[i] = wire[i - p]
        BY <1>3, <1>4, <2>2, <3>1
      <3> QED BY <1>1, <3>1, <3>2
    <2> QED BY <2>1, <2>2
  <1>6. Attach(got) = IF frames[K].fd THEN K ELSE NoFd
    <2> DEFINE carrying == {i \in DOMAIN got : got[i].fd /= NoFd}
    <2>1. DOMAIN got = 1 .. n /\ 1 \in 1 .. n
      BY <1>2, <1>3
    <2>2. CASE p = 0
      <3>1. buf = <<>>
        BY <1>2, <2>2, EmptySeq
      <3>2. fd = NoFd
        BY <1>2, <3>1
      <3>3. \A i \in 1 .. n : got[i].fd = IF i = 1 /\ frames[K].fd THEN K ELSE NoFd
        BY <1>1, <1>3, <2>2
      <3>4. CASE frames[K].fd
        <4>1. carrying = {1}
          BY <1>1, <2>1, <3>3, <3>4 DEF NoFd
        <4> HIDE DEF carrying
        <4>2. (CHOOSE i \in carrying : \A j \in carrying : i <= j) = 1
          <5>1. 1 \in carrying /\ (\A j \in carrying : 1 <= j) /\ \A i \in carrying : i = 1
            BY <4>1
          <5> QED BY <5>1
        <4>3. got[1].fd = K
          BY <2>1, <3>3, <3>4
        <4> QED BY <3>2, <3>4, <4>1, <4>2, <4>3 DEF Attach, carrying
      <3>5. CASE ~frames[K].fd
        <4>1. carrying = {}
          BY <2>1, <3>3, <3>5
        <4> QED BY <3>2, <3>5, <4>1 DEF Attach
      <3> QED BY <3>4, <3>5
    <2>3. CASE p > 0
      <3>1. buf /= <<>>
        BY <1>2, <2>3, EmptySeq
      <3>2. \A i \in 1 .. n : got[i].fd = NoFd
        BY <1>1, <1>3, <2>3
      <3>3. carrying = {}
        BY <2>1, <3>2
      <3> QED BY <1>2, <3>1, <3>3 DEF Attach
    <2> QED BY <2>2, <2>3
  <1>7. ASSUME p + n >= HeaderLen PROVE HeaderOf(all) = frames[K]
    <2>1. HeaderLen >= 1 /\ \A i \in 1 .. HeaderLen : i \in 1 .. p + n
      BY <1>7, WireAssumption
    <2>2. 1 \in 1 .. p + n
      BY <1>2
    <2> QED BY <1>5, <2>1, <2>2 DEF HeaderOf
  <1> QED BY <1>4, <1>5, <1>6, <1>7 DEF HasPart

(***************************************************************************)
(* The steps of the sender.                                                *)
(***************************************************************************)
Inv == TypeOK /\ WireInv /\ FramesIntact /\ NoFalseAlarm

(* Frames sent so far stay as they are.                                    *)
FramesKept ==
    /\ frames' \in Seq(Frames) /\ Len(frames) <= Len(frames')
    /\ \A k \in 1 .. Len(frames) : frames'[k] = frames[k]

(* The receiver is not disturbed by what is written behind the next byte.  *)
LEMMA SenderOnly ==
    ASSUME Inv, UNCHANGED recvVars, FramesKept, ByteAt(1)' = ByteAt(1),
           sender' /= "closed" => sender /= "closed"
    PROVE  /\ RecvInv' /\ FramesIntact' /\ NoFalseAlarm'
           /\ Len(received') <= Len(frames')
  <1>1. /\ frames \in Seq(Frames) /\ received \in Seq([frame : Nat, fd : Nat])
        /\ buf \in Seq(Bytes) /\ Len(received) <= Len(frames)
        /\ Len(frames) \in Nat /\ Len(frames') \in Nat /\ Len(received) \in Nat
    BY DEF Inv, TypeOK, WireInv, FramesKept
  <1>2. UNCHANGED <<buf, need, cap, fd, received, receiver>>
    BY DEF recvVars
  <1>3. FramesIntact'
    <2> SUFFICES ASSUME NEW m \in 1 .. Len(received')
                 PROVE  /\ received'[m] = [frame |-> m, fd |-> IF frames'[m].fd THEN m ELSE NoFd]
                        /\ frames'[m].header = "good"
      BY DEF FramesIntact
    <2>1. m \in 1 .. Len(received) /\ frames'[m] = frames[m]
      BY <1>1, <1>2 DEF FramesKept
    <2> QED BY <1>2, <2>1 DEF Inv, FramesIntact
  <1>4. NoFalseAlarm'
    <2> SUFFICES ASSUME receiver' = "failed", sender' /= "closed"
                 PROVE  \E m \in 1 .. Len(frames') : frames'[m].header /= "good"
      BY DEF NoFalseAlarm
    <2>1. PICK m \in 1 .. Len(frames) : frames[m].header /= "good"
      BY <1>2 DEF Inv, NoFalseAlarm
    <2>2. m \in 1 .. Len(frames') /\ frames'[m] = frames[m]
      BY <1>1 DEF FramesKept
    <2> QED BY <2>1, <2>2
  <1>5. RecvInv'
    <2> SUFFICES ASSUME receiver = "open" PROVE RecvInv'
      BY <1>2 DEF RecvInv
    <2>1. PICK K \in Nat : K = ThisFrame
      BY <1>1 DEF ThisFrame
    <2>2. K = ThisFrame'
      BY <1>2, <2>1 DEF ThisFrame
    <2>3. RecvInv
      BY DEF Inv, WireInv
    <2>4. buf /= <<>> => frames'[K] = frames[K] /\ K <= Len(frames')
      BY <1>1, <2>1, <2>3 DEF RecvInv, FramesKept, ThisFrame
    <2>5. HeaderLen <= Len(buf) => buf /= <<>>
      BY <1>1, EmptySeq, WireAssumption
    <2> QED BY <1>2, <2>1, <2>2, <2>3, <2>4, <2>5 DEF RecvInv
  <1>6. Len(received') <= Len(frames')
    BY <1>1, <1>2 DEF FramesKept
  <1> QED BY <1>3, <1>4, <1>5, <1>6

(* Starting to write a frame without a descriptor keeps the invariant.     *)
LEMMA SendPlainStep ==
    ASSUME Inv, NEW frame \in Frames, SendPlain(frame)
    PROVE  Inv'
  <1>1. /\ frames' = Append(frames, frame) /\ left' = Size(frame) /\ left = 0 /\ ~frame.fd
        /\ Len(frames) < MaxFrames /\ UNCHANGED <<sender, wire>> /\ UNCHANGED recvVars
    BY DEF SendPlain
  <1>2. TypeOK
    BY DEF Inv
  <1>3. /\ frames' \in Seq(Frames) /\ Len(frames') = Len(frames) + 1 /\ frames' /= <<>>
        /\ \A k \in 1 .. Len(frames) : frames'[k] = frames[k]
        /\ frames'[Len(frames')] = frame /\ Last(frames') = frame
    BY <1>1, <1>2, FramesGrow
  <1>4. FramesKept
    BY <1>2, <1>3 DEF FramesKept, TypeOK
  <1>5. Size(frame) \in Nat /\ Size(frame) > 0 /\ Size(frame) <= HeaderLen + MaxLen
    BY SizeType
  <1>6. NextByte' = NextByte
    <2>1. NextByte = [frame |-> Len(frames) + 1, pos |-> 1]
      BY <1>1 DEF NextByte
    <2>2. NextByte' = [frame |-> Len(frames) + 1, pos |-> 1]
      BY <1>1, <1>3, <1>5 DEF NextByte
    <2> QED BY <2>1, <2>2
  <1>7. \A j : ByteAt(j)' = ByteAt(j)
    BY <1>1, <1>6 DEF ByteAt
  <1>8. ASSUME NEW i \in 1 .. Len(wire') PROVE ByteInv(i)'
    <2>1. i \in 1 .. Len(wire) /\ wire' = wire
      BY <1>1
    <2>2. ByteInv(i)
      BY <2>1 DEF Inv, WireInv
    <2>3. wire[i].frame \in 1 .. Len(frames)
      BY <2>2 DEF ByteInv
    <2>4. frames'[wire[i].frame] = frames[wire[i].frame] /\ wire[i].frame \in 1 .. Len(frames')
      BY <1>2, <1>3, <2>3 DEF TypeOK
    <2> QED BY <1>7, <2>1, <2>2, <2>4 DEF ByteInv
  <1>9. SendInv'
    BY <1>1, <1>2, <1>3, <1>5, WireAssumption DEF SendInv, TypeOK
  <1>10. TypeOK'
    BY <1>1, <1>2, <1>3, <1>5, WireAssumption DEF TypeOK, recvVars
  <1>11. /\ RecvInv' /\ FramesIntact' /\ NoFalseAlarm'
         /\ Len(received') <= Len(frames')
    BY <1>1, <1>4, <1>7, SenderOnly
  <1> QED BY <1>8, <1>9, <1>10, <1>11 DEF Inv, WireInv

(* n more bytes of the last frame are written.                             *)
LEMMA WriteStep ==
    ASSUME Inv, NEW F \in Nat, NEW done \in Nat, NEW n \in Nat, NEW P,
           Writes(F, done, n, P), UNCHANGED recvVars, UNCHANGED sender, F <= MaxFrames
    PROVE  Inv'
  <1>1. /\ wire' \in Seq(Bytes) /\ Len(wire') = Len(wire) + n
        /\ ByteAt(1)' = ByteAt(1)
        /\ \A i \in 1 .. Len(wire') : ByteInv(i)'
    BY WriteBytes
  <1>2. FramesKept
    BY DEF Writes, FramesKept
  <1>3. /\ RecvInv' /\ FramesIntact' /\ NoFalseAlarm'
        /\ Len(received') <= Len(frames')
    BY <1>1, <1>2, SenderOnly
  <1>4. /\ frames' \in Seq(Frames) /\ F = Len(frames') /\ F > 0 /\ n > 0
        /\ left' = Size(frames'[F]) - done - n /\ done + n <= Size(frames'[F])
    BY DEF Writes
  <1>5. /\ Size(frames'[F]) \in Nat /\ Size(frames'[F]) <= HeaderLen + MaxLen
        /\ frames' /= <<>> /\ Last(frames') = frames'[F]
    BY <1>4, ElementOfSeq, SizeType, EmptySeq DEF Last
  <1>6. left' < Size(frames'[F]) /\ left' \in 0 .. HeaderLen + MaxLen
    BY <1>4, <1>5, WireAssumption
  <1>7. SendInv'
    BY <1>4, <1>5, <1>6 DEF SendInv
  <1>8. TypeOK'
    BY <1>1, <1>4, <1>6 DEF Inv, TypeOK, recvVars
  <1> QED BY <1>1, <1>3, <1>7, <1>8 DEF Inv, WireInv

(* sendmsg of a first piece with the descriptor keeps it.                  *)
LEMMA SendWithFdStep ==
    ASSUME Inv, NEW frame \in Frames, SendWithFd(frame), sender' = "open"
    PROVE  Inv'
  <1>1. PICK n \in 1 .. Size(frame) :
            /\ frames' = Append(frames, frame)
            /\ wire' = wire \o Piece(Len(frames) + 1, 0, n, Len(frames) + 1)
            /\ left' = Size(frame) - n
            /\ UNCHANGED sender
    BY DEF SendWithFd
  <1>2. left = 0 /\ frame.fd /\ Len(frames) < MaxFrames /\ UNCHANGED recvVars
    BY DEF SendWithFd
  <1>3. TypeOK /\ frames \in Seq(Frames) /\ Len(frames) \in Nat
    BY DEF Inv, TypeOK
  <1>4. /\ frames' \in Seq(Frames) /\ Len(frames') = Len(frames) + 1 /\ frames' /= <<>>
        /\ \A k \in 1 .. Len(frames) : frames'[k] = frames[k]
        /\ frames'[Len(frames')] = frame /\ Last(frames') = frame
    BY <1>1, <1>3, FramesGrow
  <1>5. Size(frame) \in Nat /\ n \in Nat /\ n > 0 /\ n <= Size(frame)
    BY SizeType
  <1>6. PICK F \in Nat : F = Len(frames) + 1
    BY <1>3
  <1>7. PICK P : P = Piece(F, 0, n, F)
    OBVIOUS
  <1>8. P \in Seq(Bytes) /\ Len(P) = n
    BY <1>5, <1>7, PieceType
  <1>9. ASSUME NEW i \in 1 .. n
        PROVE  /\ P[i].frame = F /\ P[i].pos = 0 + i
               /\ P[i].fd = IF 0 + i = 1 /\ frames'[F].fd THEN F ELSE NoFd
    <2>1. /\ P[i].frame = F /\ P[i].pos = 0 + i
          /\ P[i].fd = IF 0 + i = 1 THEN F ELSE NoFd
      BY <1>5, <1>7 DEF Piece
    <2>2. frames'[F].fd
      BY <1>2, <1>4, <1>6
    <2> QED BY <2>1, <2>2
  <1>10. NextByte = [frame |-> F, pos |-> 0 + 1]
    BY <1>2, <1>6 DEF NextByte
  <1>11. /\ F = Len(frames') /\ F > 0 /\ Len(frames) <= F /\ F <= MaxFrames
         /\ frames'[F] = frame
    BY <1>2, <1>3, <1>4, <1>6, WireAssumption
  <1>12. left' = Size(frames'[F]) - 0 - n /\ 0 + n <= Size(frames'[F])
    BY <1>1, <1>5, <1>11
  <1>13. \A i \in 1 .. Len(wire) : ByteInv(i)
    BY DEF Inv, WireInv
  <1>14. wire' = wire \o P
    BY <1>1, <1>6, <1>7
  <1>15. Writes(F, 0, n, P)
    BY <1>3, <1>4, <1>5, <1>8, <1>9, <1>10, <1>11, <1>12, <1>13, <1>14 DEF Writes
  <1> QED BY <1>1, <1>2, <1>5, <1>11, <1>15, WriteStep

(* Writing more of the frame keeps it.                                     *)
LEMMA WriteRestStep ==
    ASSUME Inv, WriteRest
    PROVE  Inv'
  <1>1. PICK n \in 1 .. left :
            /\ wire' = wire \o Piece(Len(frames), Size(Last(frames)) - left, n, NoFd)
            /\ left' = left - n
    BY DEF WriteRest
  <1>2. left > 0 /\ UNCHANGED <<frames, sender>> /\ UNCHANGED recvVars
    BY DEF WriteRest
  <1>3. TypeOK /\ frames \in Seq(Frames) /\ Len(frames) \in Nat /\ left \in Nat /\ n \in Nat /\ n > 0 /\ n <= left
    BY DEF Inv, TypeOK
  <1>4. /\ frames /= <<>> /\ left <= Size(Last(frames)) /\ Len(frames) <= MaxFrames
        /\ Last(frames).fd => left < Size(Last(frames))
    BY <1>2 DEF Inv, WireInv, SendInv
  <1>5. PICK F \in Nat : F = Len(frames)
    BY <1>3
  <1>6. F > 0 /\ Last(frames) = frames[F] /\ frames[F] \in Frames
    BY <1>3, <1>4, <1>5, EmptySeq, ElementOfSeq DEF Last
  <1>7. Size(frames[F]) \in Nat
    BY <1>6, SizeType
  <1>8. PICK done \in Nat : done = Size(frames[F]) - left
    BY <1>3, <1>4, <1>6, <1>7
  <1>9. PICK P : P = Piece(F, done, n, NoFd)
    OBVIOUS
  <1>10. P \in Seq(Bytes) /\ Len(P) = n
    <2>1. PICK rider \in Nat : rider = NoFd
      BY DEF NoFd
    <2>2. Piece(F, done, n, rider) \in Seq(Bytes) /\ Len(Piece(F, done, n, rider)) = n
      <3>1. n \in Nat
        BY <1>3
      <3> QED BY <3>1, PieceType
    <2> QED BY <1>9, <2>1, <2>2
  <1>11. ASSUME NEW i \in 1 .. n
         PROVE  /\ P[i].frame = F /\ P[i].pos = done + i
                /\ P[i].fd = IF done + i = 1 /\ frames'[F].fd THEN F ELSE NoFd
    <2>1. P[i].frame = F /\ P[i].pos = done + i /\ P[i].fd = NoFd
      BY <1>3, <1>9 DEF Piece
    <2>2. frames'[F].fd => done + i /= 1
      BY <1>2, <1>3, <1>4, <1>6, <1>7, <1>8
    <2> QED BY <2>1, <2>2
  <1>12. NextByte = [frame |-> F, pos |-> done + 1]
    BY <1>2, <1>5, <1>6, <1>8 DEF NextByte
  <1>13. left' = Size(frames'[F]) - done - n /\ done + n <= Size(frames'[F])
    BY <1>1, <1>2, <1>3, <1>7, <1>8
  <1>14. wire' = wire \o P
    BY <1>1, <1>5, <1>6, <1>8, <1>9
  <1>15. \A i \in 1 .. Len(wire) : ByteInv(i)
    BY DEF Inv, WireInv
  <1>16. Writes(F, done, n, P)
    BY <1>2, <1>3, <1>5, <1>6, <1>10, <1>11, <1>12, <1>13, <1>14, <1>15 DEF Writes
  <1> QED BY <1>2, <1>3, <1>4, <1>5, <1>16, WriteStep

(* The sender gives up or closes; nothing is written.                      *)
LEMMA SenderEnds ==
    ASSUME Inv, UNCHANGED <<frames, left, wire>>, UNCHANGED recvVars,
           sender' \in {"failed", "closed"}, sender' /= "closed" => sender /= "closed"
    PROVE  Inv'
  <1>1. TypeOK' /\ FramesKept
    BY DEF Inv, TypeOK, recvVars, FramesKept
  <1>2. NextByte' = NextByte /\ \A j : ByteAt(j)' = ByteAt(j)
    BY DEF NextByte, ByteAt
  <1>3. SendInv' /\ \A i \in 1 .. Len(wire') : ByteInv(i)'
    BY <1>2 DEF Inv, WireInv, SendInv, ByteInv
  <1>4. /\ RecvInv' /\ FramesIntact' /\ NoFalseAlarm'
        /\ Len(received') <= Len(frames')
    BY <1>1, <1>2, SenderOnly
  <1> QED BY <1>1, <1>3, <1>4 DEF Inv, WireInv

(***************************************************************************)
(* The steps of the receiver.                                              *)
(***************************************************************************)

(* recv_frame refuses the header of the frame it is in, and no other's.    *)
LEMMA RejectStep ==
    ASSUME Inv, NEW K \in 1 .. Len(frames), frames[K].header /= "good", Reject,
           UNCHANGED sendVars, wire' \in Seq(Bytes),
           \A i \in 1 .. Len(wire') : ByteInv(i)'
    PROVE  Inv'
  <1>1. receiver' = "failed" /\ UNCHANGED <<buf, need, cap, fd, received>>
        /\ UNCHANGED <<frames, left, sender>>
    BY DEF Reject, sendVars
  <1>2. TypeOK'
    BY <1>1 DEF Inv, TypeOK
  <1>3. SendInv' /\ RecvInv' /\ FramesIntact' /\ NoFalseAlarm' /\ Len(received') <= Len(frames')
    BY <1>1 DEF Inv, WireInv, SendInv, RecvInv, FramesIntact, NoFalseAlarm
  <1> QED BY <1>2, <1>3 DEF Inv, WireInv

(* The frame is complete and returned.                                     *)
LEMMA ReturnStep ==
    ASSUME Inv, NEW K \in 1 .. Len(frames), K = ThisFrame, frames[K].header = "good",
           NEW all, all[1].frame = K, NEW attached,
           attached = IF frames[K].fd THEN K ELSE NoFd, Return(all, attached),
           receiver = "open",
           UNCHANGED sendVars, wire' \in Seq(Bytes),
           ByteAt(1)' = [frame |-> K + 1, pos |-> 1],
           \A i \in 1 .. Len(wire') : ByteInv(i)'
    PROVE  Inv'
  <1>1. /\ received' = Append(received, [frame |-> K, fd |-> attached])
        /\ buf' = <<>> /\ need' = HeaderLen /\ cap' = HeaderLen + Slack /\ fd' = NoFd
        /\ UNCHANGED receiver /\ UNCHANGED <<frames, left, sender>>
    BY DEF Return, sendVars
  <1>2. /\ received \in Seq([frame : Nat, fd : Nat]) /\ Len(received) \in Nat
        /\ frames \in Seq(Frames) /\ Len(frames) \in Nat
        /\ K = Len(received) + 1 /\ TypeOK
    BY DEF Inv, TypeOK, ThisFrame
  <1>3. [frame |-> K, fd |-> attached] \in [frame : Nat, fd : Nat]
    BY DEF NoFd
  <1>4. /\ received' \in Seq([frame : Nat, fd : Nat]) /\ Len(received') = K
        /\ received'[K] = [frame |-> K, fd |-> attached]
        /\ \A m \in 1 .. Len(received) : received'[m] = received[m]
    BY <1>1, <1>2, <1>3
  <1>5. TypeOK'
    <2>1. /\ need' \in HeaderLen .. HeaderLen + MaxLen /\ cap' \in Nat /\ fd' \in 0 .. MaxFrames
          /\ buf' \in Seq(Bytes)
      BY <1>1, WireAssumption DEF NoFd
    <2> QED BY <1>1, <1>2, <1>4, <2>1 DEF TypeOK
  <1>6. FramesIntact'
    <2> SUFFICES ASSUME NEW m \in 1 .. Len(received')
                 PROVE  /\ received'[m] = [frame |-> m, fd |-> IF frames[m].fd THEN m ELSE NoFd]
                        /\ frames[m].header = "good"
      BY <1>1 DEF FramesIntact
    <2>1. CASE m = K
      BY <1>4, <2>1
    <2>2. CASE m \in 1 .. Len(received)
      BY <1>4, <2>2 DEF Inv, FramesIntact
    <2>3. m \in 1 .. Len(received) + 1
      BY <1>2, <1>4
    <2>4. m = Len(received) + 1 \/ m \in 1 .. Len(received)
      BY <1>2, <2>3
    <2> QED BY <1>2, <2>1, <2>2, <2>4
  <1>7. RecvInv'
    <2>1. ThisFrame' = K + 1 /\ Len(buf') = 0 /\ 0 + 1 = 1
      BY <1>1, <1>4 DEF ThisFrame
    <2>2. ByteAt(1)' = [frame |-> ThisFrame', pos |-> Len(buf') + 1]
      BY <2>1
    <2>3. Len(buf') < need' /\ need' <= cap' /\ \A i \in 1 .. Len(buf') : FALSE
      BY <1>1, <2>1, WireAssumption
    <2> QED BY <1>1, <2>2, <2>3 DEF RecvInv
  <1>8. SendInv' /\ NoFalseAlarm' /\ Len(received') <= Len(frames')
    BY <1>1, <1>2, <1>4 DEF Inv, WireInv, SendInv, NoFalseAlarm
  <1> QED BY <1>5, <1>6, <1>7, <1>8 DEF Inv, WireInv

(* The frame is not complete yet.                                          *)
LEMMA ContinueStep ==
    ASSUME Inv, NEW K \in 1 .. Len(frames), K = ThisFrame,
           NEW all \in Seq(Bytes), all /= <<>>,
           \A i \in 1 .. Len(all) : all[i].frame = K /\ all[i].pos = i,
           NEW attached, attached = IF frames[K].fd THEN K ELSE NoFd,
           NEW wanted \in Nat, NEW room \in Nat, wanted <= room, Len(all) < wanted,
           \/ wanted = HeaderLen
           \/ /\ wanted = Size(frames[K]) /\ HeaderLen <= Len(all)
              /\ frames[K].header = "good",
           Continue(all, wanted, room, attached), receiver = "open",
           UNCHANGED sendVars, wire' \in Seq(Bytes),
           ByteAt(1)' = [frame |-> K, pos |-> Len(all) + 1],
           \A i \in 1 .. Len(wire') : ByteInv(i)'
    PROVE  Inv'
  <1>1. /\ buf' = all /\ need' = wanted /\ cap' = room /\ fd' = attached
        /\ UNCHANGED <<received, receiver>> /\ UNCHANGED <<frames, left, sender>>
    BY DEF Continue, sendVars
  <1>2. /\ frames \in Seq(Frames) /\ Len(frames) \in Nat /\ Len(frames) <= MaxFrames
        /\ K = Len(received) + 1 /\ TypeOK
    BY DEF Inv, TypeOK, ThisFrame, WireInv, SendInv
  <1>3. wanted \in HeaderLen .. HeaderLen + MaxLen
    <2>1. frames[K] \in Frames
      BY <1>2, ElementOfSeq
    <2>2. /\ Size(frames[K]) \in Nat /\ Size(frames[K]) >= HeaderLen
          /\ Size(frames[K]) <= HeaderLen + MaxLen
      BY <2>1, SizeType
    <2> QED BY <2>2, WireAssumption
  <1>4. attached \in 0 .. MaxFrames
    BY <1>2, WireAssumption DEF NoFd
  <1>5. TypeOK'
    BY <1>1, <1>2, <1>3, <1>4 DEF TypeOK
  <1>6. ThisFrame' = K
    BY <1>1 DEF ThisFrame
  <1>7. RecvInv'
    BY <1>1, <1>2, <1>6 DEF RecvInv
  <1>8. SendInv' /\ NoFalseAlarm' /\ FramesIntact' /\ Len(received') <= Len(frames')
    BY <1>1 DEF Inv, WireInv, SendInv, NoFalseAlarm, FramesIntact
  <1> QED BY <1>5, <1>7, <1>8 DEF Inv, WireInv

(* A recvmsg of any length, with all that recv_frame does with it, keeps   *)
(* it.                                                                     *)
LEMMA ReceiveStep ==
    ASSUME Inv, Receive
    PROVE  Inv'
  <1>1. TypeOK /\ RecvInv /\ receiver = "open" /\ UNCHANGED sendVars /\ Len(received) \in Nat
        /\ Len(buf) \in Nat /\ need \in Nat /\ cap \in Nat /\ frames \in Seq(Frames)
    BY WireAssumption DEF Inv, WireInv, Receive, TypeOK
  <1>2. PICK n \in 1 .. Want :
            /\ n <= Len(wire)
            /\ wire' = SubSeq(wire, n + 1, Len(wire))
            /\ LET got == SubSeq(wire, 1, n)
                   all == buf \o got
                   attached == Attach(got)
                   header == HeaderOf(all)
                   wanted == HeaderLen + header.len
               IN  IF need = HeaderLen /\ Len(all) >= HeaderLen
                   THEN IF header.header /= "good" THEN Reject
                        ELSE IF Whole(all, wanted) THEN Return(all, attached)
                        ELSE Continue(all, wanted, Reserve(wanted), attached)
                   ELSE IF need > HeaderLen /\ Whole(all, need) THEN Return(all, attached)
                        ELSE Continue(all, need, cap, attached)
    BY DEF Receive
  <1>3. n \in Nat /\ n > 0 /\ n <= Want /\ Want = need - Len(buf)
    BY <1>1 DEF Want
  <1>4. Reads(n)
    BY <1>1, <1>2, <1>3 DEF Inv, WireInv, Reads
  <1>5. PICK K \in Nat : K = ThisFrame
    BY <1>1 DEF ThisFrame
  <1>6. PICK p \in Nat : p = Len(buf)
    BY <1>1
  <1>7. PICK S : S = Size(frames[K])
    OBVIOUS
  <1>8. HasRead(n, K, p, S)
    BY <1>3, <1>4, <1>5, <1>6, <1>7, ReadBytes
  <1>9. /\ K \in 1 .. Len(frames) /\ S \in Nat /\ p + n <= S
        /\ ByteAt(1)' = IF p + n < S THEN [frame |-> K, pos |-> p + n + 1]
                        ELSE [frame |-> K + 1, pos |-> 1]
        /\ wire' \in Seq(Bytes) /\ \A i \in 1 .. Len(wire') : ByteInv(i)'
    BY <1>8 DEF HasRead
  <1>10. PICK got : got = SubSeq(wire, 1, n)
    OBVIOUS
  <1>11. PICK all : all = buf \o got
    OBVIOUS
  <1>12. PICK attached : attached = Attach(got)
    OBVIOUS
  <1>13. /\ all \in Seq(Bytes) /\ Len(all) = p + n
         /\ \A i \in 1 .. p + n : all[i].frame = K /\ all[i].pos = i
         /\ attached = IF frames[K].fd THEN K ELSE NoFd
         /\ p + n >= HeaderLen => HeaderOf(all) = frames[K]
    <2>1. HasPart(n, K, p, got, all)
      BY <1>3, <1>4, <1>5, <1>6, <1>10, <1>11, ReadFrame
    <2> QED BY <1>12, <2>1 DEF HasPart
  <1>14. /\ 1 \in 1 .. p + n /\ all[1].frame = K /\ all /= <<>>
         /\ \A i \in 1 .. Len(all) : all[i].frame = K /\ all[i].pos = i
    <2>1. 1 \in 1 .. p + n /\ Len(all) > 0
      BY <1>3, <1>13
    <2> QED BY <1>13, <2>1, EmptySeq
  <1>15. /\ S >= HeaderLen /\ S = HeaderLen + frames[K].len /\ S <= HeaderLen + MaxLen
    <2>1. frames[K] \in Frames
      BY <1>1, <1>9, ElementOfSeq
    <2> QED BY <1>7, <2>1, SizeType
  <1>16. /\ p + n <= need /\ need <= cap
         /\ need = HeaderLen \/ (need = S /\ HeaderLen <= p /\ frames[K].header = "good")
    <2>1. p + n <= need
      BY <1>1, <1>3, <1>6
    <2> QED BY <1>1, <1>5, <1>6, <1>7, <2>1 DEF RecvInv
  <1>17. IF need = HeaderLen /\ p + n >= HeaderLen
         THEN IF frames[K].header /= "good" THEN Reject
              ELSE IF p + n >= S THEN Return(all, attached)
              ELSE Continue(all, S, Reserve(S), attached)
         ELSE IF need > HeaderLen /\ p + n >= need THEN Return(all, attached)
              ELSE Continue(all, need, cap, attached)
    BY <1>2, <1>10, <1>11, <1>12, <1>13, <1>15 DEF Whole
  <1>18. CASE Reject /\ frames[K].header /= "good"
    BY <1>1, <1>9, <1>18, RejectStep
  <1>19. CASE Return(all, attached) /\ frames[K].header = "good" /\ p + n = S
    <2>1. ByteAt(1)' = [frame |-> K + 1, pos |-> 1]
      BY <1>9, <1>19
    <2> QED BY <1>1, <1>5, <1>9, <1>13, <1>14, <1>19, <2>1, ReturnStep
  <1>20. ASSUME NEW wanted \in Nat, NEW room \in Nat, wanted <= room, p + n < wanted,
                \/ wanted = HeaderLen
                \/ wanted = S /\ HeaderLen <= p + n /\ frames[K].header = "good",
                Continue(all, wanted, room, attached)
         PROVE  Inv'
    <2>1. p + n < S
      BY <1>9, <1>15, <1>20, WireAssumption
    <2>2. ByteAt(1)' = [frame |-> K, pos |-> Len(all) + 1]
      BY <1>9, <1>13, <2>1
    <2>3. /\ all \in Seq(Bytes) /\ Len(all) < wanted
          /\ \/ wanted = HeaderLen
             \/ wanted = Size(frames[K]) /\ HeaderLen <= Len(all) /\ frames[K].header = "good"
      BY <1>7, <1>13, <1>20
    <2> QED BY <1>1, <1>5, <1>9, <1>13, <1>14, <1>20, <2>2, <2>3, ContinueStep
  <1>21. CASE need = HeaderLen /\ p + n >= HeaderLen
    <2>1. CASE frames[K].header /= "good"
      BY <1>17, <1>18, <1>21, <2>1
    <2>2. CASE frames[K].header = "good" /\ p + n >= S
      <3>1. p + n = S
        BY <1>3, <1>9, <2>2
      <3> QED BY <1>17, <1>19, <1>21, <2>2, <3>1
    <2>3. CASE frames[K].header = "good" /\ ~(p + n >= S)
      <3>1. Continue(all, S, Reserve(S), attached)
        BY <1>17, <1>21, <2>3
      <3>2. Reserve(S) \in Nat /\ S <= Reserve(S) /\ p + n < S /\ HeaderLen <= p + n
        BY <1>1, <1>3, <1>9, <1>21, <2>3, WireAssumption DEF Reserve, AtLeast
      <3>3. PICK room \in Nat : room = Reserve(S)
        BY <3>2
      <3> QED BY <1>9, <1>20, <2>3, <3>1, <3>2, <3>3
    <2> QED BY <2>1, <2>2, <2>3
  <1>22. CASE ~(need = HeaderLen /\ p + n >= HeaderLen) /\ need > HeaderLen /\ p + n >= need
    <2>1. Return(all, attached)
      BY <1>17, <1>22
    <2>2. frames[K].header = "good" /\ p + n = S
      BY <1>1, <1>3, <1>16, <1>22, WireAssumption
    <2> QED BY <1>19, <2>1, <2>2
  <1>23. CASE ~(need = HeaderLen /\ p + n >= HeaderLen) /\ ~(need > HeaderLen /\ p + n >= need)
    <2>1. Continue(all, need, cap, attached)
      BY <1>17, <1>23
    <2>2. /\ need \in Nat /\ cap \in Nat /\ need <= cap /\ p + n < need
          /\ \/ need = HeaderLen
             \/ need = S /\ HeaderLen <= p + n /\ frames[K].header = "good"
      BY <1>1, <1>3, <1>9, <1>15, <1>16, <1>23, WireAssumption
    <2>3. PICK wanted \in Nat : wanted = need
      BY <2>2
    <2>4. PICK room \in Nat : room = cap
      BY <2>2
    <2> QED BY <1>20, <2>1, <2>2, <2>3, <2>4
  <1> QED BY <1>21, <1>22, <1>23

(* recvmsg is never asked for nothing, so that it returns 0 only when the  *)
(* peer has closed.                                                        *)
LEMMA ReceiveZeroStep ==
    ASSUME Inv, ReceiveZero
    PROVE  Inv'
  <1>1. receiver = "open" /\ Reject /\ UNCHANGED sendVars /\ UNCHANGED wire
    BY DEF ReceiveZero
  <1>2. Len(buf) \in Nat /\ need \in Nat /\ Len(buf) < need
    BY <1>1, WireAssumption DEF Inv, WireInv, RecvInv, TypeOK
  <1>3. sender = "closed"
    BY <1>2 DEF ReceiveZero, Want
  <1>4. receiver' = "failed" /\ UNCHANGED <<buf, need, cap, fd, received>>
        /\ UNCHANGED <<frames, left, sender>>
    BY <1>1 DEF Reject, sendVars
  <1>5. NextByte' = NextByte /\ \A j : ByteAt(j)' = ByteAt(j)
    BY <1>1, <1>4 DEF NextByte, ByteAt
  <1>6. TypeOK' /\ SendInv' /\ \A i \in 1 .. Len(wire') : ByteInv(i)'
    BY <1>1, <1>4, <1>5 DEF Inv, TypeOK, WireInv, SendInv, ByteInv
  <1>7. RecvInv' /\ FramesIntact' /\ NoFalseAlarm' /\ Len(received') <= Len(frames')
    BY <1>3, <1>4 DEF Inv, WireInv, RecvInv, FramesIntact, NoFalseAlarm
  <1> QED BY <1>6, <1>7 DEF Inv, WireInv

(***************************************************************************)
(* The invariant is inductive.                                             *)
(***************************************************************************)
LEMMA InitInv ==
    ASSUME Init
    PROVE  Inv
  <1> USE DEF Init
  <1>1. TypeOK
    BY WireAssumption DEF TypeOK, NoFd
  <1>2. Len(frames) = 0 /\ Len(wire) = 0 /\ Len(buf) = 0 /\ Len(received) = 0
    OBVIOUS
  <1>3. SendInv /\ FramesIntact /\ NoFalseAlarm /\ \A i \in 1 .. Len(wire) : ByteInv(i)
    BY <1>2, WireAssumption DEF SendInv, FramesIntact, NoFalseAlarm
  <1>4. ByteAt(1) = [frame |-> ThisFrame, pos |-> Len(buf) + 1]
    BY <1>2 DEF ByteAt, NextByte, ThisFrame
  <1>5. RecvInv
    BY <1>2, <1>4, WireAssumption DEF RecvInv
  <1> QED BY <1>1, <1>2, <1>3, <1>5 DEF Inv, WireInv

(* Every step of either end, and the end of either, keeps the invariant.   *)
LEMMA StepInv ==
    ASSUME Inv, [Next]_vars
    PROVE  Inv'
  <1>1. ASSUME NEW frame \in Frames, SendPlain(frame) PROVE Inv'
    BY <1>1, SendPlainStep
  <1>2. ASSUME NEW frame \in Frames, SendWithFd(frame) PROVE Inv'
    <2>1. CASE sender' = "open"
      BY <1>2, <2>1, SendWithFdStep
    <2>2. CASE sender' /= "open"
      <3>1. /\ UNCHANGED <<frames, left, wire>> /\ UNCHANGED recvVars
            /\ sender' = "failed" /\ sender = "open"
        BY <1>2, <2>2 DEF SendWithFd
      <3> QED BY <3>1, SenderEnds
    <2> QED BY <2>1, <2>2
  <1>3. CASE SendOversized
    BY <1>3, SenderEnds DEF SendOversized
  <1>4. CASE WriteRest
    BY <1>4, WriteRestStep
  <1>5. CASE Close
    BY <1>5, SenderEnds DEF Close
  <1>6. CASE Receive
    BY <1>6, ReceiveStep
  <1>7. CASE ReceiveZero
    BY <1>7, ReceiveZeroStep
  <1>8. CASE UNCHANGED vars
    <2>1. UNCHANGED <<frames, left, sender, wire, buf, need, cap, fd, received, receiver>>
      BY <1>8 DEF vars, sendVars, recvVars
    <2>2. NextByte' = NextByte /\ \A j : ByteAt(j)' = ByteAt(j)
      BY <2>1 DEF NextByte, ByteAt
    <2>3. TypeOK' /\ SendInv' /\ \A i \in 1 .. Len(wire') : ByteInv(i)'
      BY <2>1, <2>2 DEF Inv, TypeOK, WireInv, SendInv, ByteInv
    <2>4. RecvInv' /\ FramesIntact' /\ NoFalseAlarm' /\ Len(received') <= Len(frames')
      BY <2>1, <2>2 DEF Inv, WireInv, RecvInv, ThisFrame, FramesIntact, NoFalseAlarm
    <2> QED BY <2>3, <2>4 DEF Inv, WireInv
  <1> QED BY <1>1, <1>2, <1>3, <1>4, <1>5, <1>6, <1>7, <1>8 DEF Next, Finished

(* Wherever send_frame and recv_frame stop and however the socket cuts the *)
(* stream, the bytes under way and the frame being read stay consistent    *)
(* with the frames that were sent.                                         *)
THEOREM WireInvariant == Spec => []Inv
  BY InitInv, StepInv, PTL DEF Spec

(* The state of both ends and of the socket has its type.                  *)
THEOREM TypeCorrect == Spec => []TypeOK
  <1>1. Inv => TypeOK
    BY DEF Inv
  <1> QED BY <1>1, WireInvariant, PTL

(* recv_frame returns the frames in the order in which send_frame was      *)
(* given them, none twice and none left out, each with its own descriptor  *)
(* or none, wherever the socket cuts the stream.                           *)
THEOREM ReceivesIntact == Spec => []FramesIntact
  <1>1. Inv => FramesIntact
    BY DEF Inv
  <1> QED BY <1>1, WireInvariant, PTL

(* The slice of the buffer that recv_frame hands to recvmsg is allocated.  *)
THEOREM StaysWithinCapacity == Spec => []WithinCapacity
  <1>1. Inv => WithinCapacity
    BY DEF Inv, WireInv, RecvInv, WithinCapacity
  <1> QED BY <1>1, WireInvariant, PTL

(* recv_frame returns Err only when the peer has closed or has sent a      *)
(* header that is not well-formed.                                         *)
THEOREM NoFalseAlarms == Spec => []NoFalseAlarm
  <1>1. Inv => NoFalseAlarm
    BY DEF Inv
  <1> QED BY <1>1, WireInvariant, PTL

=============================================================================
