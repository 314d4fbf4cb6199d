--------------------------- MODULE TransferProofs ---------------------------
(***************************************************************************)
(* Proofs about send and recv of a Connection, for frames of any size and  *)
(* any number of bytes that the counters can count.                        *)
(*                                                                         *)
(* The invariant says of any two bytes of the stream, at most a frame      *)
(* apart, which is which: so what a read leaves at the head of the stream  *)
(* follows from what it found there, whatever it took.                     *)
(***************************************************************************)
EXTENDS Transfer, Integers, SequenceTheorems, TLAPS

\* The byte d places after byte b of a stream of whole frames.
After(b, d) == IF b[2] + d < Count THEN <<b[1], b[2] + d>>
                                   ELSE <<b[1] + 1, b[2] + d - Count>>

\* remaining as a size_t holds it once n bytes have been moved.
Left(n) == IF n <= Count THEN Count - n ELSE Word + Count - n

\* No more is read, and no more frames begun or returned, than was written.
Counted ==
  /\ consumed + Len(stream) <= sent
  /\ received + Len(stream) <= sent
  /\ frame <= sent + 1

\* recv's loop ends when exactly a frame's bytes are read, and not later:
\* remaining wraps round when it would fall below 0.
Counters ==
  /\ rremaining = Left(consumed)
  /\ rpc = "recv" => consumed # Count
  /\ rpc = "returned" => consumed = Count

\* With whole writes the stream is a piece of the frames, in order, that
\* ends with the end of the last frame sent.
Consecutive ==
  /\ sremaining = Count
  /\ \A j, k \in 1 .. Len(stream) :
       j <= k /\ k - j <= Count => stream[k] = After(stream[j], k - j)
  /\ stream # <<>> => stream[Len(stream)] = <<frame - 1, Count - 1>>

\* With whole writes the first byte is the one this recv's count calls for, of
\* the frame after those received.
HeadPlace ==
  consumed <= Count =>
    /\ stream # <<>> =>
         stream[1] = <<received + 1, IF consumed = Count THEN 0 ELSE consumed>>
    /\ stream = <<>> => consumed \in {0, Count} /\ frame = received + 1

\* When this recv's reads are whole too, the buffer holds the frame received.
OneRead ==
  /\ rpc = "recv" => consumed = 0
  /\ rpc = "returned" => buf = Frame(received)

IInv ==
  /\ TypeOK /\ Counted /\ Counters
  /\ ~shortWrite => Consecutive /\ HeadPlace
  /\ ~shortWrite /\ ~shortRead => OneRead

-----------------------------------------------------------------------------
\* Subtraction in a size_t, of what one read or write moves.
LEMMA MinusWraps ==
  ASSUME NEW r \in 0 .. (Word - 1), NEW ret \in 1 .. Count
  PROVE  /\ Minus(r, ret) = IF r >= ret THEN r - ret ELSE Word + r - ret
         /\ Minus(r, ret) \in 0 .. (Word - 1)
<1> USE TransferAssumption
<1>1. ret < Word /\ Word \in Nat \ {0}
  OBVIOUS
<1>2. CASE r >= ret
  <2>1. (r + Word - ret) % Word = r - ret
    BY <1>1, <1>2
  <2> QED  BY <1>1, <1>2, <2>1 DEF Minus
<1>3. CASE r < ret
  <2>1. (r + Word - ret) % Word = Word + r - ret
    BY <1>1, <1>3
  <2> QED  BY <1>1, <1>3, <2>1 DEF Minus
<1> QED  BY <1>2, <1>3

\* What is left of a recv's count after one more read.
LEMMA LeftAfter ==
  ASSUME NEW n \in 0 .. MaxBytes, NEW ret \in 1 .. Count, n + ret <= MaxBytes, n # Count
  PROVE  /\ Minus(Left(n), ret) = Left(n + ret)
         /\ Left(n) \in 0 .. (Word - 1) /\ Left(n + ret) \in 0 .. (Word - 1)
         /\ Left(n + ret) = 0 <=> n + ret = Count
<1> USE TransferAssumption
<1>1. Left(n) \in 0 .. (Word - 1) /\ Left(n + ret) \in 0 .. (Word - 1)
  BY DEF Left
<1>2. Minus(Left(n), ret) = IF Left(n) >= ret THEN Left(n) - ret ELSE Word + Left(n) - ret
  BY <1>1, MinusWraps
<1> QED  BY <1>1, <1>2 DEF Left

\* A byte is a frame and a place in it.
LEMMA BytePair ==
  ASSUME NEW b \in Bytes
  PROVE  /\ b = <<b[1], b[2]>>
         /\ b[1] \in 0 .. (MaxBytes + 1) /\ b[2] \in 0 .. (Count - 1)
  BY DEF Bytes, Places

\* The frame and the place of a later byte.
LEMMA AfterParts ==
  ASSUME NEW b, NEW d
  PROVE  /\ b[2] + d < Count => /\ After(b, d) = <<b[1], b[2] + d>>
                                /\ After(b, d)[1] = b[1] /\ After(b, d)[2] = b[2] + d
         /\ ~(b[2] + d < Count) => /\ After(b, d) = <<b[1] + 1, b[2] + d - Count>>
                                   /\ After(b, d)[1] = b[1] + 1
                                   /\ After(b, d)[2] = b[2] + d - Count
  BY DEF After

\* The invariant holds in the initial state.
LEMMA InitEstablishes == Init => IInv
<1> SUFFICES ASSUME Init PROVE IInv
  OBVIOUS
<1> USE TransferAssumption
<1>1. Len(stream) = 0 /\ stream \in Seq(Bytes)
  BY DEF Init
<1>2. buf \in [Places -> Bytes]
  BY DEF Init, Frame, Bytes, Places
<1>3. TypeOK
  <2>1. Count \in 1 .. (Word - 1) /\ Count \in 0 .. (Word - 1)
    OBVIOUS
  <2>2. /\ frame \in 1 .. (MaxBytes + 1) /\ sent \in 0 .. MaxBytes /\ Len(stream) <= sent
        /\ consumed \in 0 .. MaxBytes /\ received \in 0 .. MaxBytes
    BY <1>1 DEF Init
  <2>3. sremaining \in 1 .. (Word - 1) /\ rremaining \in 0 .. (Word - 1)
    BY <2>1 DEF Init
  <2> QED  BY <1>1, <1>2, <2>2, <2>3 DEF Init, TypeOK
<1>4. Counted /\ Counters
  BY <1>1 DEF Init, Counted, Counters, Left
<1>5. Consecutive /\ HeadPlace /\ OneRead
  BY <1>1 DEF Init, Consecutive, HeadPlace, OneRead
<1> QED  BY <1>3, <1>4, <1>5 DEF IInv

-----------------------------------------------------------------------------
\* A write keeps the invariant.
LEMMA WriteKeeps == ASSUME IInv, Write PROVE IInv'
<1> USE TransferAssumption
<1>t. TypeOK
  BY DEF IInv
<1>1. PICK ret \in 1 .. Count :
        /\ sent + ret <= MaxBytes
        /\ stream' = stream \o [k \in 1 .. ret |-> <<frame, k - 1>>]
        /\ sent' = sent + ret
        /\ shortWrite' = (shortWrite \/ ret < Count)
        /\ LET left == Minus(sremaining, ret) IN
             IF Done(left) THEN sremaining' = Count /\ frame' = NextFrame
                           ELSE sremaining' = left /\ UNCHANGED frame
  BY DEF Write
<1> DEFINE new == [k \in 1 .. ret |-> <<frame, k - 1>>]
<1>2. UNCHANGED <<spc, rpc, buf, rremaining, consumed, received, shortRead>>
  BY DEF Write, receiverVars
<1>3. frame + 1 \in 1 .. (MaxBytes + 1) /\ frame + 1 <= sent + ret + 1
  BY <1>t, <1>1 DEF IInv, Counted, TypeOK
<1>4. new \in Seq(Bytes) /\ Len(new) = ret
  <2>1. frame \in 0 .. (MaxBytes + 1) /\ \A k \in 1 .. ret : k - 1 \in 0 .. (Count - 1)
    BY <1>t DEF TypeOK
  <2>2. \A k \in 1 .. ret : <<frame, k - 1>> \in Bytes
    BY <2>1 DEF Bytes, Places
  <2> QED  BY <2>2
<1>5. /\ stream' \in Seq(Bytes) /\ Len(stream') = Len(stream) + ret
      /\ \A k \in 1 .. Len(stream) : stream'[k] = stream[k]
      /\ \A k \in 1 .. ret : stream'[Len(stream) + k] = <<frame, k - 1>>
  <2>1. stream \in Seq(Bytes)
    BY <1>t DEF TypeOK
  <2>2. stream' = stream \o new
    BY <1>1
  <2> HIDE DEF new
  <2>3. /\ stream' \in Seq(Bytes) /\ Len(stream') = Len(stream) + Len(new)
        /\ \A k \in 1 .. Len(stream) + Len(new) :
             stream'[k] = IF k <= Len(stream) THEN stream[k] ELSE new[k - Len(stream)]
    BY <1>4, <2>1, <2>2, ConcatProperties
  <2>4. ASSUME NEW k \in 1 .. ret PROVE stream'[Len(stream) + k] = new[k]
    <3>1. /\ Len(stream) \in Nat /\ Len(stream) + k \in 1 .. Len(stream) + Len(new)
          /\ ~(Len(stream) + k <= Len(stream)) /\ Len(stream) + k - Len(stream) = k
      BY <1>4, <2>1
    <3> QED  BY <2>3, <3>1
  <2>5. \A k \in 1 .. ret : new[k] = <<frame, k - 1>>
    BY DEF new
  <2>6. \A k \in 1 .. Len(stream) : stream'[k] = stream[k]
    BY <1>4, <2>1, <2>3
  <2> QED  BY <1>4, <2>3, <2>4, <2>5, <2>6
<1>6. Len(stream) \in Nat
  BY <1>t DEF TypeOK
<1>7. frame' \in 1 .. (MaxBytes + 1) /\ frame' <= sent' + 1 /\ sremaining' \in 1 .. (Word - 1)
  <2>1. Minus(sremaining, ret) \in 0 .. (Word - 1)
    BY <1>t, MinusWraps DEF TypeOK
  <2> QED  BY <1>t, <1>1, <1>3, <2>1 DEF TypeOK, Done, NextFrame
<1>8. TypeOK'
  <2>1. Len(stream') <= sent' /\ sent' \in 0 .. MaxBytes /\ shortWrite' \in BOOLEAN
    BY <1>t, <1>1, <1>5, <1>6 DEF TypeOK
  <2> QED  BY <1>t, <1>2, <1>5, <1>7, <2>1 DEF TypeOK
<1>9. Counted' /\ Counters'
  BY <1>t, <1>1, <1>2, <1>5, <1>6, <1>7 DEF IInv, Counted, Counters, TypeOK
<1>10. ASSUME ~shortWrite'
       PROVE  /\ Consecutive /\ HeadPlace
              /\ ~shortWrite /\ ret = Count /\ frame' = frame + 1 /\ sremaining' = Count
  <2>a. shortWrite' = (shortWrite \/ ret < Count)
    BY <1>1
  <2>b. ~shortWrite /\ ~(ret < Count)
    BY <1>10, <2>a
  <2>1. ~shortWrite /\ ret = Count
    BY <2>b
  <2>2. Consecutive /\ HeadPlace
    BY <2>1 DEF IInv
  <2>3. Minus(sremaining, ret) = 0
    BY <2>1, <2>2, MinusWraps DEF Consecutive
  <2> QED  BY <1>1, <2>1, <2>2, <2>3 DEF Done, NextFrame
<1>11. ASSUME ~shortWrite' PROVE Consecutive'
  <2>1. ASSUME NEW j \in 1 .. Len(stream'), NEW k \in 1 .. Len(stream'),
               j <= k, k - j <= Count
        PROVE  stream'[k] = After(stream'[j], k - j)
    <3>1. CASE k <= Len(stream)
      BY <1>5, <1>6, <1>10, <1>11, <2>1, <3>1 DEF Consecutive
    <3>2. CASE j > Len(stream)
      <4>1. /\ j - Len(stream) \in 1 .. ret /\ k - Len(stream) \in 1 .. ret
            /\ j = Len(stream) + (j - Len(stream)) /\ k = Len(stream) + (k - Len(stream))
        BY <1>5, <1>6, <2>1, <3>2
      <4>2. /\ stream'[j] = <<frame, j - Len(stream) - 1>>
            /\ stream'[k] = <<frame, k - Len(stream) - 1>>
        BY <1>5, <4>1
      <4>3. After(stream'[j], k - j) = <<frame, (j - Len(stream) - 1) + (k - j)>>
        BY <1>6, <2>1, <4>1, <4>2, AfterParts
      <4> QED  BY <1>6, <2>1, <4>1, <4>2, <4>3
    <3>3. CASE j <= Len(stream) /\ k > Len(stream)
      <4>1. /\ k - Len(stream) \in 1 .. ret /\ j \in 1 .. Len(stream)
            /\ k = Len(stream) + (k - Len(stream))
            /\ Len(stream) - j < Count /\ Len(stream) \in 1 .. Len(stream)
            /\ stream # <<>>
        BY <1>t, <1>5, <1>6, <2>1, <3>3 DEF TypeOK
      <4>2. /\ stream'[k] = <<frame, k - Len(stream) - 1>>
            /\ stream'[j] = stream[j]
        BY <1>5, <4>1
      <4>3. <<frame - 1, Count - 1>> = After(stream[j], Len(stream) - j)
        <5>1. j <= Len(stream) /\ Len(stream) - j <= Count
          BY <1>6, <4>1
        <5> QED  BY <1>10, <1>11, <4>1, <5>1 DEF Consecutive
      <4>4. /\ stream[j] = <<stream[j][1], stream[j][2]>>
            /\ stream[j][1] \in Nat /\ stream[j][2] \in 0 .. (Count - 1)
        <5>1. stream[j] \in Bytes
          BY <1>t, <4>1 DEF TypeOK
        <5> QED  BY <5>1, BytePair
      <4>5. stream[j][1] = frame - 1 /\ stream[j][2] = Count - 1 - (Len(stream) - j)
        <5>1. /\ frame - 1 = After(stream[j], Len(stream) - j)[1]
              /\ Count - 1 = After(stream[j], Len(stream) - j)[2]
          BY <4>3
        <5>2. stream[j][2] + (Len(stream) - j) < Count
          <6>1. SUFFICES ASSUME ~(stream[j][2] + (Len(stream) - j) < Count) PROVE FALSE
            OBVIOUS
          <6>2. Count - 1 = stream[j][2] + (Len(stream) - j) - Count
            BY <5>1, <6>1, AfterParts
          <6> QED  BY <1>6, <4>1, <4>4, <6>2
        <5>3. frame - 1 = stream[j][1] /\ Count - 1 = stream[j][2] + (Len(stream) - j)
          BY <5>1, <5>2, AfterParts
        <5> QED  BY <1>6, <4>1, <4>4, <5>3
      <4>6. /\ ~(stream[j][2] + (k - j) < Count)
            /\ stream[j][2] + (k - j) - Count = k - Len(stream) - 1
            /\ stream[j][1] + 1 = frame
        BY <1>t, <1>6, <2>1, <4>1, <4>5 DEF TypeOK
      <4> QED  BY <4>2, <4>6, AfterParts
    <3> QED  BY <1>5, <1>6, <2>1, <3>1, <3>2, <3>3
  <2>2. stream'[Len(stream')] = <<frame' - 1, Count - 1>>
    <3>1. Len(stream') = Len(stream) + ret /\ ret \in 1 .. ret
      BY <1>5
    <3>2. stream'[Len(stream')] = <<frame, ret - 1>>
      BY <1>5, <3>1
    <3> QED  BY <1>t, <1>10, <1>11, <3>2 DEF TypeOK
  <2> QED  BY <1>10, <1>11, <2>1, <2>2 DEF Consecutive
<1>12. /\ stream' # <<>>
       /\ stream # <<>> => stream'[1] = stream[1]
       /\ stream = <<>> => stream'[1] = <<frame, 0>>
  <2>1. Len(stream') # 0
    BY <1>5, <1>6
  <2>2. CASE stream = <<>>
    <3>1. Len(stream) = 0 /\ 1 \in 1 .. ret
      BY <2>2
    <3>2. stream'[Len(stream) + 1] = <<frame, 0>>
      BY <1>5, <3>1
    <3> QED  BY <2>1, <2>2, <3>1, <3>2
  <2>3. CASE stream # <<>>
    BY <1>t, <1>5, <2>1, <2>3 DEF TypeOK
  <2> QED  BY <2>2, <2>3
<1>13. ASSUME ~shortWrite' PROVE HeadPlace'
  <2>1. ASSUME consumed <= Count, stream = <<>>
        PROVE  stream'[1] = <<received + 1, IF consumed = Count THEN 0 ELSE consumed>>
    BY <1>10, <1>12, <1>13, <2>1 DEF HeadPlace
  <2>2. ASSUME consumed <= Count, stream # <<>>
        PROVE  stream'[1] = <<received + 1, IF consumed = Count THEN 0 ELSE consumed>>
    BY <1>10, <1>12, <1>13, <2>2 DEF HeadPlace
  <2> QED  BY <1>2, <1>12, <2>1, <2>2 DEF HeadPlace
<1>14. ASSUME ~shortWrite', ~shortRead' PROVE OneRead'
  <2>1. OneRead
    BY <1>2, <1>10, <1>14 DEF IInv
  <2> QED  BY <1>2, <2>1 DEF OneRead
<1> QED  BY <1>8, <1>9, <1>11, <1>13, <1>14 DEF IInv

\* A read keeps the invariant.
LEMMA ReadKeeps == ASSUME IInv, Read PROVE IInv'
<1> USE TransferAssumption
<1>t. TypeOK
  BY DEF IInv
<1>1. PICK ret \in 1 .. Count :
        /\ ret <= Len(stream)
        /\ buf' = [k \in Places |-> IF k < ret THEN stream[k + 1] ELSE buf[k]]
        /\ stream' = SubSeq(stream, ret + 1, Len(stream))
        /\ consumed' = consumed + ret
        /\ shortRead' = (shortRead \/ ret < Count)
        /\ LET left == Minus(rremaining, ret) IN
             /\ rremaining' = left
             /\ IF Done(left) THEN rpc' = "returned" /\ received' = received + 1
                              ELSE UNCHANGED <<rpc, received>>
  BY DEF Read
<1>2. rpc = "recv" /\ UNCHANGED <<spc, frame, sremaining, sent, shortWrite>>
  BY DEF Read, senderVars
<1>c. ret <= Len(stream) /\ consumed' = consumed + ret
  BY <1>1
<1>3. /\ stream \in Seq(Bytes) /\ Len(stream) \in Nat /\ sent \in 0 .. MaxBytes
      /\ consumed \in 0 .. MaxBytes /\ received \in 0 .. MaxBytes
      /\ \A k \in 1 .. Len(stream) : stream[k] \in Bytes
  BY <1>t DEF TypeOK
<1>4. /\ stream' \in Seq(Bytes) /\ Len(stream') = Len(stream) - ret
      /\ \A k \in 1 .. (Len(stream) - ret) : stream'[k] = stream[ret + k]
  <2>1. ret + 1 \in 1 .. (Len(stream) + 1) /\ Len(stream) \in ret .. Len(stream)
    BY <1>1, <1>3
  <2>2. /\ stream' \in Seq(Bytes) /\ Len(stream') = Len(stream) - ret
    BY <1>1, <1>3, <2>1, SubSeqProperties
  <2>3. ASSUME NEW k \in 1 .. (Len(stream) - ret) PROVE stream'[k] = stream[ret + k]
    BY <1>1, <1>3
  <2> QED  BY <2>2, <2>3
<1>5. consumed + ret <= MaxBytes /\ consumed # Count
  BY <1>1, <1>2, <1>3 DEF IInv, Counted, Counters
<1>6. /\ rremaining' = Left(consumed + ret) /\ rremaining' \in 0 .. (Word - 1)
      /\ rremaining' = 0 <=> consumed + ret = Count
  BY <1>1, <1>3, <1>5, LeftAfter DEF IInv, Counters
<1>7. \/ consumed' = Count /\ rpc' = "returned" /\ received' = received + 1
      \/ consumed' # Count /\ rpc' = "recv" /\ received' = received
  <2>1. /\ consumed' = consumed + ret
        /\ IF rremaining' = 0 THEN rpc' = "returned" /\ received' = received + 1
                              ELSE UNCHANGED <<rpc, received>>
    BY <1>1 DEF Done
  <2> QED  BY <1>2, <1>6, <2>1
<1>8. Counted'
  BY <1>c, <1>2, <1>3, <1>4, <1>7 DEF IInv, Counted
<1>9. TypeOK'
  <2>1. buf' \in [Places -> Bytes]
    <3>1. \A k \in Places : k < ret => k + 1 \in 1 .. Len(stream)
      BY <1>1, <1>3 DEF Places
    <3>2. \A k \in Places : (IF k < ret THEN stream[k + 1] ELSE buf[k]) \in Bytes
      BY <1>t, <1>3, <3>1 DEF TypeOK
    <3> QED  BY <1>1, <3>2
  <2>2. received' \in 0 .. MaxBytes /\ consumed' \in 0 .. MaxBytes /\ Len(stream') <= sent'
    BY <1>c, <1>2, <1>3, <1>4, <1>5, <1>7, <1>8 DEF IInv, Counted
  <2> QED  BY <1>t, <1>1, <1>2, <1>4, <1>6, <1>7, <2>1, <2>2 DEF TypeOK
<1>10. Counters'
  BY <1>1, <1>6, <1>7 DEF Counters
<1>11. ASSUME ~shortWrite
       PROVE  /\ sremaining = Count
              /\ \A j, k \in 1 .. Len(stream) :
                   j <= k /\ k - j <= Count => stream[k] = After(stream[j], k - j)
              /\ stream[Len(stream)] = <<frame - 1, Count - 1>>
              /\ consumed <= Count => stream[1] = <<received + 1, consumed>>
  <2>1. stream # <<>>
    BY <1>1, <1>3
  <2>2. Consecutive /\ HeadPlace
    BY <1>11 DEF IInv
  <2>3. consumed <= Count => stream[1] = <<received + 1, consumed>>
    BY <1>5, <2>1, <2>2 DEF HeadPlace
  <2>4. /\ sremaining = Count
        /\ \A j, k \in 1 .. Len(stream) :
             j <= k /\ k - j <= Count => stream[k] = After(stream[j], k - j)
        /\ stream[Len(stream)] = <<frame - 1, Count - 1>>
    BY <2>1, <2>2 DEF Consecutive
  <2> QED  BY <2>3, <2>4
<1>12. ASSUME ~shortWrite PROVE Consecutive'
  <2>1. ASSUME NEW j \in 1 .. Len(stream'), NEW k \in 1 .. Len(stream'),
               j <= k, k - j <= Count
        PROVE  stream'[k] = After(stream'[j], k - j)
    <3>1. /\ ret + j \in 1 .. Len(stream) /\ ret + k \in 1 .. Len(stream)
          /\ (ret + k) - (ret + j) = k - j /\ ret + j <= ret + k
          /\ stream'[j] = stream[ret + j] /\ stream'[k] = stream[ret + k]
      BY <1>1, <1>3, <1>4, <2>1
    <3> QED  BY <1>11, <1>12, <2>1, <3>1
  <2>2. ASSUME stream' # <<>> PROVE stream'[Len(stream')] = <<frame - 1, Count - 1>>
    <3>1. Len(stream) - ret \in 1 .. (Len(stream) - ret) /\ ret + (Len(stream) - ret) = Len(stream)
      <4>1. Len(stream') # 0
        BY <1>4, <2>2
      <4> QED  BY <1>c, <1>3, <1>4, <4>1
    <3> QED  BY <1>4, <1>11, <1>12, <3>1
  <2> QED  BY <1>2, <1>11, <1>12, <2>1, <2>2 DEF Consecutive
<1>13. ASSUME ~shortWrite, NEW k \in 1 .. Len(stream), k <= Count + 1
       PROVE  stream[k] = After(stream[1], k - 1)
  BY <1>3, <1>11, <1>13
<1>14. ASSUME stream' # <<>>
       PROVE  ret + 1 \in 1 .. Len(stream) /\ stream'[1] = stream[ret + 1]
  <2>1. Len(stream') # 0
    BY <1>4, <1>14
  <2>2. 1 \in 1 .. (Len(stream) - ret)
    BY <1>c, <1>3, <1>4, <2>1
  <2> QED  BY <1>c, <1>3, <1>4, <2>2
<1>15. ASSUME stream' = <<>>, ~shortWrite
       PROVE  <<frame - 1, Count - 1>> = After(stream[1], ret - 1)
  <2>1. Len(stream') = 0
    BY <1>15
  <2>2. ret = Len(stream) /\ ret \in 1 .. Len(stream) /\ ret <= Count + 1
    BY <1>c, <1>3, <1>4, <2>1
  <2>3. stream[ret] = After(stream[1], ret - 1)
    BY <1>13, <1>15, <2>2
  <2> QED  BY <1>11, <1>15, <2>2, <2>3
<1>16. ASSUME ~shortWrite, consumed + ret <= Count PROVE HeadPlace'
  <2>1. stream[1] = <<received + 1, consumed>>
    BY <1>3, <1>11, <1>16
  <2>2. \/ consumed + ret = Count /\ received' = received + 1
        \/ consumed + ret < Count /\ received' = received
    BY <1>c, <1>3, <1>7, <1>16
  <2>3. ASSUME stream' # <<>>
        PROVE  stream'[1] = <<received' + 1, IF consumed + ret = Count THEN 0 ELSE consumed + ret>>
    <3>1. stream'[1] = After(stream[1], ret)
      BY <1>3, <1>13, <1>14, <1>16, <2>3
    <3> QED  BY <1>3, <2>1, <2>2, <3>1, AfterParts
  <2>4. ASSUME stream' = <<>>
        PROVE  consumed + ret = Count /\ frame - 1 = received + 1
    <3>1. <<frame - 1, Count - 1>> = After(stream[1], ret - 1)
      BY <1>15, <1>16, <2>4
    <3>2. After(stream[1], ret - 1) = <<received + 1, consumed + (ret - 1)>>
      BY <1>3, <1>16, <2>1, AfterParts
    <3> QED  BY <1>3, <3>1, <3>2
  <2>5. ASSUME stream' = <<>> PROVE consumed + ret = Count /\ frame' = received' + 1
    BY <1>t, <1>2, <1>3, <2>2, <2>4, <2>5 DEF TypeOK
  <2> QED  BY <1>c, <2>3, <2>5 DEF HeadPlace
<1>17. ASSUME ~shortWrite PROVE HeadPlace'
  BY <1>1, <1>16, <1>17 DEF HeadPlace
<1>18. ASSUME ~shortWrite, ~shortRead' PROVE OneRead'
  <2>a. shortRead' = (shortRead \/ ret < Count)
    BY <1>1
  <2>b. ~shortRead /\ ~(ret < Count)
    BY <1>18, <2>a
  <2>1. ~shortRead /\ ret = Count
    BY <2>b
  <2>2. consumed = 0
    BY <1>2, <1>18, <2>1 DEF IInv, OneRead
  <2>3. stream[1] = <<received + 1, 0>>
    BY <1>11, <1>18, <2>2
  <2>4. rpc' = "returned" /\ received' = received + 1
    BY <1>1, <1>7, <2>1, <2>2
  <2>5. buf' = Frame(received')
    <3>1. \A k \in Places : k < ret /\ k + 1 \in 1 .. Len(stream) /\ k + 1 <= Count + 1
      BY <1>1, <1>3, <2>1 DEF Places
    <3>2. \A k \in Places : stream[k + 1] = <<received + 1, k>>
      <4> TAKE k \in Places
      <4>1. stream[k + 1] = After(stream[1], k)
        BY <1>13, <1>18, <3>1 DEF Places
      <4> QED  BY <2>3, <4>1, AfterParts DEF Places
    <3> QED  BY <1>1, <2>4, <3>1, <3>2 DEF Frame
  <2> QED  BY <2>4, <2>5 DEF OneRead
<1> QED  BY <1>2, <1>8, <1>9, <1>10, <1>12, <1>17, <1>18 DEF IInv

\* Every step keeps the invariant.
LEMMA NextKeeps == IInv /\ [Next]_vars => IInv'
<1> SUFFICES ASSUME IInv, [Next]_vars PROVE IInv'
  OBVIOUS
<1> USE TransferAssumption
<1>1. CASE Write
  BY <1>1, WriteKeeps
<1>2. CASE Read
  BY <1>2, ReadKeeps
<1>3. CASE CloseSender \/ ReadEof
  <2>1. /\ UNCHANGED <<stream, frame, sremaining, sent, shortWrite, buf, rremaining,
                       consumed, received, shortRead>>
        /\ spc' \in {spc, "closed"} /\ rpc' \in {rpc, "stopped"}
    BY <1>3 DEF CloseSender, ReadEof, AfterEof, senderVars, receiverVars
  <2>2. TypeOK' /\ Counted' /\ Counters'
    BY <2>1 DEF IInv, TypeOK, Counted, Counters
  <2>3. ~shortWrite => Consecutive' /\ HeadPlace'
    BY <2>1 DEF IInv, Consecutive, HeadPlace
  <2>4. ~shortWrite /\ ~shortRead => OneRead'
    BY <2>1 DEF IInv, OneRead
  <2> QED  BY <2>1, <2>2, <2>3, <2>4 DEF IInv
<1>4. CASE CallRecv
  <2>1. /\ rpc = "returned" /\ rpc' = "recv" /\ rremaining' = Count /\ consumed' = 0
        /\ shortRead' = FALSE
        /\ UNCHANGED <<stream, spc, frame, sremaining, sent, shortWrite, buf, received>>
    BY <1>4 DEF CallRecv, senderVars
  <2>2. TypeOK' /\ Counted' /\ Counters'
    <3>1. Count \in 0 .. (Word - 1) /\ 0 \in 0 .. MaxBytes
      OBVIOUS
    <3>2. TypeOK'
      BY <2>1, <3>1 DEF IInv, TypeOK
    <3>3. Counted'
      BY <2>1 DEF IInv, TypeOK, Counted
    <3>4. Counters'
      BY <2>1 DEF Counters, Left
    <3> QED  BY <3>2, <3>3, <3>4
  <2>3. ~shortWrite => Consecutive' /\ HeadPlace'
    <3>1. consumed = Count
      BY <2>1 DEF IInv, Counters
    <3> QED  BY <2>1, <3>1 DEF IInv, Consecutive, HeadPlace
  <2>4. OneRead'
    BY <2>1 DEF OneRead
  <2> QED  BY <2>1, <2>2, <2>3, <2>4 DEF IInv
<1>5. CASE UNCHANGED vars
  <2> USE <1>5 DEF vars, senderVars, receiverVars
  <2>1. TypeOK' /\ Counted' /\ Counters'
    BY DEF IInv, TypeOK, Counted, Counters
  <2>2. ~shortWrite => Consecutive' /\ HeadPlace'
    BY DEF IInv, Consecutive, HeadPlace
  <2>3. ~shortWrite /\ ~shortRead => OneRead'
    BY DEF IInv, OneRead
  <2> QED  BY <2>1, <2>2, <2>3 DEF IInv
<1> QED  BY <1>1, <1>2, <1>3, <1>4, <1>5 DEF Next, Receiver

\* IInv holds in every state of a connection.
THEOREM Invariance == Spec => []IInv
  BY InitEstablishes, NextKeeps, PTL DEF Spec

\* The locals of send and recv, the buffer and the stream keep their types,
\* and the counters, which wrap round, count what they should.
THEOREM TypeCorrect == Spec => []TypeOK
<1>1. IInv => TypeOK
  BY DEF IInv
<1> QED  BY <1>1, Invariance, PTL

\* However its reads were cut, a recv that returns has taken exactly a
\* frame's bytes, and left the stream where the next frame begins, as long as
\* no write was cut: a frame it scrambles does not spoil those that follow.
THEOREM StaysAligned == Spec => []Aligned
<1>1. IInv => Aligned
  BY TransferAssumption DEF IInv, Aligned, Counters, HeadPlace
<1> QED  BY <1>1, Invariance, PTL

\* While no write was cut, a recv whose own read was not cut either returns the
\* frame that is due: the one after those received, whole ones or scrambled.
THEOREM FramesInOrder == Spec => []InOrder
<1>1. IInv => InOrder
  BY DEF IInv, InOrder, OneRead
<1> QED  BY <1>1, Invariance, PTL
=============================================================================
