------------------------- MODULE FramedChannelProofs -------------------------
(***************************************************************************)
(* Theorems about FramedChannel, for every set of frames, payload limit,   *)
(* read size, pipe and buffer capacity and way of cutting the stream up.   *)
(***************************************************************************)
EXTENDS FramedChannel, FrameProofs

\* Every frame being written fits its length field.
FramesFit == \A e \in Peers : Fits(frame[e])

\* TypeOK is inductive together with FramesFit.
TypeInv == TypeOK /\ FramesFit

\* The frame of an endpoint that sends none is a frame.
LEMMA NoFrameType == NoFrame \in FrameSet /\ Fits(NoFrame)
<1>1. 0 \in U16
  <2>1. U16Max \in Nat
        BY DEF U16Max
  <2> QED BY <2>1 DEF U16
<1>2. << >> \in Seq(Byte) /\ Len(<< >>) = 0
      OBVIOUS
<1>3. FitsU32(0)
      BY DEF FitsU32
<1> QED BY <1>1, <1>2, <1>3 DEF NoFrame, FrameSet, Fits

\* The sizes in which the stream moves bytes lie between one and the limit.
LEMMA SizesType ==
    ASSUME NEW limit \in Int, NEW n \in Sizes(limit)
    PROVE  n \in Nat /\ n > 0 /\ n <= limit
BY ChannelAssumption DEF Sizes

\* The peer of an endpoint is the other one.
LEMMA PeerType ==
    ASSUME NEW e \in Peers
    PROVE  Peer(e) \in Peers
BY DEF Peers, Peer

\* The type invariant holds initially.
LEMMA TypeInit == Init => TypeInv
<1> SUFFICES ASSUME Init PROVE TypeInv
    OBVIOUS
<1>1. FramesFit
      BY NoFrameType DEF Init, FramesFit
<1>2. Typed
  <2>1. op \in [Peers -> {"idle", "write", "flush", "recv"}] BY DEF Init
  <2>2. frame \in [Peers -> FrameSet]  BY NoFrameType DEF Init
  <2>3. read_buf \in [Peers -> Seq(Byte)] BY  DEF Init
  <2>4. result \in [Peers -> Results] BY  DEF Init, Results
  <2>5. open \in [Peers -> BOOLEAN] BY  DEF Init
  <2>6. done     \in [Peers -> Seq([frame : FrameSet, end : Nat])] BY  DEF Init
  <2>7. broken \in BOOLEAN BY  DEF Init
  <2>8. off \in [Peers -> Nat] BY  DEF Init
  <2> QED BY <2>1, <2>2, <2>3, <2>4, <2>5, <2>6, <2>7, <2>8 DEF Init, Typed
<1>3. ASSUME NEW e \in Peers PROVE Progress(e) /\ Flow(e)
  <2>1. Size(NoFrame) = 8
        BY DEF NoFrame, Size, HEADER_LEN
  <2>2. Progress(e)
        BY <2>1 DEF Init, Progress
  <2>3. Flow(e)
        BY ChannelAssumption DEF Init, Flow
  <2> QED BY <2>2, <2>3
<1> QED BY <1>1, <1>2, <1>3 DEF TypeInv, TypeOK

\* A frame encode() accepts has a length that fits its header.
LEMMA EncodableFits ==
    ASSUME NEW f \in Frames, Encode(f).tag = "Bytes"
    PROVE  Fits(f)
<1>1. f \in FrameSet
      BY ChannelAssumption
<1>2. Len(f.payload) \in Nat
      BY <1>1 DEF FrameSet
<1>3. ~(Len(f.payload) > MAX_PAYLOAD_LEN)
      BY DEF Encode, Err, Bytes
<1> QED BY <1>2, <1>3, MaxPayloadFits, MaxPayloadAssumption DEF Fits

\* send() of a frame encode() accepts keeps the types.
LEMMA SendType ==
    ASSUME TypeInv, NEW e \in Peers, NEW f \in Frames, Send(e, f)
    PROVE  TypeInv'
<1>1. f \in FrameSet /\ Fits(f)
      BY EncodableFits, ChannelAssumption DEF Send
<1>2. Size(f) \in Nat /\ Size(f) > 0
      BY <1>1, LayoutType DEF HEADER_LEN
<1>3. FramesFit'
      BY <1>1 DEF TypeInv, FramesFit, TypeOK, Typed, Send
<1>4. Typed'
  <2>1. op' \in [Peers -> {"idle", "write", "flush", "recv"}]
        BY DEF TypeInv, TypeOK, Typed, Send
  <2>2. frame' \in [Peers -> FrameSet]
        BY <1>1 DEF TypeInv, TypeOK, Typed, Send
  <2>3. off' \in [Peers -> Nat] /\ sends' \in [Peers -> Nat]
        BY DEF TypeInv, TypeOK, Typed, Send
  <2> QED BY <2>1, <2>2, <2>3 DEF TypeInv, TypeOK, Typed, Send, stream
<1>5. ASSUME NEW p \in Peers PROVE Progress(p)'
      BY <1>2 DEF TypeInv, TypeOK, Typed, Progress, Size, Send
<1>6. ASSUME NEW p \in Peers PROVE Flow(p)'
      BY DEF TypeInv, TypeOK, Flow, Send, stream
<1> QED BY <1>3, <1>4, <1>5, <1>6 DEF TypeInv, TypeOK

\* send() of a frame encode() refuses keeps the types.
LEMMA SendRefusedType ==
    ASSUME TypeInv, NEW e \in Peers, NEW f \in Frames, SendRefused(e, f)
    PROVE  TypeInv'
<1>1. Encode(f).error \in Results
      BY DEF SendRefused, Encode, Err, Bytes, Results
<1>2. result' \in [Peers -> Results] /\ sends' \in [Peers -> Nat]
      BY <1>1 DEF TypeInv, TypeOK, Typed, SendRefused
<1>3. Typed'
      BY <1>2 DEF TypeInv, TypeOK, Typed, SendRefused, stream
<1>4. ASSUME NEW p \in Peers PROVE (Progress(p) /\ Flow(p))'
      BY DEF TypeInv, TypeOK, Progress, Flow, SendRefused, stream
<1>5. FramesFit'
      BY DEF TypeInv, FramesFit, SendRefused
<1> QED BY <1>3, <1>4, <1>5 DEF TypeInv, TypeOK

\* Writing a frame of another build keeps the types.
LEMMA SendForeignType ==
    ASSUME TypeInv, NEW e \in Peers, NEW f \in ForeignFrames, SendForeign(e, f)
    PROVE  TypeInv'
<1>1. f \in FrameSet /\ Fits(f)
      BY ChannelAssumption
<1>2. Size(f) \in Nat /\ Size(f) > 0
      BY <1>1, LayoutType DEF HEADER_LEN
<1>3. FramesFit'
      BY <1>1 DEF TypeInv, FramesFit, TypeOK, Typed, SendForeign
<1>4. Typed'
  <2>1. op' \in [Peers -> {"idle", "write", "flush", "recv"}]
        BY DEF TypeInv, TypeOK, Typed, SendForeign
  <2>2. frame' \in [Peers -> FrameSet]
        BY <1>1 DEF TypeInv, TypeOK, Typed, SendForeign
  <2>3. off' \in [Peers -> Nat] /\ sends' \in [Peers -> Nat]
        BY DEF TypeInv, TypeOK, Typed, SendForeign
  <2>4. torn' \in [Peers -> BOOLEAN]
        BY DEF TypeInv, TypeOK, Typed, SendForeign
  <2> QED BY <2>1, <2>2, <2>3, <2>4
          DEF TypeInv, TypeOK, Typed, SendForeign, stream
<1>5. ASSUME NEW p \in Peers PROVE Progress(p)'
      BY <1>2 DEF TypeInv, TypeOK, Typed, Progress, Size, SendForeign
<1>6. ASSUME NEW p \in Peers PROVE Flow(p)'
      BY DEF TypeInv, TypeOK, Flow, SendForeign, stream
<1> QED BY <1>3, <1>4, <1>5, <1>6 DEF TypeInv, TypeOK

\* What write_all() appends to the stream: n bytes of the frame.
LEMMA PortionType ==
    ASSUME NEW f \in FrameSet, Fits(f), NEW k \in Nat, NEW n \in Nat,
           k + n <= Size(f)
    PROVE  /\ SubSeq(Layout(f), k + 1, k + n) \in Seq(Byte)
           /\ Len(SubSeq(Layout(f), k + 1, k + n)) = n
<1> DEFINE l == Layout(f)
<1>1. l \in Seq(Byte) /\ Len(l) = Size(f) /\ Size(f) \in Nat
      BY LayoutType
<1> HIDE DEF l
<1>2. SubSeq(l, k + 1, k + n) \in Seq(Byte) /\ Len(SubSeq(l, k + 1, k + n)) = n
      BY <1>1
<1> QED BY <1>2 DEF l

\* write_all() keeps the types, and its progress within the frame.
LEMMA WriteType ==
    ASSUME TypeInv, NEW e \in Peers, NEW n, Write(e, n)
    PROVE  TypeInv'
<1> DEFINE left == Size(frame[e]) - off[e]
           room == StreamBuffer - (Len(wire[e]) - pushed[e])
           part == SubSeq(Layout(frame[e]), off[e] + 1, off[e] + n)
<1>1. frame[e] \in FrameSet /\ Fits(frame[e]) /\ off[e] \in Nat
      BY DEF TypeInv, TypeOK, Typed, FramesFit
<1>2. Size(frame[e]) \in Nat
      BY <1>1, LayoutType
<1>3. wire[e] \in Seq(Byte) /\ pushed[e] \in Nat /\ taken[e] \in Nat
      BY DEF TypeInv, TypeOK, Typed
<1>4. left \in Int /\ room \in Int
      BY <1>1, <1>2, <1>3, ChannelAssumption
<1>5. n \in Sizes(IF left < room THEN left ELSE room) /\ op[e] = "write"
      BY DEF Write, WriteFrom
<1>6. n \in Nat /\ n > 0 /\ n <= left /\ n <= room
  <2> DEFINE m == IF left < room THEN left ELSE room
  <2>1. m \in Int /\ m <= left /\ m <= room
        BY <1>4
  <2>2. n \in Nat /\ n > 0 /\ n <= m
    <3>1. n \in Sizes(m)
          BY <1>5
    <3> HIDE DEF m
    <3> QED BY <2>1, <3>1, SizesType
  <2> HIDE DEF m, left, room
  <2> QED BY <1>4, <2>1, <2>2
<1>7. part \in Seq(Byte) /\ Len(part) = n
  <2>1. off[e] + n <= Size(frame[e])
        BY <1>1, <1>2, <1>6
  <2> QED BY <1>1, <1>6, <2>1, PortionType
<1>8. /\ wire' = [wire EXCEPT ![e] = @ \o part]
      /\ off' = [off EXCEPT ![e] = @ + n]
      /\ op' = [op EXCEPT ![e] = IF n = left THEN "flush" ELSE "write"]
      /\ UNCHANGED << frame, read_buf, result, open, broken, pushed, taken,
                      torn, got, rejected, lost, sends >>
      BY DEF Write, WriteFrom
<1>9. wire'[e] \in Seq(Byte) /\ Len(wire'[e]) = Len(wire[e]) + n
  <2> HIDE DEF part
  <2>1. wire'[e] = wire[e] \o part
        BY <1>8 DEF TypeInv, TypeOK, Typed
  <2>2. wire[e] \o part \in Seq(Byte) /\ Len(wire[e] \o part) = Len(wire[e]) + Len(part)
        BY <1>3, <1>7, ConcatProperties
  <2> QED BY <1>7, <2>1, <2>2
<1>10. done' \in [Peers -> Seq([frame : FrameSet, end : Nat])]
  <2> DEFINE d == IF n = left /\ ~torn[e]
                  THEN Append(done[e], [frame |-> frame[e], end |-> Len(wire[e]) + n])
                  ELSE done[e]
  <2>1. done' = [done EXCEPT ![e] = d]
        BY DEF Write, WriteFrom
  <2>2. [frame |-> frame[e], end |-> Len(wire[e]) + n] \in [frame : FrameSet, end : Nat]
        BY <1>1, <1>3, <1>6
  <2>3. done[e] \in Seq([frame : FrameSet, end : Nat])
        BY DEF TypeInv, TypeOK, Typed
  <2>4. d \in Seq([frame : FrameSet, end : Nat])
        BY <2>2, <2>3, AppendProperties
  <2> HIDE DEF d
  <2> QED BY <2>1, <2>4 DEF TypeInv, TypeOK, Typed
<1> HIDE DEF part
<1>11. Typed'
  <2>1. op' \in [Peers -> {"idle", "write", "flush", "recv"}]
        BY <1>8 DEF TypeInv, TypeOK, Typed
  <2>2. off' \in [Peers -> Nat]
        BY <1>6, <1>8 DEF TypeInv, TypeOK, Typed
  <2>3. wire' \in [Peers -> Seq(Byte)]
        BY <1>8, <1>9 DEF TypeInv, TypeOK, Typed
  <2> QED BY <1>8, <1>10, <2>1, <2>2, <2>3 DEF TypeInv, TypeOK, Typed
<1>12. ASSUME NEW p \in Peers PROVE Progress(p)'
  <2>1. CASE p = e
    <3>1. off'[e] = off[e] + n /\ frame'[e] = frame[e]
          BY <1>8 DEF TypeInv, TypeOK, Typed
    <3>2. op'[e] = "write" => n # left
          BY <1>8 DEF TypeInv, TypeOK, Typed
    <3>3. Size(frame[e])' = Size(frame'[e])
          BY DEF Size
    <3>4. off'[e] <= Size(frame'[e])
          BY <1>1, <1>2, <1>6, <3>1
    <3>5. op'[e] = "write" => off'[e] < Size(frame'[e])
          BY <1>1, <1>2, <1>6, <3>1, <3>2
    <3> QED BY <2>1, <3>3, <3>4, <3>5 DEF Progress
  <2>2. CASE p # e
        BY <1>8, <2>2 DEF TypeInv, TypeOK, Typed, Progress, Size
  <2> QED BY <2>1, <2>2
<1>13. ASSUME NEW p \in Peers PROVE Flow(p)'
  <2>1. CASE p = e
        BY <1>3, <1>6, <1>8, <1>9, <2>1, ChannelAssumption, SMTT(30)
        DEF TypeInv, TypeOK, Typed, Flow
  <2>2. CASE p # e
        BY <1>8, <2>2 DEF TypeInv, TypeOK, Typed, Flow
  <2> QED BY <2>1, <2>2
<1>14. FramesFit'
       BY <1>8 DEF TypeInv, FramesFit
<1> QED BY <1>11, <1>12, <1>13, <1>14 DEF TypeInv, TypeOK

\* The stream moving bytes into the pipe keeps offsets and capacities.
LEMMA PushType ==
    ASSUME TypeInv, NEW e \in Peers, NEW n, Push(e, n)
    PROVE  TypeInv'
<1> DEFINE left == Len(wire[e]) - pushed[e]
           room == PipeCapacity - (pushed[e] - taken[e])
           m    == IF left < room THEN left ELSE room
<1>1. wire[e] \in Seq(Byte) /\ pushed[e] \in Nat /\ taken[e] \in Nat
      BY DEF TypeInv, TypeOK, Typed
<1>2. m \in Int /\ m <= left /\ m <= room
      BY <1>1, ChannelAssumption, SMTT(30)
<1>3. n \in Nat /\ n > 0 /\ n <= m
  <2>1. n \in Sizes(m)
        BY DEF Push
  <2> HIDE DEF m
  <2> QED BY <1>2, <2>1, SizesType
<1>4. n <= left /\ n <= room
  <2>1. left \in Int /\ room \in Int
        BY <1>1, ChannelAssumption
  <2> HIDE DEF m, left, room
  <2> QED BY <1>2, <1>3, <2>1
<1> HIDE DEF m
<1>5. pushed' = [pushed EXCEPT ![e] = @ + n]
      BY DEF Push
<1>6. Typed'
  <2>1. pushed' \in [Peers -> Nat]
        BY <1>3, <1>5 DEF TypeInv, TypeOK, Typed
  <2> QED BY <2>1 DEF TypeInv, TypeOK, Typed, Push
<1>7. ASSUME NEW p \in Peers PROVE Progress(p)'
      BY DEF TypeInv, TypeOK, Progress, Push
<1>8. ASSUME NEW p \in Peers PROVE Flow(p)'
  <2>1. UNCHANGED << wire, taken >>
        BY DEF Push
  <2>2. CASE p = e
        BY <1>1, <1>3, <1>4, <1>5, <2>1, <2>2, ChannelAssumption, SMTT(30)
        DEF TypeInv, TypeOK, Typed, Flow
  <2>3. CASE p # e
        BY <1>5, <2>1, <2>3 DEF TypeInv, TypeOK, Typed, Flow
  <2> QED BY <2>2, <2>3
<1>9. FramesFit'
      BY DEF TypeInv, FramesFit, Push
<1> QED BY <1>6, <1>7, <1>8, <1>9 DEF TypeInv, TypeOK

\* The end of a send(), by whatever cause, keeps the types.
LEMMA EndSendType ==
    ASSUME TypeInv, NEW e \in Peers, NEW res \in Results, EndSend(e, res)
    PROVE  TypeInv'
<1>1. Typed'
  <2>1. op' \in [Peers -> {"idle", "write", "flush", "recv"}]
        BY DEF TypeInv, TypeOK, Typed, EndSend
  <2>2. frame' \in [Peers -> FrameSet]
        BY NoFrameType DEF TypeInv, TypeOK, Typed, EndSend
  <2>3. off' \in [Peers -> Nat] /\ result' \in [Peers -> Results]
        BY DEF TypeInv, TypeOK, Typed, EndSend
  <2>4. torn' \in [Peers -> BOOLEAN]
        BY DEF TypeInv, TypeOK, Typed, EndSend
  <2> QED BY <2>1, <2>2, <2>3, <2>4 DEF TypeInv, TypeOK, Typed, EndSend, stream
<1>2. ASSUME NEW p \in Peers PROVE Progress(p)'
  <2>1. Size(NoFrame) = 8
        BY DEF NoFrame, Size, HEADER_LEN
  <2> QED BY <2>1 DEF TypeInv, TypeOK, Typed, Progress, Size, EndSend
<1>3. ASSUME NEW p \in Peers PROVE Flow(p)'
      BY DEF TypeInv, TypeOK, Flow, EndSend, stream
<1>4. FramesFit'
      BY NoFrameType DEF TypeInv, TypeOK, Typed, FramesFit, EndSend
<1> QED BY <1>1, <1>2, <1>3, <1>4 DEF TypeInv, TypeOK

\* What is left of the buffer after the head of the loop.
Rest(b) == IF DecodePrefix(b).tag = "Some"
           THEN SubSeq(b, DecodePrefix(b).consumed + 1, Len(b)) ELSE b

\* What is left of the buffer once a frame is drained is bytes.
LEMMA RestType ==
    ASSUME NEW b \in Seq(Byte)
    PROVE  /\ Rest(b) \in Seq(Byte)
           /\ Len(Rest(b)) <= Len(b)
           /\ DecodePrefix(b).tag = "Some" =>
                 Len(Rest(b)) = Len(b) - DecodePrefix(b).consumed
<1>1. CASE DecodePrefix(b).tag = "Some"
  <2> DEFINE c == DecodePrefix(b).consumed
  <2>1. c \in HEADER_LEN..Len(b)
        BY <1>1, DecodeType
  <2>2. Rest(b) = SubSeq(b, c + 1, Len(b))
        BY <1>1 DEF Rest
  <2> HIDE DEF c
  <2>3. Rest(b) \in Seq(Byte) /\ Len(Rest(b)) = Len(b) - c /\ Len(Rest(b)) <= Len(b)
        BY <2>1, <2>2 DEF HEADER_LEN
  <2> QED BY <2>3 DEF c
<1>2. CASE DecodePrefix(b).tag # "Some"
      BY <1>2 DEF Rest
<1> QED BY <1>1, <1>2

\* The head of recv's loop keeps the types of all it sets.
LEMMA LoopHeadType ==
    ASSUME TypeInv, NEW e \in Peers, NEW b \in Seq(Byte), LoopHead(e, b)
    PROVE  /\ op' \in [Peers -> {"idle", "write", "flush", "recv"}]
           /\ read_buf' \in [Peers -> Seq(Byte)]
           /\ got' \in [Peers -> Seq(FrameSet)]
           /\ rejected' \in [Peers -> BOOLEAN]
           /\ result' \in [Peers -> Results]
           /\ \A p \in Peers : op'[p] = "write" => op[p] = "write"
<1> DEFINE r == DecodePrefix(b)
<1>1. Settle(e, r, Rest(b))
      BY DEF LoopHead, Rest
<1>2. /\ op \in [Peers -> {"idle", "write", "flush", "recv"}]
      /\ read_buf \in [Peers -> Seq(Byte)]
      /\ got \in [Peers -> Seq(FrameSet)]
      /\ rejected \in [Peers -> BOOLEAN]
      /\ result \in [Peers -> Results]
      BY DEF TypeInv, TypeOK, Typed
<1>3. Rest(b) \in Seq(Byte)
      BY RestType
<1>4. r.tag = "Some" => r.frame \in FrameSet
      BY DecodeType
<1>5. r.tag = "Err" => r.error \in Results
      BY DecodeCases DEF Results, Err, None
<1> HIDE DEF r
<1>6. op' \in [Peers -> {"idle", "write", "flush", "recv"}]
      BY <1>1, <1>2 DEF Settle
<1>7. read_buf' \in [Peers -> Seq(Byte)]
      BY <1>1, <1>2, <1>3 DEF Settle
<1>8. got' \in [Peers -> Seq(FrameSet)]
  <2> DEFINE g == IF r.tag = "Some" THEN Append(got[e], r.frame) ELSE got[e]
  <2>1. got' = [got EXCEPT ![e] = g]
        BY <1>1 DEF Settle
  <2>2. g \in Seq(FrameSet)
        BY <1>2, <1>4, AppendProperties
  <2> HIDE DEF g
  <2> QED BY <1>2, <2>1, <2>2
<1>9. rejected' \in [Peers -> BOOLEAN]
      BY <1>1, <1>2 DEF Settle
<1>10. result' \in [Peers -> Results]
  <2> DEFINE x == CASE r.tag = "Some" -> "Ok"
                    [] r.tag = "Err"  -> r.error
                    [] OTHER          -> result[e]
  <2>1. result' = [result EXCEPT ![e] = x]
        BY <1>1 DEF Settle
  <2>2. x \in Results
        BY <1>2, <1>5 DEF Results
  <2> HIDE DEF x
  <2> QED BY <1>2, <2>1, <2>2
<1>11. \A p \in Peers : op'[p] = "write" => op[p] = "write"
       BY <1>1, <1>2 DEF Settle
<1> QED BY <1>6, <1>7, <1>8, <1>9, <1>10, <1>11

\* The call of recv() keeps the types.
LEMMA RecvType ==
    ASSUME TypeInv, NEW e \in Peers, Recv(e)
    PROVE  TypeInv'
<1>1. read_buf[e] \in Seq(Byte) /\ LoopHead(e, read_buf[e])
      BY DEF TypeInv, TypeOK, Typed, Recv
<1>2. Typed'
      BY <1>1, LoopHeadType DEF TypeInv, TypeOK, Typed, Recv, stream
<1>3. ASSUME NEW p \in Peers PROVE Progress(p)'
      BY <1>1, LoopHeadType DEF TypeInv, TypeOK, Progress, Size, Recv
<1>4. ASSUME NEW p \in Peers PROVE Flow(p)'
      BY DEF TypeInv, TypeOK, Flow, Recv, stream
<1>5. FramesFit'
      BY DEF TypeInv, FramesFit, Recv
<1> QED BY <1>2, <1>3, <1>4, <1>5 DEF TypeInv, TypeOK

\* The bytes a read hands over, and the buffer it makes.
Arrived(p, n) == SubSeq(wire[p], taken[p] + 1, taken[p] + n)

\* The bytes a read hands over are bytes the peer pushed, and within what is
\* available.
LEMMA ReadType ==
    ASSUME TypeInv, NEW e \in Peers, NEW n, RecvRead(e, n)
    PROVE  /\ n \in Nat /\ n <= Chunk
           /\ taken[Peer(e)] + n <= pushed[Peer(e)]
           /\ Arrived(Peer(e), n) \in Seq(Byte)
           /\ Len(Arrived(Peer(e), n)) = n
           /\ read_buf[e] \o Arrived(Peer(e), n) \in Seq(Byte)
           /\ Len(read_buf[e] \o Arrived(Peer(e), n)) = Len(read_buf[e]) + n
<1> DEFINE p == Peer(e)
           avail == pushed[p] - taken[p]
           m == IF avail < Chunk THEN avail ELSE Chunk
<1>1. p \in Peers
      BY PeerType
<1> HIDE DEF p
<1>2. /\ pushed[p] \in Nat /\ taken[p] \in Nat
      /\ wire[p] \in Seq(Byte) /\ pushed[p] <= Len(wire[p])
      BY <1>1 DEF TypeInv, TypeOK, Typed, Flow
<1>3. m \in Int /\ m <= avail /\ m <= Chunk
      BY <1>2, ChannelAssumption
<1>4. n \in Nat /\ n > 0 /\ n <= m
  <2>1. n \in Sizes(m)
        BY DEF RecvRead, p
  <2> HIDE DEF m
  <2> QED BY <1>3, <2>1, SizesType
<1> HIDE DEF m
<1>5. n <= Chunk /\ taken[p] + n <= pushed[p]
      BY <1>2, <1>3, <1>4, ChannelAssumption
<1>6. Arrived(p, n) \in Seq(Byte) /\ Len(Arrived(p, n)) = n
  <2> DEFINE w == wire[p]
             k == taken[p]
  <2>1. w \in Seq(Byte) /\ k \in Nat /\ k + n <= Len(w)
        BY <1>2, <1>4, <1>5
  <2> HIDE DEF w, k
  <2>2. SubSeq(w, k + 1, k + n) \in Seq(Byte) /\ Len(SubSeq(w, k + 1, k + n)) = n
        BY <1>4, <2>1
  <2> QED BY <2>2 DEF Arrived, w, k
<1>7. read_buf[e] \in Seq(Byte)
      BY DEF TypeInv, TypeOK, Typed
<1> DEFINE a == Arrived(p, n)
<1> HIDE DEF a
<1>8. /\ read_buf[e] \o a \in Seq(Byte)
      /\ Len(read_buf[e] \o a) = Len(read_buf[e]) + Len(a)
      BY <1>6, <1>7, ConcatProperties DEF a
<1> QED BY <1>4, <1>5, <1>6, <1>8 DEF a, p

\* A read inside recv() keeps the types and the offsets.
LEMMA RecvReadType ==
    ASSUME TypeInv, NEW e \in Peers, NEW n, RecvRead(e, n)
    PROVE  TypeInv'
<1> DEFINE p == Peer(e)
           b == read_buf[e] \o Arrived(p, n)
<1>0. p \in Peers /\ n \in Nat
      BY ReadType, PeerType
<1>1. /\ p \in Peers /\ n \in Nat /\ b \in Seq(Byte)
      /\ taken[p] + n <= pushed[p]
      BY ReadType, PeerType
<1>2. /\ LoopHead(e, b)
      /\ taken' = [taken EXCEPT ![p] = @ + n]
      /\ UNCHANGED << frame, off, open, broken, wire, pushed, torn, done, lost, sends >>
      BY DEF RecvRead, Arrived
<1> HIDE DEF p, b
<1>3. Typed'
  <2>1. taken \in [Peers -> Nat]
        BY DEF TypeInv, TypeOK, Typed
  <2>2. taken' \in [Peers -> Nat]
    <3>1. taken' = [taken EXCEPT ![p] = @ + n]
          BY <1>2
    <3> QED BY <1>0, <2>1, <3>1
  <2> QED BY <1>1, <1>2, <2>2, LoopHeadType DEF TypeInv, TypeOK, Typed
<1>4. ASSUME NEW q \in Peers PROVE Progress(q)'
      BY <1>1, <1>2, LoopHeadType DEF TypeInv, TypeOK, Progress, Size
<1>5. ASSUME NEW q \in Peers PROVE Flow(q)'
  <2>1. CASE q = p
    <3>1. /\ taken'[p] = taken[p] + n /\ taken[p] \in Nat /\ pushed[p] \in Nat
          /\ wire[p] \in Seq(Byte) /\ Flow(p)
          BY <1>1, <1>2 DEF TypeInv, TypeOK, Typed
    <3>2. pushed[p] - taken'[p] <= PipeCapacity /\ taken'[p] <= pushed[p]
          BY <1>1, <3>1, ChannelAssumption DEF Flow
    <3> QED BY <1>2, <2>1, <3>1, <3>2 DEF Flow
  <2>2. CASE q # p
        BY <1>1, <1>2, <2>2 DEF TypeInv, TypeOK, Typed, Flow
  <2> QED BY <2>1, <2>2
<1>6. FramesFit'
      BY <1>2 DEF TypeInv, FramesFit
<1> QED BY <1>3, <1>4, <1>5, <1>6 DEF TypeInv, TypeOK

\* The end of a recv() without a frame keeps the types.
LEMMA EndRecvType ==
    ASSUME TypeInv, NEW e \in Peers, NEW res \in Results, EndRecv(e, res)
    PROVE  TypeInv'
<1>1. Typed'
  <2>1. /\ op' \in [Peers -> {"idle", "write", "flush", "recv"}]
        /\ result' \in [Peers -> Results]
        BY DEF TypeInv, TypeOK, Typed, EndRecv
  <2> QED BY <2>1 DEF TypeInv, TypeOK, Typed, EndRecv, stream
<1>2. ASSUME NEW p \in Peers PROVE (Progress(p) /\ Flow(p))'
      BY DEF TypeInv, TypeOK, Typed, Progress, Size, Flow, EndRecv, stream
<1>3. FramesFit'
      BY DEF TypeInv, FramesFit, EndRecv
<1> QED BY <1>1, <1>2, <1>3 DEF TypeInv, TypeOK

\* Closing a channel and losing the connection keep the types.
LEMMA EnvironmentType ==
    ASSUME TypeInv, Break \/ \E e \in Peers : Close(e)
    PROVE  TypeInv'
<1>1. CASE Break
  <2>1. Typed'
        BY <1>1 DEF TypeInv, TypeOK, Typed, Break, stream
  <2> QED BY <1>1, <2>1
          DEF TypeInv, TypeOK, Progress, Size, Flow, FramesFit, Break, stream
<1>2. ASSUME NEW e \in Peers, Close(e) PROVE TypeInv'
  <2>1. Typed'
        BY <1>2 DEF TypeInv, TypeOK, Typed, Close, stream
  <2> QED BY <1>2, <2>1
          DEF TypeInv, TypeOK, Progress, Size, Flow, FramesFit, Close, stream
<1> QED BY <1>1, <1>2

\* Giving the stream to a new channel keeps the types.
LEMMA RewrapType ==
    ASSUME TypeInv, NEW e \in Peers, Rewrap(e)
    PROVE  TypeInv'
<1>1. Typed'
  <2>1. /\ read_buf' \in [Peers -> Seq(Byte)]
        /\ lost' \in [Peers -> BOOLEAN]
        /\ rejected' \in [Peers -> BOOLEAN]
        BY DEF TypeInv, TypeOK, Typed, Rewrap
  <2> QED BY <2>1 DEF TypeInv, TypeOK, Typed, Rewrap, stream
<1>2. ASSUME NEW p \in Peers PROVE (Progress(p) /\ Flow(p))'
      BY DEF TypeInv, TypeOK, Typed, Progress, Size, Flow, Rewrap, stream
<1>3. FramesFit'
      BY DEF TypeInv, FramesFit, Rewrap
<1> QED BY <1>1, <1>2, <1>3 DEF TypeInv, TypeOK

\* A stuttering step keeps the types.
LEMMA StutterType ==
    ASSUME TypeInv, UNCHANGED vars
    PROVE  TypeInv'
<1>1. Typed'
      BY DEF TypeInv, TypeOK, Typed, vars, stream
<1> QED BY <1>1 DEF TypeInv, TypeOK, Progress, Size, Flow, FramesFit, vars, stream

\* Every step keeps the type invariant, action by action.
LEMMA TypeStep == TypeInv /\ [Next]_vars => TypeInv'
<1> SUFFICES ASSUME TypeInv, [Next]_vars PROVE TypeInv'
    OBVIOUS
<1>1. ASSUME NEW e \in Peers, NEW f \in Frames, Send(e, f) \/ SendRefused(e, f)
      PROVE  TypeInv'
      BY <1>1, SendType, SendRefusedType
<1>2. ASSUME NEW e \in Peers, NEW f \in ForeignFrames, SendForeign(e, f)
      PROVE  TypeInv'
      BY <1>2, SendForeignType
<1>3. ASSUME NEW e \in Peers, NEW n, Write(e, n) \/ Push(e, n) PROVE TypeInv'
      BY <1>3, WriteType, PushType
<1>4. ASSUME NEW e \in Peers, SendDone(e) \/ SendFails(e) \/ SendCancelled(e)
      PROVE  TypeInv'
      BY <1>4, EndSendType DEF SendDone, SendFails, SendCancelled, Results
<1>5. ASSUME NEW e \in Peers, Recv(e) PROVE TypeInv'
      BY <1>5, RecvType
<1>6. ASSUME NEW e \in Peers, NEW n, RecvRead(e, n) PROVE TypeInv'
      BY <1>6, RecvReadType
<1>7. ASSUME NEW e \in Peers, RecvEof(e) \/ RecvFails(e) \/ RecvCancelled(e)
      PROVE  TypeInv'
      BY <1>7, EndRecvType DEF RecvEof, RecvFails, RecvCancelled, Results
<1>8. CASE UNCHANGED vars
      BY <1>8, StutterType
<1>9. ASSUME NEW e \in Peers, Rewrap(e) PROVE TypeInv'
      BY <1>9, RewrapType
<1> QED BY <1>1, <1>2, <1>3, <1>4, <1>5, <1>6, <1>7, <1>8, <1>9, EnvironmentType
        DEF Next

\* Every slice send() and recv() take is within range, every buffer of the
\* stream within its capacity and every variable of its type, whatever the
\* frames, the limit, the capacities and the faults.
THEOREM TypeCorrect == Spec => []TypeOK
<1>1. TypeInv => TypeOK
      BY DEF TypeInv
<1> QED BY <1>1, TypeInit, TypeStep, PTL DEF Spec

-----------------------------------------------------------------------------
(***************************************************************************)
(* The read buffer                                                         *)
(***************************************************************************)
Limit == IF MAX_PAYLOAD_LEN < Chunk THEN Chunk ELSE MAX_PAYLOAD_LEN

\* A buffer that waits is incomplete; a rejected one stays rejected.
Settled(e) ==
    /\ op[e] = "recv" => DecodePrefix(read_buf[e]) = None
    /\ rejected[e] => op[e] # "recv" /\ Rejected(read_buf[e])

ReadInv == \A e \in Peers :
              Settled(e) /\ Len(read_buf[e]) < HEADER_LEN + Limit

\* The bound of the buffer is a number no less than a payload or a read.
LEMMA LimitType == Limit \in Nat /\ MAX_PAYLOAD_LEN <= Limit /\ Chunk <= Limit
BY ChannelAssumption, MaxPayloadAssumption DEF Limit

\* A buffer decode_prefix() wants more of holds less than the largest frame.
LEMMA PendingIsPart ==
    ASSUME NEW b \in Seq(Byte), DecodePrefix(b) = None
    PROVE  Len(b) < HEADER_LEN + MAX_PAYLOAD_LEN
<1>1. Len(b) \in Nat /\ MAX_PAYLOAD_LEN \in Nat
      BY MaxPayloadAssumption
<1>2. CASE Len(b) >= HEADER_LEN
  <2>1. Declared(b) \in Nat
        BY <1>2, DeclaredType
  <2>2. Len(b) < HEADER_LEN + Declared(b) /\ Declared(b) <= MAX_PAYLOAD_LEN
        BY <1>2, DecodeNone
  <2> QED BY <1>1, <2>1, <2>2 DEF HEADER_LEN
<1>3. CASE ~(Len(b) >= HEADER_LEN)
      BY <1>1, <1>3 DEF HEADER_LEN
<1> QED BY <1>2, <1>3

\* The same, in terms of the bound of the buffer.
LEMMA PendingIsShort ==
    ASSUME NEW b \in Seq(Byte), DecodePrefix(b) = None
    PROVE  Len(b) < HEADER_LEN + Limit
<1>1. Len(b) \in Nat /\ MAX_PAYLOAD_LEN \in Nat
      BY MaxPayloadAssumption
<1> QED BY <1>1, PendingIsPart, LimitType DEF HEADER_LEN

\* One read after a buffer that waited: what the head of the loop leaves.
LEMMA ReadKeepsBound ==
    ASSUME NEW b \in Seq(Byte), NEW s \in Seq(Byte),
           DecodePrefix(b) = None, Len(s) <= Chunk
    PROVE  Len(Rest(b \o s)) < HEADER_LEN + Limit
<1> DEFINE c == b \o s
<1>1. c \in Seq(Byte) /\ Len(c) = Len(b) + Len(s)
      BY ConcatProperties
<1>2. Len(b) >= HEADER_LEN => /\ Major(c) = Major(b)
                              /\ Declared(c) = Declared(b)
      BY HeaderKept
<1> HIDE DEF c
<1>3. Len(b) \in Nat /\ Len(s) \in Nat /\ Chunk \in Nat /\ Limit \in Nat
      /\ Chunk <= Limit
      BY LimitType, ChannelAssumption
<1>4. CASE DecodePrefix(c) = None
  <2>1. Rest(c) = c
        BY <1>4 DEF Rest, None
  <2> QED BY <1>1, <1>4, <2>1, PendingIsShort DEF c
<1>5. CASE Rejected(c)
  <2>1. Rest(c) = c
        BY <1>5 DEF Rest, Rejected
  <2>2. Len(b) < HEADER_LEN
    <3> SUFFICES ASSUME Len(b) >= HEADER_LEN PROVE FALSE
        BY <1>3 DEF HEADER_LEN
    <3>1. /\ IsSupported(Major(c)) /\ Declared(c) <= MAX_PAYLOAD_LEN
          BY <1>2, DecodeNone
    <3>2. Declared(c) \in Nat
          BY <1>2, DeclaredType
    <3> QED BY <1>5, <3>1, <3>2, MaxPayloadAssumption
            DEF Rejected, DecodePrefix, None, Err, Some
  <2>3. Len(c) < HEADER_LEN + Limit
        BY <1>1, <1>3, <2>2 DEF HEADER_LEN
  <2> QED BY <2>1, <2>3 DEF c
<1>6. CASE DecodePrefix(c).tag = "Some"
  <2> DEFINE k == DecodePrefix(c).consumed
  <2>1. k \in HEADER_LEN..Len(c) /\ Len(Rest(c)) = Len(c) - k
        BY <1>1, <1>6, DecodeType, RestType
  <2>2. k = HEADER_LEN + Declared(c)
        BY <1>6 DEF DecodePrefix, None, Err, Some
  <2>3. Len(b) >= HEADER_LEN => Len(b) < HEADER_LEN + Declared(c)
        BY <1>2, DecodeNone
  <2> HIDE DEF k
  <2>4. k \in Nat /\ k >= 8 /\ Len(b) < k
        BY <1>1, <1>3, <2>1, <2>2, <2>3 DEF HEADER_LEN
  <2>5. Len(Rest(c)) < HEADER_LEN + Limit
        BY <1>1, <1>3, <2>1, <2>4 DEF HEADER_LEN
  <2> QED BY <2>5 DEF c
<1> QED BY <1>4, <1>5, <1>6, DecodeCases DEF Rejected, Err

\* The invariant of the read buffer holds initially.
LEMMA ReadInit == Init => ReadInv
<1>1. Len(<< >>) = 0 /\ Limit \in Nat
      BY LimitType
<1> QED BY <1>1 DEF Init, ReadInv, Settled, HEADER_LEN

\* The head of the loop, entered with buffer b by an endpoint whose earlier
\* rejection, if any, was of b itself.
LEMMA LoopHeadRead ==
    ASSUME TypeInv, ReadInv, NEW e \in Peers, NEW b \in Seq(Byte),
           LoopHead(e, b), rejected[e] => Rejected(b),
           Len(Rest(b)) < HEADER_LEN + Limit
    PROVE  ReadInv'
<1>1. /\ op \in [Peers -> {"idle", "write", "flush", "recv"}]
      /\ read_buf \in [Peers -> Seq(Byte)]
      /\ rejected \in [Peers -> BOOLEAN]
      BY DEF TypeInv, TypeOK, Typed
<1> DEFINE r == DecodePrefix(b)
<1>2. /\ op' = [op EXCEPT ![e] = IF r = None THEN "recv" ELSE "idle"]
      /\ read_buf' = [read_buf EXCEPT ![e] = Rest(b)]
      /\ rejected' = [rejected EXCEPT ![e] = @ \/ r.tag = "Err"]
      BY DEF LoopHead, Settle, Rest
<1>3. ASSUME NEW p \in Peers
      PROVE  Settled(p)' /\ Len(read_buf'[p]) < HEADER_LEN + Limit
  <2>1. CASE p = e
    <3>1. /\ op'[e] = "recv" => r = None
          /\ op'[e] = "recv" \/ op'[e] = "idle"
          /\ read_buf'[e] = Rest(b)
          /\ rejected'[e] => r.tag = "Err"
          BY <1>1, <1>2 DEF Rejected
    <3>2. r = None \/ r.tag = "Err" => Rest(b) = b
          BY DEF Rest, None
    <3>3. ~(r = None /\ r.tag = "Err")
          BY DEF None
    <3> QED BY <2>1, <3>1, <3>2, <3>3 DEF Settled, Rejected
  <2>2. CASE p # e
    <3>1. /\ op'[p] = op[p] /\ read_buf'[p] = read_buf[p]
          /\ rejected'[p] = rejected[p]
          BY <1>1, <1>2, <2>2
    <3> QED BY <3>1 DEF ReadInv, Settled
  <2> QED BY <2>1, <2>2
<1> QED BY <1>3 DEF ReadInv, Limit

\* A step that puts nobody in recv() and touches no buffer.
LEMMA ReadElsewhere ==
    ASSUME ReadInv, UNCHANGED << read_buf, rejected >>,
           \A p \in Peers : op'[p] = "recv" => op[p] = "recv"
    PROVE  ReadInv'
BY DEF ReadInv, Settled, Limit

\* Every step keeps the invariant of the read buffer.
LEMMA ReadStep == TypeInv /\ ReadInv /\ [Next]_vars => ReadInv'
<1> SUFFICES ASSUME TypeInv, ReadInv, [Next]_vars PROVE ReadInv'
    OBVIOUS
<1>1. op \in [Peers -> {"idle", "write", "flush", "recv"}]
      BY DEF TypeInv, TypeOK, Typed
<1>2. ASSUME NEW e \in Peers, Recv(e) PROVE ReadInv'
  <2>1. /\ read_buf[e] \in Seq(Byte) /\ Len(read_buf[e]) < HEADER_LEN + Limit
        /\ rejected[e] => Rejected(read_buf[e])
        BY DEF TypeInv, TypeOK, Typed, ReadInv, Settled
  <2>2. /\ Len(Rest(read_buf[e])) <= Len(read_buf[e])
        /\ Rest(read_buf[e]) \in Seq(Byte)
        BY <2>1, RestType
  <2>3. Len(Rest(read_buf[e])) < HEADER_LEN + Limit
        BY <2>1, <2>2, LimitType DEF HEADER_LEN
  <2> QED BY <1>2, <2>1, <2>3, LoopHeadRead DEF Recv
<1>3. ASSUME NEW e \in Peers, NEW n, RecvRead(e, n) PROVE ReadInv'
  <2> DEFINE s == Arrived(Peer(e), n)
  <2>1. /\ op[e] = "recv" /\ LoopHead(e, read_buf[e] \o s)
        BY <1>3 DEF RecvRead, Arrived
  <2>2. /\ s \in Seq(Byte) /\ Len(s) <= Chunk
        /\ read_buf[e] \in Seq(Byte) /\ read_buf[e] \o s \in Seq(Byte)
        BY <1>3, ReadType DEF TypeInv, TypeOK, Typed
  <2>3. DecodePrefix(read_buf[e]) = None /\ ~rejected[e]
        BY <2>1 DEF ReadInv, Settled
  <2> HIDE DEF s
  <2>4. Len(Rest(read_buf[e] \o s)) < HEADER_LEN + Limit
        BY <2>2, <2>3, ReadKeepsBound
  <2> QED BY <2>1, <2>2, <2>3, <2>4, LoopHeadRead
<1>4. ASSUME NEW e \in Peers, NEW f, Send(e, f) \/ SendRefused(e, f) \/ SendForeign(e, f)
      PROVE  ReadInv'
      BY <1>1, <1>4, ReadElsewhere DEF Send, SendRefused, SendForeign
<1>5. ASSUME NEW e \in Peers, NEW n, Write(e, n) \/ Push(e, n) PROVE ReadInv'
      BY <1>1, <1>5, ReadElsewhere DEF Write, WriteFrom, Push
<1>6. ASSUME NEW e \in Peers, SendDone(e) \/ SendFails(e) \/ SendCancelled(e)
      PROVE  ReadInv'
      BY <1>1, <1>6, ReadElsewhere DEF SendDone, SendFails, SendCancelled, EndSend
<1>7. ASSUME NEW e \in Peers, RecvEof(e) \/ RecvFails(e) \/ RecvCancelled(e)
      PROVE  ReadInv'
      BY <1>1, <1>7, ReadElsewhere DEF RecvEof, RecvFails, RecvCancelled, EndRecv
<1>8. ASSUME NEW e \in Peers, Close(e) PROVE ReadInv'
      BY <1>8, ReadElsewhere DEF Close
<1>9. CASE Break
      BY <1>9, ReadElsewhere DEF Break
<1>10. CASE UNCHANGED vars
      BY <1>10, ReadElsewhere DEF vars
<1>11. ASSUME NEW e \in Peers, Rewrap(e) PROVE ReadInv'
  <2>1. /\ read_buf \in [Peers -> Seq(Byte)] /\ rejected \in [Peers -> BOOLEAN]
        /\ Len(<< >>) = 0 /\ Limit \in Nat
        BY LimitType DEF TypeInv, TypeOK, Typed
  <2>2. ASSUME NEW p \in Peers
        PROVE  Settled(p)' /\ Len(read_buf'[p]) < HEADER_LEN + Limit
    <3>1. CASE p = e
          BY <1>11, <2>1, <3>1 DEF Rewrap, Ready, Settled, HEADER_LEN
    <3>2. CASE p # e
          BY <1>11, <2>1, <3>2 DEF Rewrap, ReadInv, Settled
    <3> QED BY <3>1, <3>2
  <2> QED BY <2>2 DEF ReadInv, Limit
<1> QED BY <1>2, <1>3, <1>4, <1>5, <1>6, <1>7, <1>8, <1>9, <1>10, <1>11 DEF Next

\* recv() buffers less than a header and the larger of a payload and a read,
\* and less than the largest frame when it asks for more, whatever lengths the
\* peer declares and however fast it sends.
THEOREM BufferBounded == Spec => []BufferBound
<1>1. TypeInv /\ ReadInv => BufferBound
  <2> SUFFICES ASSUME TypeInv, ReadInv, NEW e \in Peers
               PROVE  /\ op[e] = "recv" =>
                           Len(read_buf[e]) < HEADER_LEN + MAX_PAYLOAD_LEN
                      /\ Len(read_buf[e]) < HEADER_LEN + Limit
      BY DEF BufferBound, Limit
  <2>1. read_buf[e] \in Seq(Byte)
        BY DEF TypeInv, TypeOK, Typed
  <2>2. ASSUME op[e] = "recv"
        PROVE  Len(read_buf[e]) < HEADER_LEN + MAX_PAYLOAD_LEN
    <3>1. DecodePrefix(read_buf[e]) = None
          BY <2>2 DEF ReadInv, Settled
    <3> QED BY <2>1, <3>1, PendingIsPart
  <2> QED BY <2>2 DEF ReadInv
<1> QED BY <1>1, TypeInit, TypeStep, ReadInit, ReadStep, PTL DEF Spec

\* A channel that has rejected a header takes nothing more from the stream and
\* returns no frame for as long as it exists: a framing error cannot be
\* resynchronised away.
THEOREM RejectionLasts == Spec => RejectionIsFinal
<1> DEFINE Kept == \A e \in Peers : rejected[e] /\ ~Rewrap(e) =>
                     /\ read_buf'[e] = read_buf[e]
                     /\ got'[e] = got[e]
                     /\ taken'[Peer(e)] = taken[Peer(e)]
<1>1. TypeInv /\ ReadInv /\ [Next]_vars => [Kept]_vars
  <2> SUFFICES ASSUME TypeInv, ReadInv, Next, NEW e \in Peers,
                      rejected[e], ~Rewrap(e)
               PROVE  /\ read_buf'[e] = read_buf[e]
                      /\ got'[e] = got[e]
                      /\ taken'[Peer(e)] = taken[Peer(e)]
      BY DEF vars
  <2>1. op[e] # "recv" /\ Rejected(read_buf[e])
        BY DEF ReadInv, Settled
  <2>2. /\ read_buf \in [Peers -> Seq(Byte)] /\ got \in [Peers -> Seq(FrameSet)]
        /\ taken \in [Peers -> Nat]
        BY DEF TypeInv, TypeOK, Typed
  <2>3. ASSUME NEW p \in Peers, Recv(p)
        PROVE  /\ read_buf'[e] = read_buf[e] /\ got'[e] = got[e]
               /\ taken'[Peer(e)] = taken[Peer(e)]
    <3>1. CASE p = e
          BY <2>1, <2>2, <2>3, <3>1
          DEF Recv, LoopHead, Settle, Rejected, stream
    <3>2. CASE p # e
          BY <2>2, <2>3, <3>2 DEF Recv, LoopHead, Settle, stream
    <3> QED BY <3>1, <3>2
  <2>4. ASSUME NEW p \in Peers, NEW n, RecvRead(p, n)
        PROVE  /\ read_buf'[e] = read_buf[e] /\ got'[e] = got[e]
               /\ taken'[Peer(e)] = taken[Peer(e)]
    <3>1. p # e
          BY <2>1, <2>4 DEF RecvRead
    <3>2. Peer(p) # Peer(e)
          BY <3>1, ChannelAssumption DEF Peers, Peer
    <3> QED BY <2>2, <2>4, <3>1, <3>2, PeerType DEF RecvRead, LoopHead, Settle
  <2>5. CASE UNCHANGED << read_buf, got, taken >>
        BY <2>5
  <2>6. ASSUME NEW p \in Peers, Rewrap(p)
        PROVE  /\ read_buf'[e] = read_buf[e] /\ got'[e] = got[e]
               /\ taken'[Peer(e)] = taken[Peer(e)]
    <3>1. p # e
          BY <2>6
    <3> QED BY <2>2, <2>6, <3>1 DEF Rewrap, stream
  <2> QED BY <2>3, <2>4, <2>5, <2>6, ZenonT(40)
          DEF Next, Send, SendRefused, SendForeign, Write, WriteFrom, Push,
              SendDone, SendFails, SendCancelled, EndSend, RecvEof, RecvFails,
              RecvCancelled, EndRecv, Close, Break, stream
<1> QED BY <1>1, TypeInit, TypeStep, ReadInit, ReadStep, PTL
        DEF Spec, RejectionIsFinal
-----------------------------------------------------------------------------
(***************************************************************************)
(* Order and completeness of delivery, and the refinement of FrameTransport *)
(***************************************************************************)
Completed == [frame : FrameSet, end : Nat]

\* Where in a stream the i-th of the frames d begins; for i = Len(d) + 1,
\* where what is not one of them begins.
Start(d, i) == IF i = 1 THEN 0 ELSE d[i - 1].end

\* The frames d lie in the stream w one behind the other, from its beginning.
LaidOut(d, w) ==
    \A i \in 1..Len(d) :
      /\ Encodable(d[i].frame)
      /\ d[i].end = Start(d, i) + Size(d[i].frame)
      /\ d[i].end <= Len(w)
      /\ \A k \in 1..Size(d[i].frame) : w[Start(d, i) + k] = Layout(d[i].frame)[k]
      /\ \A j \in 1..Len(d) : i <= j => d[i].end <= d[j].end

\* The stream w ends with the first n bytes of f, and they begin at from.
EndsWith(w, from, f, n) ==
    /\ Len(w) = from + n
    /\ \A k \in 1..n : w[from + k] = Layout(f)[k]

\* What an untorn stream holds behind its completed frames.
Tail_(e) ==
    ~torn[e] =>
      LET from == Start(done[e], Len(done[e]) + 1)
      IN  /\ op[e] = "write" => /\ Encodable(frame[e])
                                /\ EndsWith(wire[e], from, frame[e], off[e])
          /\ op[e] # "write" => Len(wire[e]) = from

\* A receiver that was given the frames g and read the first t bytes of the
\* stream w, in which the frames d lie, has been given those frames and holds
\* in its buffer b what it read beyond them.
InStep(g, d, w, t, b, tear) ==
    /\ \A i \in 1..Len(g) : i <= Len(d) => g[i] = d[i].frame
    /\ Len(g) > Len(d) => tear
    /\ Len(g) <= Len(d) =>
         /\ Start(d, Len(g) + 1) <= t
         /\ b = SubSeq(w, Start(d, Len(g) + 1) + 1, t)

Received(e) == InStep(got[e], done[Peer(e)], wire[Peer(e)], taken[Peer(e)],
                      read_buf[e], torn[Peer(e)])

\* Behind position a the stream w holds less than a frame.
Partial(w, a) ==
    \/ Len(w) = a
    \/ \E f \in FrameSet, n \in Nat :
         Encodable(f) /\ n < Size(f) /\ EndsWith(w, a, f, n)

OrderInv == \A e \in Peers : /\ LaidOut(done[e], wire[e])
                             /\ Tail_(e)
                             /\ ~lost[e] => Received(e)

-----------------------------------------------------------------------------
(***************************************************************************)
(* Streams                                                                 *)
(***************************************************************************)

\* The beginning of a frame is a position of the stream.
LEMMA StartType ==
    ASSUME NEW d \in Seq(Completed), NEW w \in Seq(Byte), LaidOut(d, w),
           NEW i \in 1..Len(d) + 1
    PROVE  Start(d, i) \in Nat /\ Start(d, i) <= Len(w)
<1>1. Len(d) \in Nat /\ Len(w) \in Nat
      OBVIOUS
<1>2. CASE i = 1
      BY <1>1, <1>2 DEF Start
<1>3. CASE i # 1
  <2>1. i - 1 \in 1..Len(d)
        BY <1>1, <1>3
  <2>2. d[i - 1] \in Completed
        BY <2>1
  <2> QED BY <1>3, <2>1, <2>2 DEF Start, LaidOut, Completed
<1> QED BY <1>2, <1>3

\* A piece of a stream, element by element.
LEMMA PieceType ==
    ASSUME NEW w \in Seq(Byte), NEW a \in Nat, NEW b \in Nat, a <= b, b <= Len(w)
    PROVE  /\ SubSeq(w, a + 1, b) \in Seq(Byte)
           /\ Len(SubSeq(w, a + 1, b)) = b - a
           /\ \A k \in 1..b - a : SubSeq(w, a + 1, b)[k] = w[a + k]
<1>1. \A i \in a + 1..b : w[i] \in Byte
      OBVIOUS
<1>2. /\ SubSeq(w, a + 1, b) \in Seq(Byte)
      /\ Len(SubSeq(w, a + 1, b)) = IF a + 1 <= b THEN b - (a + 1) + 1 ELSE 0
      /\ \A i \in 1..b - (a + 1) + 1 : SubSeq(w, a + 1, b)[i] = w[(a + 1) + i - 1]
      BY <1>1, SubSeqProperties
<1> DEFINE s == SubSeq(w, a + 1, b)
<1> HIDE DEF s
<1>3. s \in Seq(Byte) /\ Len(s) = b - a
      BY <1>2 DEF s
<1>4. ASSUME NEW k \in 1..b - a PROVE s[k] = w[a + k]
  <2>1. k \in 1..b - (a + 1) + 1 /\ (a + 1) + k - 1 = a + k
        OBVIOUS
  <2>2. s[k] = w[(a + 1) + k - 1]
        BY <1>2, <2>1 DEF s
  <2> QED BY <2>1, <2>2
<1> QED BY <1>3, <1>4 DEF s

\* Dropping the first c bytes of a piece leaves the piece that begins later.
LEMMA PieceRest ==
    ASSUME NEW w \in Seq(Byte), NEW a \in Nat, NEW b \in Nat, NEW c \in Nat,
           a + c <= b, b <= Len(w)
    PROVE  LET s == SubSeq(w, a + 1, b)
           IN  SubSeq(s, c + 1, Len(s)) = SubSeq(w, (a + c) + 1, b)
<1> DEFINE s == SubSeq(w, a + 1, b)
           t == SubSeq(s, c + 1, Len(s))
           u == SubSeq(w, (a + c) + 1, b)
<1>1. s \in Seq(Byte) /\ Len(s) = b - a /\ \A k \in 1..b - a : s[k] = w[a + k]
      BY PieceType
<1>2. /\ u \in Seq(Byte) /\ Len(u) = b - (a + c)
      /\ \A k \in 1..b - (a + c) : u[k] = w[(a + c) + k]
      BY PieceType
<1> HIDE DEF s
<1>3. /\ t \in Seq(Byte) /\ Len(t) = Len(s) - c
      /\ \A k \in 1..Len(s) - c : t[k] = s[c + k]
      BY <1>1, PieceType
<1> HIDE DEF t, u
<1>4. Len(t) = Len(u)
      BY <1>1, <1>2, <1>3
<1>5. ASSUME NEW k \in 1..Len(t) PROVE t[k] = u[k]
  <2>1. t[k] = s[c + k] /\ c + k \in 1..b - a /\ k \in 1..b - (a + c)
        BY <1>1, <1>3
  <2>2. s[c + k] = w[a + (c + k)] /\ u[k] = w[(a + c) + k]
        BY <1>1, <1>2, <2>1
  <2>3. a + (c + k) = (a + c) + k
        OBVIOUS
  <2> QED BY <2>1, <2>2, <2>3
<1>6. t = u
      BY <1>2, <1>3, <1>4, <1>5, SeqEqual
<1> QED BY <1>6 DEF s, t, u

\* Frames stay where they are when the stream goes on.
LEMMA Extended ==
    ASSUME NEW d \in Seq(Completed), NEW w \in Seq(Byte), NEW s \in Seq(Byte),
           LaidOut(d, w)
    PROVE  LaidOut(d, w \o s)
<1> DEFINE v == w \o s
<1>1. /\ Len(v) = Len(w) + Len(s) /\ Len(w) \in Nat /\ Len(s) \in Nat
      /\ \A k \in 1..Len(w) : v[k] = w[k]
      BY ConcatIndex
<1> HIDE DEF v
<1> SUFFICES ASSUME NEW i \in 1..Len(d)
             PROVE  /\ Encodable(d[i].frame)
                    /\ d[i].end = Start(d, i) + Size(d[i].frame)
                    /\ d[i].end <= Len(v)
                    /\ \A k \in 1..Size(d[i].frame) :
                         v[Start(d, i) + k] = Layout(d[i].frame)[k]
                    /\ \A j \in 1..Len(d) : i <= j => d[i].end <= d[j].end
    BY DEF LaidOut, v
<1>2. /\ Encodable(d[i].frame)
      /\ d[i].end = Start(d, i) + Size(d[i].frame)
      /\ d[i].end <= Len(w)
      /\ \A k \in 1..Size(d[i].frame) : w[Start(d, i) + k] = Layout(d[i].frame)[k]
      /\ \A j \in 1..Len(d) : i <= j => d[i].end <= d[j].end
      BY DEF LaidOut
<1>3. d[i] \in Completed /\ Start(d, i) \in Nat
      BY StartType
<1>4. d[i].end \in Nat /\ Size(d[i].frame) \in Nat
      BY <1>3 DEF Completed, Size, FrameSet, HEADER_LEN
<1>5. d[i].end <= Len(v)
      BY <1>1, <1>2, <1>4
<1>6. ASSUME NEW k \in 1..Size(d[i].frame)
      PROVE  v[Start(d, i) + k] = Layout(d[i].frame)[k]
  <2>1. Start(d, i) + k \in 1..Len(w)
        BY <1>1, <1>2, <1>3, <1>4
  <2> QED BY <1>1, <1>2, <2>1
<1> QED BY <1>2, <1>5, <1>6

\* A frame whose last byte ends the stream is one more of the frames in it.
LEMMA OneMore ==
    ASSUME NEW d \in Seq(Completed), NEW w \in Seq(Byte), LaidOut(d, w),
           NEW f \in FrameSet, Encodable(f),
           EndsWith(w, Start(d, Len(d) + 1), f, Size(f))
    PROVE  LaidOut(Append(d, [frame |-> f, end |-> Len(w)]), w)
<1> DEFINE r == [frame |-> f, end |-> Len(w)]
           c == Append(d, r)
           n == Len(d)
<1>1. n \in Nat /\ Len(w) \in Nat /\ Size(f) \in Nat
      BY DEF Size, FrameSet, HEADER_LEN
<1>2. r \in Completed /\ r.frame = f /\ r.end = Len(w)
      BY <1>1 DEF Completed
<1> HIDE DEF r
<1>3. /\ c \in Seq(Completed) /\ Len(c) = n + 1 /\ c[n + 1] = r
      /\ \A i \in 1..n : c[i] = d[i]
      BY <1>2, AppendProperties
<1> HIDE DEF c
<1>4. \A i \in 1..n + 1 : Start(c, i) = Start(d, i)
      BY <1>1, <1>3, SMTT(30) DEF Start
<1>5. ASSUME NEW i \in 1..n + 1
      PROVE  /\ Encodable(c[i].frame)
             /\ c[i].end = Start(c, i) + Size(c[i].frame)
             /\ c[i].end <= Len(w)
             /\ \A k \in 1..Size(c[i].frame) : w[Start(c, i) + k] = Layout(c[i].frame)[k]
             /\ \A j \in 1..n + 1 : i <= j => c[i].end <= c[j].end
  <2>1. CASE i \in 1..n
    <3>1. c[i] = d[i] /\ Start(c, i) = Start(d, i)
          BY <1>3, <1>4, <2>1
    <3>2. /\ Encodable(d[i].frame)
          /\ d[i].end = Start(d, i) + Size(d[i].frame)
          /\ d[i].end <= Len(w)
          /\ \A k \in 1..Size(d[i].frame) : w[Start(d, i) + k] = Layout(d[i].frame)[k]
          /\ \A j \in 1..Len(d) : i <= j => d[i].end <= d[j].end
          BY <2>1 DEF LaidOut
    <3>3. ASSUME NEW j \in 1..n + 1, i <= j PROVE d[i].end <= c[j].end
      <4>1. CASE j \in 1..n
            BY <1>3, <3>2, <3>3, <4>1
      <4>2. CASE j = n + 1
            BY <1>2, <1>3, <3>2, <4>2
      <4> QED BY <1>1, <4>1, <4>2
    <3> QED BY <3>1, <3>2, <3>3
  <2>2. CASE i = n + 1
    <3>1. c[i] = r /\ Start(c, i) = Start(d, n + 1)
          BY <1>3, <1>4, <2>2
    <3>2. ASSUME NEW j \in 1..n + 1, i <= j PROVE c[i].end <= c[j].end
      <4>1. j = i
            BY <1>1, <2>2, <3>2
      <4> QED BY <1>1, <1>2, <3>1, <4>1
    <3> QED BY <1>1, <1>2, <3>1, <3>2 DEF EndsWith
  <2> QED BY <1>1, <2>1, <2>2
<1> QED BY <1>3, <1>5 DEF LaidOut, c, r

\* A buffer read from the beginning of a completed frame on decodes to that
\* frame as soon as all of it has been read, and asks for more until then.
LEMMA NextDecodes ==
    ASSUME NEW d \in Seq(Completed), NEW w \in Seq(Byte), LaidOut(d, w),
           NEW i \in 1..Len(d), NEW t \in Nat, Start(d, i) <= t, t <= Len(w)
    PROVE  LET b == SubSeq(w, Start(d, i) + 1, t)
           IN  /\ t < d[i].end => DecodePrefix(b) = None
               /\ t >= d[i].end =>
                    DecodePrefix(b) = Some(d[i].frame, Size(d[i].frame))
<1> DEFINE a == Start(d, i)
           b == SubSeq(w, a + 1, t)
           f == d[i].frame
<1>1. a \in Nat /\ d[i] \in Completed
      BY StartType
<1>2. f \in FrameSet /\ d[i].end \in Nat /\ Size(f) \in Nat
      BY <1>1 DEF Completed, Size, FrameSet, HEADER_LEN
<1>3. /\ Encodable(f) /\ d[i].end = a + Size(f)
      /\ \A k \in 1..Size(f) : w[a + k] = Layout(f)[k]
      BY DEF LaidOut
<1>4. /\ b \in Seq(Byte) /\ Len(b) = t - a
      /\ \A k \in 1..t - a : b[k] = w[a + k]
      BY <1>1, PieceType
<1> HIDE DEF b, f, a
<1>5. Agree(b, f)
  <2> SUFFICES ASSUME NEW k \in 1..Len(b), k <= Size(f) PROVE b[k] = Layout(f)[k]
      BY DEF Agree
  <2>1. k \in 1..Size(f) /\ k \in 1..t - a
        BY <1>1, <1>2, <1>4
  <2> QED BY <1>3, <1>4, <2>1
<1>6. t < d[i].end => DecodePrefix(b) = None
  <2> SUFFICES ASSUME t < d[i].end PROVE DecodePrefix(b) = None
      OBVIOUS
  <2>1. Len(b) < Size(f)
        BY <1>1, <1>2, <1>3, <1>4
  <2> QED BY <1>2, <1>3, <1>4, <1>5, <2>1, DecodePart
<1>7. t >= d[i].end => DecodePrefix(b) = Some(f, Size(f))
  <2> SUFFICES ASSUME t >= d[i].end PROVE DecodePrefix(b) = Some(f, Size(f))
      OBVIOUS
  <2>1. Len(b) >= Size(f)
        BY <1>1, <1>2, <1>3, <1>4
  <2> QED BY <1>2, <1>3, <1>4, <1>5, <2>1, DecodeWhole
<1> QED BY <1>6, <1>7 DEF a, b, f

\* Behind the last completed frame of an untorn stream there is less than a
\* frame: a buffer read from there on decodes to nothing.
LEMMA TailWaits ==
    ASSUME NEW w \in Seq(Byte), NEW a \in Nat, NEW t \in Nat, a <= t, t <= Len(w),
           Partial(w, a)
    PROVE  DecodePrefix(SubSeq(w, a + 1, t)) = None
<1> DEFINE b == SubSeq(w, a + 1, t)
<1>1. /\ b \in Seq(Byte) /\ Len(b) = t - a
      /\ \A k \in 1..t - a : b[k] = w[a + k]
      BY PieceType
<1> HIDE DEF b
<1>2. CASE Len(w) = a
  <2>1. Len(b) < HEADER_LEN
        BY <1>1, <1>2 DEF HEADER_LEN
  <2> QED BY <2>1 DEF DecodePrefix, b
<1>3. ASSUME NEW f \in FrameSet, NEW n \in Nat,
             Encodable(f) /\ n < Size(f) /\ EndsWith(w, a, f, n)
      PROVE  DecodePrefix(b) = None
  <2>1. Size(f) \in Nat
        BY DEF Size, FrameSet, HEADER_LEN
  <2>2. Len(b) < Size(f) /\ Len(b) <= n
        BY <1>1, <1>3, <2>1 DEF EndsWith
  <2>3. Agree(b, f)
    <3> SUFFICES ASSUME NEW k \in 1..Len(b) PROVE b[k] = Layout(f)[k]
        BY DEF Agree
    <3>1. k \in 1..n /\ k \in 1..t - a
          BY <1>1, <2>2
    <3> QED BY <1>1, <1>3, <3>1 DEF EndsWith
  <2> QED BY <1>1, <1>3, <2>2, <2>3, DecodePart
<1> QED BY <1>2, <1>3 DEF b, Partial

\* Frames are no smaller than their header.
LEMMA SizeType ==
    ASSUME NEW f \in FrameSet
    PROVE  Size(f) \in Nat /\ Size(f) >= 8
BY DEF Size, FrameSet, HEADER_LEN

-----------------------------------------------------------------------------
(***************************************************************************)
(* What a step does to a receiver in step with its stream                  *)
(***************************************************************************)

\* The stream going on, by bytes alone or by the end of one more frame.
LEMMA InStepWritten ==
    ASSUME NEW g \in Seq(FrameSet), NEW d \in Seq(Completed), NEW w \in Seq(Byte),
           NEW t \in Nat, t <= Len(w), NEW b, NEW tear, NEW s \in Seq(Byte),
           NEW r \in Completed, LaidOut(d, w), InStep(g, d, w, t, b, tear)
    PROVE  /\ InStep(g, d, w \o s, t, b, tear)
           /\ ~tear => InStep(g, Append(d, r), w \o s, t, b, tear)
<1> DEFINE v == w \o s
           c == Append(d, r)
<1>1. Len(g) \in Nat /\ Len(d) \in Nat
      OBVIOUS
<1>2. /\ v \in Seq(Byte) /\ Len(v) = Len(w) + Len(s) /\ Len(w) \in Nat /\ Len(s) \in Nat
      /\ \A k \in 1..Len(w) : v[k] = w[k]
      BY ConcatIndex
<1>3. /\ c \in Seq(Completed) /\ Len(c) = Len(d) + 1
      /\ \A i \in 1..Len(d) : c[i] = d[i]
      BY AppendProperties
<1> HIDE DEF v, c
<1>4. ASSUME NEW a \in Nat, a <= t
      PROVE  SubSeq(v, a + 1, t) = SubSeq(w, a + 1, t)
  <2> DEFINE x == SubSeq(v, a + 1, t)
             y == SubSeq(w, a + 1, t)
  <2>1. t <= Len(v)
        BY <1>2
  <2>2. x \in Seq(Byte) /\ Len(x) = t - a /\ \A k \in 1..t - a : x[k] = v[a + k]
        BY <1>2, <1>4, <2>1, PieceType
  <2>3. y \in Seq(Byte) /\ Len(y) = t - a /\ \A k \in 1..t - a : y[k] = w[a + k]
        BY <1>4, PieceType
  <2> HIDE DEF x, y
  <2>4. ASSUME NEW k \in 1..Len(x) PROVE x[k] = y[k]
    <3>1. k \in 1..t - a /\ a + k \in 1..Len(w)
          BY <1>2, <1>4, <2>2
    <3> QED BY <1>2, <2>2, <2>3, <3>1
  <2>5. x = y
        BY <2>2, <2>3, <2>4, SeqEqual
  <2> QED BY <2>5 DEF x, y
<1>5. Len(g) <= Len(d) =>
        /\ Start(d, Len(g) + 1) \in Nat
        /\ Start(c, Len(g) + 1) = Start(d, Len(g) + 1)
  <2> SUFFICES ASSUME Len(g) <= Len(d)
               PROVE  /\ Start(d, Len(g) + 1) \in Nat
                      /\ Start(c, Len(g) + 1) = Start(d, Len(g) + 1)
      OBVIOUS
  <2>1. Len(g) + 1 \in 1..Len(d) + 1
        BY <1>1
  <2>2. Start(d, Len(g) + 1) \in Nat
        BY <2>1, StartType
  <2>3. Start(c, Len(g) + 1) = Start(d, Len(g) + 1)
        BY <1>1, <1>3 DEF Start
  <2> QED BY <2>2, <2>3
<1>6. InStep(g, d, v, t, b, tear)
      BY <1>4, <1>5 DEF InStep
<1>7. ~tear => InStep(g, c, v, t, b, tear)
  <2> SUFFICES ASSUME ~tear PROVE InStep(g, c, v, t, b, tear)
      OBVIOUS
  <2>1. Len(g) <= Len(d)
        BY <1>1 DEF InStep
  <2>2. ASSUME NEW i \in 1..Len(g) PROVE g[i] = c[i].frame
    <3>1. i \in 1..Len(d) /\ i <= Len(d)
          BY <1>1, <2>1
    <3>2. g[i] = d[i].frame
          BY <3>1 DEF InStep
    <3> QED BY <1>3, <3>1, <3>2
  <2>3. Len(g) <= Len(c)
        BY <1>1, <1>3, <2>1
  <2>4. ~(Len(g) > Len(c))
        BY <1>1, <1>3, <2>1
  <2>5. InStep(g, d, v, t, b, tear) /\ Start(c, Len(g) + 1) = Start(d, Len(g) + 1)
        BY <1>5, <1>6, <2>1
  <2> QED BY <2>1, <2>2, <2>4, <2>5 DEF InStep
<1> QED BY <1>6, <1>7 DEF v, c

\* One more read.
LEMMA InStepRead ==
    ASSUME NEW g \in Seq(FrameSet), NEW d \in Seq(Completed), NEW w \in Seq(Byte),
           NEW t \in Nat, NEW n \in Nat, t + n <= Len(w), NEW b, NEW tear,
           LaidOut(d, w), InStep(g, d, w, t, b, tear)
    PROVE  InStep(g, d, w, t + n, b \o SubSeq(w, t + 1, t + n), tear)
<1> DEFINE a == Start(d, Len(g) + 1)
<1>1. Len(g) \in Nat /\ Len(d) \in Nat /\ Len(w) \in Nat
      OBVIOUS
<1>2. CASE Len(g) <= Len(d)
  <2>1. a \in Nat /\ a <= t
    <3>1. Len(g) + 1 \in 1..Len(d) + 1
          BY <1>1, <1>2
    <3> QED BY <1>2, <3>1, StartType DEF InStep
  <2>2. b = SubSeq(w, a + 1, t)
        BY <1>2 DEF InStep
  <2> HIDE DEF a
  <2>3. /\ a + 1 \in 1..Len(w) + 1
        /\ t \in (a + 1) - 1..Len(w)
        /\ t + n \in t..Len(w)
        BY <1>1, <2>1
  <2>4. SubSeq(w, a + 1, t) \o SubSeq(w, t + 1, t + n) = SubSeq(w, a + 1, t + n)
        BY <2>3, ConcatAdjacentSubSeq
  <2>5. a <= t + n
        BY <2>1
  <2> QED BY <1>1, <1>2, <2>2, <2>4, <2>5 DEF InStep, a
<1>3. CASE ~(Len(g) <= Len(d))
      BY <1>3 DEF InStep
<1> QED BY <1>2, <1>3

\* The head of recv's loop: a frame returned is the next of the completed
\* ones, as long as there is one; it leaves the buffer, and nothing else does.
LEMMA InStepDecoded ==
    ASSUME NEW g \in Seq(FrameSet), NEW d \in Seq(Completed), NEW w \in Seq(Byte),
           NEW t \in Nat, t <= Len(w), NEW b, NEW tear \in BOOLEAN,
           LaidOut(d, w), ~tear => Partial(w, Start(d, Len(d) + 1)),
           InStep(g, d, w, t, b, tear)
    PROVE  InStep(IF DecodePrefix(b).tag = "Some"
                  THEN Append(g, DecodePrefix(b).frame) ELSE g,
                  d, w, t, Rest(b), tear)
<1> DEFINE a == Start(d, Len(g) + 1)
           r == DecodePrefix(b)
           h == Append(g, r.frame)
<1>1. Len(g) \in Nat /\ Len(d) \in Nat /\ Len(w) \in Nat
      OBVIOUS
<1>2. Len(g) <= Len(d) => a \in Nat /\ a <= t /\ b = SubSeq(w, a + 1, t)
  <2> SUFFICES ASSUME Len(g) <= Len(d)
               PROVE  a \in Nat /\ a <= t /\ b = SubSeq(w, a + 1, t)
      OBVIOUS
  <2>1. Len(g) + 1 \in 1..Len(d) + 1
        BY <1>1
  <2> QED BY <2>1, StartType DEF InStep
<1>3. CASE r.tag # "Some"
  <2>1. Rest(b) = b
        BY <1>3 DEF Rest
  <2> QED BY <1>3, <2>1
<1>4. CASE r.tag = "Some" /\ Len(g) < Len(d)
  <2> DEFINE i == Len(g) + 1
             f == d[i].frame
  <2>1. i \in 1..Len(d) /\ Len(g) <= Len(d)
        BY <1>1, <1>4
  <2>2. d[i] \in Completed /\ f \in FrameSet
    <3> HIDE DEF i
    <3>1. d[i] \in Completed
          BY <2>1
    <3> QED BY <3>1 DEF Completed
  <2>3. Size(f) \in Nat /\ Size(f) >= 8 /\ d[i].end \in Nat
        BY <2>2, SizeType DEF Completed
  <2>4. /\ t < d[i].end => r = None
        /\ t >= d[i].end => r = Some(f, Size(f))
        BY <1>2, <2>1, NextDecodes, ZenonT(40)
  <2>5. ~(t < d[i].end)
        BY <1>4, <2>4 DEF None
  <2>6. r = Some(f, Size(f)) /\ r.frame = f /\ r.consumed = Size(f)
        BY <2>3, <2>4, <2>5 DEF Some
  <2>7. d[i].end = a + Size(f) /\ a + Size(f) <= t
        BY <1>2, <2>1, <2>3, <2>5 DEF LaidOut
  <2>8. Start(d, i + 1) = a + Size(f)
        BY <1>1, <2>1, <2>7 DEF Start
  <2>9. Rest(b) = SubSeq(w, (a + Size(f)) + 1, t)
    <3>1. Rest(b) = SubSeq(b, Size(f) + 1, Len(b))
          BY <1>4, <2>6 DEF Rest
    <3>2. b = SubSeq(w, a + 1, t) /\ a \in Nat
          BY <1>2, <2>1
    <3> DEFINE z == Size(f)
    <3>3. z \in Nat /\ a + z <= t
          BY <2>3, <2>7
    <3> HIDE DEF a, z
    <3>4. SubSeq(SubSeq(w, a + 1, t), z + 1, Len(SubSeq(w, a + 1, t)))
            = SubSeq(w, (a + z) + 1, t)
          BY <3>2, <3>3, PieceRest, Zenon
    <3> QED BY <3>1, <3>2, <3>4 DEF z
  <2>10. Len(h) = i /\ h[i] = f /\ \A j \in 1..Len(g) : h[j] = g[j]
         BY <2>2, <2>6, AppendProperties
  <2>11. \A j \in 1..Len(h) : j <= Len(d) => h[j] = d[j].frame
    <3> SUFFICES ASSUME NEW j \in 1..i PROVE h[j] = d[j].frame
        BY <2>10
    <3> HIDE DEF h
    <3>1. CASE j = i
          BY <2>10, <3>1
    <3>2. CASE j # i
      <4>1. j \in 1..Len(g) /\ j <= Len(d)
            BY <1>1, <2>1, <3>2
      <4> QED BY <2>10, <4>1 DEF InStep
    <3> QED BY <3>1, <3>2
  <2> HIDE DEF h, a, r
  <2>12. InStep(h, d, w, t, Rest(b), tear)
    <3>1. ~(Len(h) > Len(d))
          BY <1>1, <2>1, <2>10
    <3>2. Start(d, Len(h) + 1) = a + Size(f)
          BY <2>8, <2>10
    <3> HIDE DEF i, f
    <3> QED BY <2>7, <2>9, <2>11, <3>1, <3>2 DEF InStep
  <2> QED BY <1>4, <2>12 DEF h, r
<1>5. CASE r.tag = "Some" /\ ~(Len(g) < Len(d))
  <2>1. tear
    <3>1. CASE Len(g) > Len(d)
          BY <3>1 DEF InStep
    <3>2. CASE Len(g) = Len(d)
      <4>1. a \in Nat /\ a <= t /\ b = SubSeq(w, a + 1, t)
            BY <1>1, <1>2, <3>2
      <4>2. ~tear => DecodePrefix(b) = None
        <5>1. ~tear => Partial(w, a)
              BY <3>2
        <5> HIDE DEF a
        <5> QED BY <4>1, <5>1, TailWaits
      <4> QED BY <1>5, <4>2 DEF None
    <3> QED BY <1>1, <1>5, <3>1, <3>2
  <2>2. Len(h) = Len(g) + 1 /\ \A j \in 1..Len(g) : h[j] = g[j]
    <3> DEFINE x == r.frame
    <3> HIDE DEF x
    <3>1. Len(Append(g, x)) = Len(g) + 1 /\ \A j \in 1..Len(g) : Append(g, x)[j] = g[j]
          OBVIOUS
    <3> QED BY <3>1 DEF x
  <2> HIDE DEF h, r
  <2>3. \A j \in 1..Len(h) : j <= Len(d) => h[j] = d[j].frame
    <3> SUFFICES ASSUME NEW j \in 1..Len(h), j <= Len(d) PROVE h[j] = d[j].frame
        OBVIOUS
    <3>1. j \in 1..Len(g)
          BY <1>1, <1>5, <2>2
    <3> QED BY <2>2, <3>1 DEF InStep
  <2>4. ~(Len(h) <= Len(d))
        BY <1>1, <1>5, <2>2
  <2>5. InStep(h, d, w, t, Rest(b), tear)
        BY <2>1, <2>3, <2>4 DEF InStep
  <2> QED BY <1>5, <2>5 DEF h, r
<1> QED BY <1>3, <1>4, <1>5

-----------------------------------------------------------------------------
(***************************************************************************)
(* The invariant                                                           *)
(***************************************************************************)

\* The types the invariant is about, endpoint by endpoint.
LEMMA OrderTypes ==
    ASSUME TypeInv, NEW e \in Peers
    PROVE  /\ got[e] \in Seq(FrameSet) /\ done[e] \in Seq(Completed)
           /\ wire[e] \in Seq(Byte) /\ taken[e] \in Nat /\ torn[e] \in BOOLEAN
           /\ taken[e] <= Len(wire[e]) /\ read_buf[e] \in Seq(Byte)
           /\ frame[e] \in FrameSet /\ off[e] \in Nat
<1>1. taken[e] \in Nat /\ pushed[e] \in Nat /\ Len(wire[e]) \in Nat
      /\ taken[e] <= pushed[e] /\ pushed[e] <= Len(wire[e])
      BY DEF TypeInv, TypeOK, Typed, Flow
<1>2. taken[e] <= Len(wire[e])
      BY <1>1
<1> QED BY <1>2 DEF TypeInv, TypeOK, Typed, Completed

\* What lies behind the completed frames of an untorn stream is less than one
\* frame.
LEMMA TailPartial ==
    ASSUME TypeInv, NEW e \in Peers, Tail_(e), ~torn[e]
    PROVE  Partial(wire[e], Start(done[e], Len(done[e]) + 1))
<1> DEFINE a == Start(done[e], Len(done[e]) + 1)
<1>1. CASE op[e] = "write"
  <2>1. Encodable(frame[e]) /\ EndsWith(wire[e], a, frame[e], off[e])
        BY <1>1 DEF Tail_
  <2>2. off[e] < Size(frame[e]) /\ frame[e] \in FrameSet /\ off[e] \in Nat
        BY <1>1, OrderTypes DEF TypeInv, TypeOK, Progress
  <2> HIDE DEF a
  <2>3. Partial(wire[e], a)
        BY <2>1, <2>2 DEF Partial
  <2> QED BY <2>3 DEF a
<1>2. CASE op[e] # "write"
      BY <1>2 DEF Tail_, Partial
<1> QED BY <1>1, <1>2

\* The invariant holds initially.
LEMMA OrderInit == Init => OrderInv
<1> SUFFICES ASSUME Init, NEW e \in Peers
             PROVE  LaidOut(done[e], wire[e]) /\ Tail_(e) /\ Received(e)
    BY DEF OrderInv
<1>1. /\ Peer(e) \in Peers /\ done[e] = << >> /\ wire[e] = << >> /\ op[e] = "idle"
      /\ got[e] = << >> /\ read_buf[e] = << >>
      /\ done[Peer(e)] = << >> /\ wire[Peer(e)] = << >> /\ taken[Peer(e)] = 0
      BY PeerType DEF Init
<1>2. Len(<< >>) = 0 /\ Start(<< >>, 0 + 1) = 0 /\ SubSeq(<< >>, 0 + 1, 0) = << >>
      BY DEF Start
<1>3. LaidOut(done[e], wire[e])
      BY <1>1, <1>2 DEF LaidOut
<1>4. Tail_(e)
      BY <1>1, <1>2 DEF Tail_
<1>5. Received(e)
      BY <1>1, <1>2 DEF Received, InStep
<1> QED BY <1>3, <1>4, <1>5

\* A step that neither writes nor reads.
LEMMA OrderElsewhere ==
    ASSUME OrderInv, UNCHANGED << wire, taken, done, got, read_buf, lost >>,
           \A p \in Peers : torn[p] => torn'[p],
           \A p \in Peers : Tail_(p)'
    PROVE  OrderInv'
<1> SUFFICES ASSUME NEW e \in Peers
             PROVE  /\ LaidOut(done[e], wire[e])'
                    /\ ~lost'[e] => Received(e)'
    BY DEF OrderInv
<1>1. LaidOut(done[e], wire[e])'
  <2>1. LaidOut(done[e], wire[e])
        BY DEF OrderInv
  <2> QED BY <2>1 DEF LaidOut, Start
<1>2. ASSUME ~lost'[e] PROVE Received(e)'
  <2>1. Received(e) /\ Peer(e) \in Peers
        BY <1>2, PeerType DEF OrderInv
  <2>2. torn[Peer(e)] => torn'[Peer(e)]
        BY <2>1
  <2> QED BY <2>1, <2>2 DEF Received, InStep, Start
<1> QED BY <1>1, <1>2

\* A step that, besides, leaves every operation where it is or not in write().
LEMMA OrderStutter ==
    ASSUME OrderInv,
           UNCHANGED << wire, taken, done, got, read_buf, lost, torn, frame, off >>,
           \A p \in Peers : op'[p] = "write" <=> op[p] = "write"
    PROVE  OrderInv'
<1>1. ASSUME NEW p \in Peers PROVE Tail_(p)'
      BY DEF OrderInv, Tail_, EndsWith, Start
<1> QED BY <1>1, OrderElsewhere

\* A frame encode() accepts is begun at the end of the stream.
LEMMA SendOrder ==
    ASSUME TypeInv, OrderInv, NEW e \in Peers, NEW f \in Frames, Send(e, f)
    PROVE  OrderInv'
<1>1. Encodable(f)
      BY EncodeAccepts, ChannelAssumption DEF Send
<1>2. op[e] = "idle"
      BY DEF Send, Ready
<1>3. /\ op' = [op EXCEPT ![e] = "write"] /\ frame' = [frame EXCEPT ![e] = f]
      /\ off' = [off EXCEPT ![e] = 0]
      /\ UNCHANGED << wire, taken, done, got, read_buf, lost, torn >>
      BY DEF Send, stream
<1>4. ASSUME NEW p \in Peers PROVE Tail_(p)'
  <2>1. CASE p = e
    <3>1. op'[e] = "write" /\ frame'[e] = f /\ off'[e] = 0
          BY <1>3 DEF TypeInv, TypeOK, Typed
    <3>2. SUFFICES ASSUME ~torn'[e]
                   PROVE  EndsWith(wire'[e], Start(done'[e], Len(done'[e]) + 1), f, 0)
          BY <1>1, <2>1, <3>1 DEF Tail_
    <3>3. Len(wire[e]) = Start(done[e], Len(done[e]) + 1) /\ Len(wire[e]) \in Nat
          BY <1>2, <1>3, <3>2, OrderTypes DEF OrderInv, Tail_
    <3> QED BY <1>3, <3>3 DEF EndsWith
  <2>2. CASE p # e
    <3>1. op'[p] = op[p] /\ frame'[p] = frame[p] /\ off'[p] = off[p]
          BY <1>3, <2>2 DEF TypeInv, TypeOK, Typed
    <3> QED BY <1>3, <3>1 DEF OrderInv, Tail_, EndsWith, Start
  <2> QED BY <2>1, <2>2
<1> QED BY <1>3, <1>4, OrderElsewhere

\* A step that tears the stream of e, or ends a send() of which no byte or
\* every byte was written.
LEMMA TearOrder ==
    ASSUME TypeInv, OrderInv, NEW e \in Peers,
           UNCHANGED << wire, taken, done, got, read_buf, lost >>,
           torn'[e] \/ (/\ op'[e] # "write" /\ ~torn[e]
                        /\ op[e] = "write" => off[e] = 0),
           torn[e] => torn'[e],
           \A p \in Peers : p # e => /\ op'[p] = op[p] /\ frame'[p] = frame[p]
                                     /\ off'[p] = off[p] /\ torn'[p] = torn[p]
    PROVE  OrderInv'
<1>1. ASSUME NEW p \in Peers PROVE Tail_(p)'
  <2>1. CASE p = e
    <3> DEFINE a == Start(done[e], Len(done[e]) + 1)
    <3>1. SUFFICES ASSUME ~torn'[e] PROVE op'[e] # "write" /\ Len(wire[e]) = a
          BY <2>1 DEF Tail_, Start
    <3>2. CASE op[e] = "write"
      <4>1. EndsWith(wire[e], a, frame[e], 0)
            BY <3>1, <3>2 DEF OrderInv, Tail_
      <4>2. Len(done[e]) + 1 \in 1..Len(done[e]) + 1
            BY OrderTypes
      <4>3. a \in Nat
            BY <4>2, OrderTypes, StartType DEF OrderInv
      <4> QED BY <3>1, <4>1, <4>3 DEF EndsWith
    <3>3. CASE op[e] # "write"
          BY <3>1, <3>3 DEF OrderInv, Tail_
    <3> QED BY <3>2, <3>3
  <2>2. CASE p # e
        BY <2>2 DEF OrderInv, Tail_, EndsWith, Start
  <2> QED BY <2>1, <2>2
<1> QED BY <1>1, OrderElsewhere

\* The end of a send(), by whatever cause.
LEMMA EndSendOrder ==
    ASSUME TypeInv, OrderInv, NEW e \in Peers, NEW res, EndSend(e, res)
    PROVE  OrderInv'
<1>1. op'[e] = "idle"
      BY DEF EndSend, TypeInv, TypeOK, Typed
<1>2. torn'[e] = (torn[e] \/ (op[e] = "write" /\ off[e] > 0))
      BY DEF EndSend, TypeInv, TypeOK, Typed
<1>3. off[e] \in Nat
      BY OrderTypes
<1>4. off[e] > 0 \/ off[e] = 0
      BY <1>3
<1>5. torn[e] \in BOOLEAN /\ torn'[e] \in BOOLEAN
      BY <1>2, OrderTypes
<1>6. torn'[e] \/ (op'[e] # "write" /\ ~torn[e] /\ (op[e] = "write" => off[e] = 0))
      BY <1>1, <1>2, <1>4, Zenon
<1>7. \A p \in Peers : p # e => /\ op'[p] = op[p] /\ frame'[p] = frame[p]
                                /\ off'[p] = off[p] /\ torn'[p] = torn[p]
      BY DEF EndSend, TypeInv, TypeOK, Typed
<1>8. UNCHANGED << wire, taken, done, got, read_buf, lost >>
      BY DEF EndSend, stream
<1> QED BY <1>2, <1>6, <1>7, <1>8, TearOrder

\* A frame of another build tears the stream.
LEMMA ForeignOrder ==
    ASSUME TypeInv, OrderInv, NEW e \in Peers, NEW f, SendForeign(e, f)
    PROVE  OrderInv'
<1>1. torn'[e]
      BY DEF SendForeign, TypeInv, TypeOK, Typed
<1>2. \A p \in Peers : p # e => /\ op'[p] = op[p] /\ frame'[p] = frame[p]
                                /\ off'[p] = off[p] /\ torn'[p] = torn[p]
      BY DEF SendForeign, TypeInv, TypeOK, Typed
<1>3. UNCHANGED << wire, taken, done, got, read_buf, lost >>
      BY DEF SendForeign, stream
<1> QED BY <1>1, <1>2, <1>3, TearOrder

\* What write_all() hands over is the next part of the frame.
LEMMA WritePortion ==
    ASSUME TypeInv, NEW e \in Peers, NEW n, Write(e, n)
    PROVE  LET s == SubSeq(Layout(frame[e]), off[e] + 1, off[e] + n)
           IN  /\ n \in Nat /\ off[e] + n <= Size(frame[e])
               /\ s \in Seq(Byte) /\ Len(s) = n
               /\ \A k \in 1..n : s[k] = Layout(frame[e])[off[e] + k]
<1> DEFINE f    == frame[e]
           a    == off[e]
           left == Size(f) - a
           room == StreamBuffer - (Len(wire[e]) - pushed[e])
           m    == IF left < room THEN left ELSE room
           l    == Layout(f)
<1>1. f \in FrameSet /\ Fits(f) /\ a \in Nat /\ Len(wire[e]) \in Nat /\ pushed[e] \in Nat
      BY DEF TypeInv, TypeOK, Typed, FramesFit
<1>2. l \in Seq(Byte) /\ Len(l) = Size(f) /\ Size(f) \in Nat
      BY <1>1, LayoutType
<1>3. m \in Int /\ m <= left
      BY <1>1, <1>2, ChannelAssumption
<1>4. n \in Sizes(m)
      BY DEF Write, WriteFrom
<1> HIDE DEF m, l, f, a
<1>5. n \in Nat /\ n <= m
      BY <1>3, <1>4, SizesType
<1>6. a + n <= Size(f) /\ a + n \in Nat
      BY <1>1, <1>2, <1>3, <1>5
<1>7. /\ SubSeq(l, a + 1, a + n) \in Seq(Byte)
      /\ Len(SubSeq(l, a + 1, a + n)) = (a + n) - a
      /\ \A k \in 1..(a + n) - a : SubSeq(l, a + 1, a + n)[k] = l[a + k]
  <2> DEFINE c == a + n
  <2>1. a <= c /\ c <= Len(l) /\ c \in Nat
        BY <1>1, <1>2, <1>5, <1>6
  <2> HIDE DEF c
  <2>2. /\ SubSeq(l, a + 1, c) \in Seq(Byte) /\ Len(SubSeq(l, a + 1, c)) = c - a
        /\ \A k \in 1..c - a : SubSeq(l, a + 1, c)[k] = l[a + k]
        BY <1>1, <1>2, <2>1, PieceType
  <2> QED BY <2>2 DEF c
<1>8. (a + n) - a = n
      BY <1>1, <1>5
<1> QED BY <1>5, <1>6, <1>7, <1>8 DEF f, a, l

\* A stream that ends with a part of a frame, and the next part of it.
LEMMA EndsWithMore ==
    ASSUME NEW w \in Seq(Byte), NEW from \in Nat, NEW f, NEW a \in Nat, NEW n \in Nat,
           EndsWith(w, from, f, a), NEW s \in Seq(Byte), Len(s) = n,
           \A k \in 1..n : s[k] = Layout(f)[a + k]
    PROVE  EndsWith(w \o s, from, f, a + n)
<1> DEFINE v == w \o s
           l == Layout(f)
<1>1. Len(w) = from + a /\ \A k \in 1..a : w[from + k] = l[k]
      BY DEF EndsWith
<1>2. from + a \in Nat
      OBVIOUS
<1>3. /\ Len(v) = (from + a) + Len(s)
      /\ \A k \in 1..from + a : v[k] = w[k]
      /\ \A k \in 1..Len(s) : v[(from + a) + k] = s[k]
      BY <1>1, <1>2, ConcatIndex, ZenonT(40)
<1> HIDE DEF v, l
<1>4. ASSUME NEW k \in 1..a + n PROVE v[from + k] = l[k]
  <2>1. CASE k <= a
    <3>1. k \in 1..a /\ from + k \in 1..from + a
          BY <2>1
    <3> QED BY <1>1, <1>3, <3>1
  <2>2. CASE k > a
    <3>1. k - a \in 1..n /\ (from + a) + (k - a) = from + k /\ a + (k - a) = k
          BY <2>2
    <3>2. v[(from + a) + (k - a)] = s[k - a]
          BY <1>3, <3>1
    <3>3. s[k - a] = l[a + (k - a)]
          BY <3>1 DEF l
    <3> QED BY <3>1, <3>2, <3>3
  <2> QED BY <2>1, <2>2
<1>5. Len(v) = from + (a + n)
      BY <1>3
<1> QED BY <1>4, <1>5 DEF EndsWith, v, l

\* Peers are each other's peer, and no one else's.
LEMMA PeerOnce ==
    ASSUME NEW e \in Peers, NEW p \in Peers, p # e
    PROVE  Peer(p) # Peer(e) /\ Peer(p) = e
BY ChannelAssumption DEF Peers, Peer

\* write_all() keeps the order: what it has written whole is one frame more.
LEMMA WriteOrder ==
    ASSUME TypeInv, OrderInv, NEW e \in Peers, NEW n, Write(e, n)
    PROVE  OrderInv'
<1> DEFINE w    == wire[e]
           d    == done[e]
           f    == frame[e]
           a    == off[e]
           from == Start(d, Len(d) + 1)
           s    == SubSeq(Layout(f), a + 1, a + n)
           last == n = Size(f) - a
           r    == [frame |-> f, end |-> Len(w) + n]
<1>1. /\ n \in Nat /\ a + n <= Size(f) /\ s \in Seq(Byte) /\ Len(s) = n
      /\ \A k \in 1..n : s[k] = Layout(f)[a + k]
      BY WritePortion
<1>2. /\ w \in Seq(Byte) /\ d \in Seq(Completed) /\ f \in FrameSet /\ a \in Nat
      /\ torn[e] \in BOOLEAN /\ taken[e] \in Nat /\ taken[e] <= Len(w)
      /\ Size(f) \in Nat
      BY OrderTypes, SizeType
<1>3. /\ op[e] = "write"
      /\ wire' = [wire EXCEPT ![e] = @ \o s]
      /\ off' = [off EXCEPT ![e] = @ + n]
      /\ op' = [op EXCEPT ![e] = IF last THEN "flush" ELSE "write"]
      /\ done' = [done EXCEPT ![e] = IF last /\ ~torn[e] THEN Append(@, r) ELSE @]
      /\ UNCHANGED << frame, read_buf, taken, torn, got, lost >>
      BY DEF Write, WriteFrom
<1>4. LaidOut(d, w) /\ Tail_(e)
      BY DEF OrderInv
<1> HIDE DEF s, r, w, d, f, a
<1>5. Len(w \o s) = Len(w) + n /\ w \o s \in Seq(Byte) /\ Len(w) \in Nat
  <2>1. Len(w) \in Nat
        BY <1>2
  <2> QED BY <1>1, <1>2, <2>1, ConcatIndex
<1>6. r \in Completed /\ r = [frame |-> f, end |-> Len(w \o s)]
      BY <1>1, <1>2, <1>5 DEF r, Completed
<1>7. from \in Nat
  <2>1. Len(d) + 1 \in 1..Len(d) + 1
        BY <1>2
  <2> QED BY <1>2, <1>4, <2>1, StartType
<1>8. /\ wire'[e] = w \o s /\ off'[e] = a + n /\ frame'[e] = f /\ torn'[e] = torn[e]
      /\ op'[e] = IF last THEN "flush" ELSE "write"
      /\ done'[e] = IF last /\ ~torn[e] THEN Append(d, r) ELSE d
      BY <1>3 DEF TypeInv, TypeOK, Typed, w, d, f, a
<1>9. \A p \in Peers : p # e =>
        /\ wire'[p] = wire[p] /\ off'[p] = off[p] /\ frame'[p] = frame[p]
        /\ op'[p] = op[p] /\ done'[p] = done[p] /\ torn'[p] = torn[p]
      BY <1>3 DEF TypeInv, TypeOK, Typed
<1>10. LaidOut(d, w \o s)
       BY <1>1, <1>2, <1>4, Extended
<1>11. ~torn[e] => Encodable(f) /\ EndsWith(w \o s, from, f, a + n)
  <2> SUFFICES ASSUME ~torn[e]
               PROVE  Encodable(f) /\ EndsWith(w \o s, from, f, a + n)
      OBVIOUS
  <2>1. Encodable(f) /\ EndsWith(w, from, f, a)
        BY <1>3, <1>4 DEF Tail_, w, d, f, a
  <2> HIDE DEF from
  <2> QED BY <1>1, <1>2, <1>7, <2>1, EndsWithMore
<1>12. last => a + n = Size(f)
       BY <1>1, <1>2
<1> HIDE DEF last
<1>13. last /\ ~torn[e] => /\ LaidOut(Append(d, r), w \o s)
                           /\ Start(Append(d, r), Len(Append(d, r)) + 1) = Len(w \o s)
  <2> SUFFICES ASSUME last, ~torn[e]
               PROVE  /\ LaidOut(Append(d, r), w \o s)
                      /\ Start(Append(d, r), Len(Append(d, r)) + 1) = Len(w \o s)
      OBVIOUS
  <2>1. EndsWith(w \o s, Start(d, Len(d) + 1), f, Size(f)) /\ Encodable(f)
        BY <1>11, <1>12
  <2>2. LaidOut(Append(d, r), w \o s)
        BY <1>2, <1>5, <1>6, <1>10, <2>1, OneMore
  <2>3. Start(Append(d, r), Len(Append(d, r)) + 1) = r.end
    <3>1. Len(Append(d, r)) = Len(d) + 1 /\ Append(d, r)[Len(d) + 1] = r /\ Len(d) \in Nat
          BY <1>2, <1>6, AppendProperties
    <3>2. Len(d) + 1 # 0 /\ (Len(d) + 1) + 1 # 1 /\ ((Len(d) + 1) + 1) - 1 = Len(d) + 1
          BY <3>1
    <3> QED BY <3>1, <3>2 DEF Start
  <2>4. r.end = Len(w \o s)
        BY <1>6
  <2> QED BY <2>2, <2>3, <2>4
<1>14. ASSUME NEW p \in Peers PROVE LaidOut(done[p], wire[p])'
  <2>1. CASE p = e
    <3>1. LaidOut(done'[e], wire'[e])
          BY <1>8, <1>10, <1>13
    <3> QED BY <2>1, <3>1 DEF LaidOut, Start
  <2>2. CASE p # e
    <3>1. LaidOut(done'[p], wire'[p])
          BY <1>9, <2>2 DEF OrderInv
    <3> QED BY <3>1 DEF LaidOut, Start
  <2> QED BY <2>1, <2>2
<1>15. ASSUME NEW p \in Peers PROVE Tail_(p)'
  <2>1. CASE p = e
    <3> SUFFICES ASSUME ~torn'[e]
                 PROVE  /\ op'[e] = "write" =>
                             /\ Encodable(frame'[e])
                             /\ EndsWith(wire'[e], Start(done'[e], Len(done'[e]) + 1),
                                         frame'[e], off'[e])
                        /\ op'[e] # "write" =>
                             Len(wire'[e]) = Start(done'[e], Len(done'[e]) + 1)
        BY <2>1 DEF Tail_, EndsWith, Start
    <3>1. CASE last
          BY <1>8, <1>13, <3>1
    <3>2. CASE ~last
          BY <1>8, <1>11, <3>2
    <3> QED BY <3>1, <3>2
  <2>2. CASE p # e
        BY <1>9, <2>2 DEF OrderInv, Tail_, EndsWith, Start
  <2> QED BY <2>1, <2>2
<1>16. ASSUME NEW p \in Peers, ~lost'[p] PROVE Received(p)'
  <2> DEFINE q == Peer(p)
  <2>1. Received(p) /\ q \in Peers
        BY <1>3, <1>16, PeerType DEF OrderInv
  <2> HIDE DEF q
  <2>2. InStep(got[p], done[q], wire[q], taken[q], read_buf[p], torn[q])
        BY <2>1 DEF Received, q
  <2>3. InStep(got[p], done'[q], wire'[q], taken[q], read_buf[p], torn[q])
    <3>1. CASE q = e
      <4>1. InStep(got[p], d, w, taken[e], read_buf[p], torn[e])
            BY <2>2, <3>1 DEF d, w
      <4>2. got[p] \in Seq(FrameSet)
            BY OrderTypes
      <4>3. /\ InStep(got[p], d, w \o s, taken[e], read_buf[p], torn[e])
            /\ ~torn[e] => InStep(got[p], Append(d, r), w \o s, taken[e],
                                  read_buf[p], torn[e])
            BY <1>1, <1>2, <1>4, <1>6, <4>1, <4>2, InStepWritten DEF w
      <4> QED BY <1>8, <3>1, <4>3
    <3>2. CASE q # e
          BY <1>9, <2>1, <2>2, <3>2
    <3> QED BY <3>1, <3>2
  <2>4. got'[p] = got[p] /\ taken'[q] = taken[q] /\ read_buf'[p] = read_buf[p]
        /\ torn'[q] = torn[q]
        BY <1>3
  <2>5. InStep(got'[p], done'[q], wire'[q], taken'[q], read_buf'[p], torn'[q])
        BY <2>3, <2>4
  <2> QED BY <2>5 DEF Received, InStep, Start, q
<1> QED BY <1>14, <1>15, <1>16 DEF OrderInv

\* The head of recv's loop keeps the order, entered with the buffer b of a
\* receiver that has read its peer's stream up to t.
LEMMA LoopHeadOrder ==
    ASSUME TypeInv, OrderInv, NEW e \in Peers, NEW b, NEW t \in Nat,
           LoopHead(e, b), op[e] # "write", t <= Len(wire[Peer(e)]),
           taken' = [taken EXCEPT ![Peer(e)] = t],
           UNCHANGED << frame, off, wire, torn, done, lost >>,
           ~lost[e] => InStep(got[e], done[Peer(e)], wire[Peer(e)], t, b, torn[Peer(e)])
    PROVE  OrderInv'
<1> DEFINE r == DecodePrefix(b)
           q == Peer(e)
<1>1. q \in Peers
      BY PeerType
<1>2. /\ op' = [op EXCEPT ![e] = IF r = None THEN "recv" ELSE "idle"]
      /\ read_buf' = [read_buf EXCEPT ![e] = Rest(b)]
      /\ got' = [got EXCEPT ![e] = IF r.tag = "Some" THEN Append(@, r.frame) ELSE @]
      BY DEF LoopHead, Settle, Rest
<1>3. /\ op'[e] # "write"
      /\ read_buf'[e] = Rest(b)
      /\ got'[e] = IF r.tag = "Some" THEN Append(got[e], r.frame) ELSE got[e]
      /\ taken'[q] = t
      BY <1>1, <1>2 DEF TypeInv, TypeOK, Typed
<1>4. \A p \in Peers : p # e =>
         /\ op'[p] = op[p] /\ read_buf'[p] = read_buf[p] /\ got'[p] = got[p]
         /\ taken'[Peer(p)] = taken[Peer(p)]
      BY <1>2, PeerOnce, PeerType DEF TypeInv, TypeOK, Typed
<1>5. ASSUME NEW p \in Peers PROVE LaidOut(done[p], wire[p])'
  <2>1. LaidOut(done[p], wire[p])
        BY DEF OrderInv
  <2> QED BY <2>1 DEF LaidOut, Start
<1>7. ASSUME NEW p \in Peers PROVE Tail_(p)'
      BY <1>3, <1>4 DEF OrderInv, Tail_, EndsWith, Start
<1>8. ASSUME ~lost'[e] PROVE Received(e)'
  <2>1. InStep(got[e], done[q], wire[q], t, b, torn[q])
        BY <1>8
  <2>2. LaidOut(done[q], wire[q]) /\ Tail_(q)
        BY <1>1 DEF OrderInv
  <2>3. ~torn[q] => Partial(wire[q], Start(done[q], Len(done[q]) + 1))
        BY <1>1, <2>2, TailPartial
  <2>4. /\ got[e] \in Seq(FrameSet) /\ done[q] \in Seq(Completed)
        /\ wire[q] \in Seq(Byte) /\ torn[q] \in BOOLEAN /\ t <= Len(wire[q])
        BY <1>1, OrderTypes
  <2> HIDE DEF q
  <2>5. InStep(IF DecodePrefix(b).tag = "Some"
               THEN Append(got[e], DecodePrefix(b).frame) ELSE got[e],
               done[q], wire[q], t, Rest(b), torn[q])
        BY <2>1, <2>2, <2>3, <2>4, InStepDecoded
  <2>6. InStep(got'[e], done'[q], wire'[q], taken'[q], read_buf'[e], torn'[q])
        BY <1>3, <2>5
  <2> QED BY <2>6 DEF Received, InStep, Start, q
<1>9. ASSUME NEW p \in Peers, p # e, ~lost'[p] PROVE Received(p)'
  <2>1. Received(p)
        BY <1>9 DEF OrderInv
  <2>2. InStep(got'[p], done'[Peer(p)], wire'[Peer(p)], taken'[Peer(p)],
               read_buf'[p], torn'[Peer(p)])
        BY <1>4, <1>9, <2>1 DEF Received
  <2> QED BY <2>2 DEF Received, InStep, Start
<1> QED BY <1>5, <1>7, <1>8, <1>9 DEF OrderInv

\* The call of recv() keeps the order.
LEMMA RecvOrder ==
    ASSUME TypeInv, OrderInv, NEW e \in Peers, Recv(e)
    PROVE  OrderInv'
<1>1. /\ LoopHead(e, read_buf[e]) /\ op[e] # "write"
      /\ UNCHANGED << frame, off, wire, taken, torn, done, lost >>
      BY DEF Recv, Ready, stream
<1>2. Peer(e) \in Peers
      BY PeerType
<1>3. taken[Peer(e)] \in Nat /\ taken[Peer(e)] <= Len(wire[Peer(e)])
      BY <1>2, OrderTypes
<1>4. taken' = [taken EXCEPT ![Peer(e)] = taken[Peer(e)]]
      BY <1>1, <1>2 DEF TypeInv, TypeOK, Typed
<1>5. ~lost[e] => InStep(got[e], done[Peer(e)], wire[Peer(e)], taken[Peer(e)],
                         read_buf[e], torn[Peer(e)])
      BY DEF OrderInv, Received
<1> QED BY <1>1, <1>3, <1>4, <1>5, LoopHeadOrder

\* A read inside recv() keeps the order.
LEMMA RecvReadOrder ==
    ASSUME TypeInv, OrderInv, NEW e \in Peers, NEW n, RecvRead(e, n)
    PROVE  OrderInv'
<1> DEFINE q == Peer(e)
           t == taken[q] + n
           b == read_buf[e] \o SubSeq(wire[q], taken[q] + 1, taken[q] + n)
<1>1. q \in Peers
      BY PeerType
<1>2. /\ LoopHead(e, b) /\ op[e] # "write" /\ taken' = [taken EXCEPT ![q] = t]
      /\ UNCHANGED << frame, off, wire, torn, done, lost >>
      BY <1>1 DEF RecvRead, TypeInv, TypeOK, Typed
<1>3. n \in Nat /\ taken[q] + n <= pushed[q]
      BY ReadType
<1>4. /\ taken[q] \in Nat /\ pushed[q] \in Nat /\ pushed[q] <= Len(wire[q])
      /\ wire[q] \in Seq(Byte)
      BY <1>1 DEF TypeInv, TypeOK, Typed, Flow
<1>5. t \in Nat /\ t <= Len(wire[q])
      BY <1>3, <1>4
<1>6. ~lost[e] => InStep(got[e], done[q], wire[q], t, b, torn[q])
  <2> SUFFICES ASSUME ~lost[e] PROVE InStep(got[e], done[q], wire[q], t, b, torn[q])
      OBVIOUS
  <2>1. InStep(got[e], done[q], wire[q], taken[q], read_buf[e], torn[q])
        BY DEF OrderInv, Received
  <2>2. LaidOut(done[q], wire[q])
        BY <1>1 DEF OrderInv
  <2>3. got[e] \in Seq(FrameSet) /\ done[q] \in Seq(Completed)
        BY <1>1, OrderTypes
  <2> HIDE DEF q
  <2> QED BY <1>3, <1>4, <1>5, <2>1, <2>2, <2>3, InStepRead
<1> HIDE DEF t, b
<1> QED BY <1>2, <1>5, <1>6, LoopHeadOrder

\* A new channel on the stream keeps the order, unless bytes were given up.
LEMMA RewrapOrder ==
    ASSUME TypeInv, OrderInv, NEW e \in Peers, Rewrap(e)
    PROVE  OrderInv'
<1>1. /\ read_buf' = [read_buf EXCEPT ![e] = << >>]
      /\ lost' = [lost EXCEPT ![e] = @ \/ read_buf[e] # << >>]
      /\ UNCHANGED << op, frame, off, wire, taken, torn, done, got >>
      BY DEF Rewrap, stream
<1>2. ASSUME NEW p \in Peers PROVE LaidOut(done[p], wire[p])' /\ Tail_(p)'
  <2>1. LaidOut(done[p], wire[p]) /\ Tail_(p)
        BY DEF OrderInv
  <2>2. LaidOut(done[p], wire[p])'
        BY <1>1, <2>1 DEF LaidOut, Start
  <2>3. Tail_(p)'
        BY <1>1, <2>1 DEF Tail_, EndsWith, Start
  <2> QED BY <2>2, <2>3
<1>3. ASSUME NEW p \in Peers, ~lost'[p] PROVE Received(p)'
  <2>1. ~lost[p] /\ read_buf'[p] = read_buf[p]
        BY <1>1, <1>3 DEF TypeInv, TypeOK, Typed
  <2>2. InStep(got[p], done[Peer(p)], wire[Peer(p)], taken[Peer(p)], read_buf'[p],
               torn[Peer(p)])
        BY <2>1 DEF OrderInv, Received
  <2>3. InStep(got'[p], done'[Peer(p)], wire'[Peer(p)], taken'[Peer(p)], read_buf'[p],
               torn'[Peer(p)])
        BY <1>1, <2>2
  <2> QED BY <2>3 DEF Received, InStep, Start
<1> QED BY <1>2, <1>3 DEF OrderInv

\* Every step keeps the order, action by action.
LEMMA OrderStep == TypeInv /\ OrderInv /\ [Next]_vars => OrderInv'
<1> SUFFICES ASSUME TypeInv, OrderInv, [Next]_vars PROVE OrderInv'
    OBVIOUS
<1>1. op \in [Peers -> {"idle", "write", "flush", "recv"}]
      BY DEF TypeInv, TypeOK, Typed
<1>2. ASSUME NEW e \in Peers, NEW f \in Frames, Send(e, f) PROVE OrderInv'
      BY <1>2, SendOrder
<1>3. ASSUME NEW e \in Peers, NEW f, SendRefused(e, f) PROVE OrderInv'
      BY <1>3, OrderStutter DEF SendRefused, stream
<1>4. ASSUME NEW e \in Peers, NEW f, SendForeign(e, f) PROVE OrderInv'
      BY <1>4, ForeignOrder
<1>5. ASSUME NEW e \in Peers, NEW n, Write(e, n) PROVE OrderInv'
      BY <1>5, WriteOrder
<1>6. ASSUME NEW e \in Peers, NEW n, Push(e, n) PROVE OrderInv'
      BY <1>6, OrderStutter DEF Push
<1>7. ASSUME NEW e \in Peers, SendDone(e) \/ SendFails(e) \/ SendCancelled(e)
      PROVE  OrderInv'
      BY <1>7, EndSendOrder DEF SendDone, SendFails, SendCancelled
<1>8. ASSUME NEW e \in Peers, Recv(e) PROVE OrderInv'
      BY <1>8, RecvOrder
<1>9. ASSUME NEW e \in Peers, NEW n, RecvRead(e, n) PROVE OrderInv'
      BY <1>9, RecvReadOrder
<1>10. ASSUME NEW e \in Peers, RecvEof(e) \/ RecvFails(e) \/ RecvCancelled(e)
       PROVE  OrderInv'
  <2>1. op' = [op EXCEPT ![e] = "idle"] /\ op[e] = "recv"
        BY <1>10 DEF RecvEof, RecvFails, RecvCancelled, EndRecv
  <2>2. \A p \in Peers : op'[p] = "write" <=> op[p] = "write"
        BY <1>1, <2>1
  <2> QED BY <1>10, <2>2, OrderStutter
          DEF RecvEof, RecvFails, RecvCancelled, EndRecv, stream
<1>11. ASSUME NEW e \in Peers, Rewrap(e) PROVE OrderInv'
       BY <1>11, RewrapOrder
<1>12. ASSUME NEW e \in Peers, Close(e) PROVE OrderInv'
       BY <1>12, OrderStutter DEF Close, stream
<1>13. CASE Break
       BY <1>13, OrderStutter DEF Break, stream
<1>14. CASE UNCHANGED vars
       BY <1>14, OrderStutter DEF vars, stream
<1> QED BY <1>2, <1>3, <1>4, <1>5, <1>6, <1>7, <1>8, <1>9, <1>10, <1>11, <1>12,
           <1>13, <1>14 DEF Next

\* The frames recv() returns are those the peer wrote whole, in order, none
\* skipped and none twice, however the stream cuts the bytes up, whatever
\* futures are dropped and whatever the frames and the limits.
THEOREM DeliveryInOrder == Spec => []DeliveredInOrder
<1>1. OrderInv => DeliveredInOrder
  <2> SUFFICES ASSUME OrderInv, NEW e \in Peers, ~lost[e]
               PROVE  /\ \A i \in 1..Len(got[e]) :
                           i <= Len(done[Peer(e)]) => got[e][i] = done[Peer(e)][i].frame
                      /\ Len(got[e]) > Len(done[Peer(e)]) => torn[Peer(e)]
      BY DEF DeliveredInOrder
  <2>1. Received(e)
        BY DEF OrderInv
  <2> QED BY <2>1 DEF Received, InStep
<1> QED BY <1>1, TypeInit, TypeStep, OrderInit, OrderStep, PTL DEF Spec

\* read_buf holds what was read beyond the last returned frame and nothing
\* else: that, and no more, is what into_inner() gives up.
THEOREM BufferIsExact == Spec => []BufferIsTheUnreturned
<1>1. TypeInv /\ OrderInv => BufferIsTheUnreturned
  <2> SUFFICES ASSUME TypeInv, OrderInv, NEW e \in Peers, ~lost[e],
                      Len(got[e]) <= Len(done[Peer(e)])
               PROVE  read_buf[e] = SubSeq(wire[Peer(e)], Returned(e) + 1, taken[Peer(e)])
      BY DEF BufferIsTheUnreturned
  <2>1. Received(e)
        BY DEF OrderInv
  <2>2. got[e] \in Seq(FrameSet)
        BY OrderTypes
  <2>3. Start(done[Peer(e)], Len(got[e]) + 1) = Returned(e)
    <3>1. CASE got[e] = << >>
          BY <3>1 DEF Start, Returned
    <3>2. CASE got[e] # << >>
      <4>1. Len(got[e]) \in Nat /\ Len(got[e]) # 0
            BY <2>2, <3>2
      <4>2. Len(got[e]) + 1 # 1 /\ (Len(got[e]) + 1) - 1 = Len(got[e])
            BY <4>1
      <4> QED BY <3>2, <4>2 DEF Start, Returned
    <3> QED BY <3>1, <3>2
  <2> QED BY <2>1, <2>3 DEF Received, InStep
<1> QED BY <1>1, TypeInit, TypeStep, OrderInit, OrderStep, PTL DEF Spec

\* A recv() that waits has returned every whole frame it has read: the caller
\* is never kept waiting for bytes that are already in the buffer.
THEOREM WaitsOnlyForBytes == Spec => []WaitsOnlyForMissingBytes
<1>1. TypeInv /\ ReadInv /\ OrderInv => WaitsOnlyForMissingBytes
  <2> SUFFICES ASSUME TypeInv, ReadInv, OrderInv, NEW e \in Peers, op[e] = "recv",
                      ~lost[e], NEW i \in 1..Len(done[Peer(e)]),
                      done[Peer(e)][i].end <= taken[Peer(e)], ~(i <= Len(got[e]))
               PROVE  FALSE
      BY DEF WaitsOnlyForMissingBytes
  <2> DEFINE d == done[Peer(e)]
             w == wire[Peer(e)]
             t == taken[Peer(e)]
             k == Len(got[e]) + 1
  <2>1. /\ d \in Seq(Completed) /\ w \in Seq(Byte) /\ t \in Nat /\ t <= Len(w)
        /\ Len(got[e]) \in Nat
        BY PeerType, OrderTypes
  <2>2. LaidOut(d, w) /\ Received(e)
        BY PeerType DEF OrderInv
  <2>3. d[i].end <= t /\ i \in 1..Len(d) /\ ~(i <= Len(got[e]))
        OBVIOUS
  <2>4. read_buf[e] = SubSeq(w, Start(d, k) + 1, t) /\ Start(d, k) <= t
    <3>1. Len(got[e]) <= Len(d)
          BY <2>1, <2>3
    <3> QED BY <2>2, <3>1 DEF Received, InStep
  <2>5. DecodePrefix(read_buf[e]) = None
        BY DEF ReadInv, Settled
  <2>6. k \in 1..Len(d) /\ k <= i
        BY <2>1, <2>3
  <2> HIDE DEF d, w, t, k
  <2>7. d[k].end <= d[i].end /\ d[k].end \in Nat /\ d[i].end \in Nat
    <3>1. d[k] \in Completed /\ d[i] \in Completed
          BY <2>1, <2>3, <2>6
    <3> QED BY <2>2, <2>3, <2>6, <3>1 DEF LaidOut, Completed
  <2>8. t >= d[k].end
        BY <2>1, <2>3, <2>7
  <2>9. DecodePrefix(SubSeq(w, Start(d, k) + 1, t)) = Some(d[k].frame, Size(d[k].frame))
        BY <2>1, <2>2, <2>4, <2>6, <2>8, NextDecodes
  <2> QED BY <2>4, <2>5, <2>9 DEF Some, None
<1> QED BY <1>1, TypeInit, TypeStep, ReadInit, ReadStep, OrderInit, OrderStep, PTL
        DEF Spec

\* Only an end of the stream makes a waiting recv() report one.
LEMMA EofIsReported ==
    ASSUME TypeInv, Next, NEW e \in Peers,
           op[e] = "recv", op'[e] = "idle", result'[e] = "UnexpectedEof"
    PROVE  taken[Peer(e)] = pushed[Peer(e)]
<1>1. op \in [Peers -> {"idle", "write", "flush", "recv"}] /\ result \in [Peers -> Results]
      BY DEF TypeInv, TypeOK, Typed
<1>2. ASSUME NEW n \in 1..Chunk, RecvRead(e, n)
      PROVE  FALSE
  <2>1. PICK b : LoopHead(e, b)
        BY <1>2 DEF RecvRead
  <2>2. DecodePrefix(b).tag \in {"None", "Err", "Some"}
        BY DecodeCases DEF None, Err
  <2>3. DecodePrefix(b) # None
        BY <1>1, <2>1 DEF LoopHead, Settle
  <2>4. result'[e] = CASE DecodePrefix(b).tag = "Some" -> "Ok"
                       [] DecodePrefix(b).tag = "Err"  -> DecodePrefix(b).error
                       [] OTHER -> result[e]
        BY <1>1, <2>1 DEF LoopHead, Settle
  <2>5. DecodePrefix(b).tag = "Err" =>
          DecodePrefix(b).error \in {"UnsupportedWireVersion", "PayloadTooLarge"}
        BY DecodeCases DEF Err, None
  <2>6. DecodePrefix(b).tag # "None"
        BY <2>3, DecodeCases DEF None, Err
  <2> QED BY <2>2, <2>4, <2>5, <2>6
<1>3. ASSUME NEW p \in Peers, p # e,
             \/ \E f \in Frames : Send(p, f) \/ SendRefused(p, f)
             \/ \E f \in ForeignFrames : SendForeign(p, f)
             \/ \E n \in 1..StreamBuffer : Write(p, n)
             \/ SendDone(p) \/ SendFails(p) \/ SendCancelled(p)
             \/ RecvEof(p) \/ RecvFails(p) \/ RecvCancelled(p)
      PROVE  op'[e] = op[e]
  <2>1. CASE \E f \in Frames : Send(p, f) \/ SendRefused(p, f)
        BY <1>1, <1>3, <2>1 DEF Send, SendRefused
  <2>2. CASE \E f \in ForeignFrames : SendForeign(p, f)
        BY <1>1, <1>3, <2>2 DEF SendForeign
  <2>3. CASE \E n \in 1..StreamBuffer : Write(p, n)
        BY <1>1, <1>3, <2>3 DEF Write, WriteFrom
  <2>4. CASE SendDone(p) \/ SendFails(p) \/ SendCancelled(p)
        BY <1>1, <1>3, <2>4 DEF SendDone, SendFails, SendCancelled, EndSend
  <2>5. CASE RecvEof(p) \/ RecvFails(p) \/ RecvCancelled(p)
        BY <1>1, <1>3, <2>5 DEF RecvEof, RecvFails, RecvCancelled, EndRecv
  <2> QED BY <1>3, <2>1, <2>2, <2>3, <2>4, <2>5
<1>4. ASSUME NEW p \in Peers, p # e, Recv(p) \/ \E n \in 1..Chunk : RecvRead(p, n)
      PROVE  op'[e] = op[e]
      BY <1>1, <1>4 DEF Recv, RecvRead, LoopHead, Settle
<1>5. ASSUME NEW p \in Peers,
             Rewrap(p) \/ Close(p) \/ (\E n \in 1..PipeCapacity : Push(p, n)) \/ Break
      PROVE  op'[e] = op[e]
      BY <1>5 DEF Rewrap, Close, Push, Break
<1>6. ~Ready(e) /\ ~Writing(e) /\ op[e] # "write" /\ op[e] # "flush"
      BY DEF Ready, Writing
<1>7. RecvFails(e) \/ RecvCancelled(e) => result'[e] # "UnexpectedEof"
      BY <1>1 DEF RecvFails, RecvCancelled, EndRecv
<1>8. CASE \E p \in Peers : p = e /\ RecvEof(p)
      BY <1>8 DEF RecvEof
<1> QED BY <1>2, <1>3, <1>4, <1>5, <1>6, <1>7, <1>8, ZenonT(40)
        DEF Next, Send, SendRefused, SendForeign, Write, WriteFrom, SendDone,
            SendFails, SendCancelled, Recv

\* A recv() reports the end of the stream only once it has returned every frame
\* that reached the connection whole.
THEOREM EofComesLast == Spec => EndOfFileComesLast
<1> DEFINE ComesLast == \A e \in Peers :
             op[e] = "recv" /\ op'[e] = "idle" /\ result'[e] = "UnexpectedEof" /\ ~lost[e] =>
               \A i \in 1..Len(done[Peer(e)]) :
                 done[Peer(e)][i].end <= pushed[Peer(e)] => i <= Len(got[e])
<1>1. TypeInv /\ WaitsOnlyForMissingBytes /\ [Next]_vars => [ComesLast]_vars
  <2> SUFFICES ASSUME TypeInv, WaitsOnlyForMissingBytes, Next, NEW e \in Peers,
                      op[e] = "recv", op'[e] = "idle", result'[e] = "UnexpectedEof", ~lost[e],
                      NEW i \in 1..Len(done[Peer(e)]),
                      done[Peer(e)][i].end <= pushed[Peer(e)]
               PROVE  i <= Len(got[e])
      OBVIOUS
  <2>1. taken[Peer(e)] = pushed[Peer(e)]
        BY EofIsReported
  <2> QED BY <2>1 DEF WaitsOnlyForMissingBytes
<1> QED BY <1>1, TypeInit, TypeStep, WaitsOnlyForBytes, PTL DEF Spec, EndOfFileComesLast

-----------------------------------------------------------------------------
(***************************************************************************)
(* The channels implement the transport of whole frames                    *)
(***************************************************************************)

\* The frames of a log of completed frames.
FramesOf(d) == [i \in DOMAIN d |-> d[i].frame]

\* They are a sequence as long as the log.
LEMMA FramesOfType ==
    ASSUME NEW d \in Seq(Completed)
    PROVE  /\ FramesOf(d) \in Seq(FrameSet) /\ Len(FramesOf(d)) = Len(d)
           /\ \A i \in 1..Len(d) : FramesOf(d)[i] = d[i].frame
<1>1. DOMAIN d = 1..Len(d) /\ Len(d) \in Nat
      OBVIOUS
<1>2. \A i \in 1..Len(d) : d[i] \in Completed
      OBVIOUS
<1>3. \A i \in 1..Len(d) : d[i].frame \in FrameSet
      BY <1>2 DEF Completed
<1>4. FramesOf(d) = [i \in 1..Len(d) |-> d[i].frame]
      BY <1>1 DEF FramesOf
<1> DEFINE g == [i \in 1..Len(d) |-> d[i].frame]
<1>5. g \in [1..Len(d) -> FrameSet]
      BY <1>3
<1>6. \A i \in 1..Len(d) : g[i] = d[i].frame
      OBVIOUS
<1> HIDE DEF g
<1>7. g \in Seq(FrameSet) /\ Len(g) = Len(d)
      BY <1>1, <1>5
<1> QED BY <1>4, <1>6, <1>7 DEF g

\* A frame added to the log is added to the frames.
LEMMA FramesOfAppend ==
    ASSUME NEW d \in Seq(Completed), NEW r \in Completed
    PROVE  FramesOf(Append(d, r)) = Append(FramesOf(d), r.frame)
<1> DEFINE x == FramesOf(Append(d, r))
           y == Append(FramesOf(d), r.frame)
           n == Len(d)
<1>1. n \in Nat /\ r.frame \in FrameSet
      BY DEF Completed
<1>2. /\ Append(d, r) \in Seq(Completed) /\ Len(Append(d, r)) = n + 1
      /\ Append(d, r)[n + 1] = r /\ \A i \in 1..n : Append(d, r)[i] = d[i]
      BY AppendProperties
<1>3. /\ x \in Seq(FrameSet) /\ Len(x) = n + 1
      /\ \A i \in 1..n + 1 : x[i] = Append(d, r)[i].frame
      BY <1>2, FramesOfType
<1>4. /\ FramesOf(d) \in Seq(FrameSet) /\ Len(FramesOf(d)) = n
      /\ \A i \in 1..n : FramesOf(d)[i] = d[i].frame
      BY FramesOfType
<1>5. /\ y \in Seq(FrameSet) /\ Len(y) = n + 1 /\ y[n + 1] = r.frame
      /\ \A i \in 1..n : y[i] = FramesOf(d)[i]
      BY <1>1, <1>4, AppendProperties
<1> HIDE DEF x, y
<1>6. ASSUME NEW i \in 1..Len(x) PROVE x[i] = y[i]
  <2>1. CASE i = n + 1
        BY <1>1, <1>2, <1>3, <1>5, <2>1
  <2>2. CASE i # n + 1
    <3>1. i \in 1..n /\ i \in 1..n + 1
          BY <1>1, <1>3, <2>2
    <3> QED BY <1>2, <1>3, <1>4, <1>5, <3>1
  <2> QED BY <2>1, <2>2
<1>7. x = y
      BY <1>3, <1>5, <1>6, SeqEqual
<1> QED BY <1>7 DEF x, y

\* What the transport is shown of the channels.
Sent == [e \in Peers |-> FramesOf(done[e])]

\* The channels begin where the transport does.
LEMMA RefinedInit == Init => Transport!Init
<1> SUFFICES ASSUME Init PROVE Transport!Init
    OBVIOUS
<1>1. Sent = [e \in Peers |-> << >>]
  <2>1. << >> \in Seq(Completed) /\ Len(<< >>) = 0
        OBVIOUS
  <2>2. FramesOf(<< >>) \in Seq(FrameSet) /\ Len(FramesOf(<< >>)) = 0
        BY <2>1, FramesOfType
  <2>3. FramesOf(<< >>) = << >>
        BY <2>2, EmptySeq
  <2> QED BY <2>3 DEF Init, Sent
<1> QED BY <1>1 DEF Init, Transport!Init, Transport!Peers, Peers, Sent, FramesOf

\* A step that completes, tears, loses and returns nothing is a stutter.
LEMMA RefinedStutter ==
    ASSUME UNCHANGED << done, got, torn, lost >>
    PROVE  UNCHANGED Transport!vars
BY DEF Transport!vars

\* The last byte of a frame completes it; no other write shows.
LEMMA RefinedWrite ==
    ASSUME TypeInv, NEW e \in Peers, NEW n, Write(e, n)
    PROVE  Transport!Next \/ UNCHANGED Transport!vars
<1> DEFINE r == [frame |-> frame[e], end |-> Len(wire[e]) + n]
           last == n = Size(frame[e]) - off[e]
<1>1. /\ done' = [done EXCEPT ![e] = IF last /\ ~torn[e] THEN Append(@, r) ELSE @]
      /\ UNCHANGED << torn, got, lost >>
      BY DEF Write, WriteFrom
<1>2. n \in Nat /\ frame[e] \in FrameSet /\ Len(wire[e]) \in Nat /\ done[e] \in Seq(Completed)
  <2>1. wire[e] \in Seq(Byte)
        BY OrderTypes
  <2> QED BY <2>1, OrderTypes, WritePortion
<1>3. r \in Completed /\ r.frame = frame[e]
      BY <1>2 DEF Completed
<1> HIDE DEF r, last
<1>4. CASE last /\ ~torn[e]
  <2>1. done' = [done EXCEPT ![e] = Append(done[e], r)]
        BY <1>1, <1>4
  <2>2. FramesOf(Append(done[e], r)) = Append(FramesOf(done[e]), frame[e])
        BY <1>2, <1>3, FramesOfAppend
  <2>3. \A p \in Peers : done'[p] = IF p = e THEN Append(done[e], r) ELSE done[p]
        BY <2>1 DEF TypeInv, TypeOK, Typed
  <2>4. Sent' = [Sent EXCEPT ![e] = Append(@, frame[e])]
    <3>1. Sent' = [p \in Peers |-> FramesOf(done'[p])]
          BY DEF Sent, FramesOf
    <3>2. \A p \in Peers : FramesOf(done'[p]) = IF p = e THEN Append(FramesOf(done[e]), frame[e])
                                                ELSE FramesOf(done[p])
          BY <2>2, <2>3
    <3> QED BY <3>1, <3>2 DEF Sent
  <2>5. Sent'[e] = Append(FramesOf(done[e]), frame[e]) /\ FramesOf(done[e]) \in Seq(FrameSet)
        BY <1>2, <2>4, FramesOfType DEF Sent
  <2>6. Sent'[e] # << >> /\ Last(Sent'[e]) = frame[e]
    <3> DEFINE g == FramesOf(done[e])
               f == frame[e]
    <3>1. g \in Seq(FrameSet) /\ f \in FrameSet /\ Sent'[e] = Append(g, f)
          BY <1>2, <2>5
    <3> HIDE DEF g, f
    <3>2. /\ Append(g, f) # << >> /\ Len(Append(g, f)) = Len(g) + 1
          /\ Append(g, f)[Len(g) + 1] = f
          BY <3>1, AppendProperties
    <3> QED BY <3>1, <3>2 DEF Last, f
  <2>7. ~torn[e] /\ UNCHANGED << got, torn, lost >>
        BY <1>1, <1>4
  <2>8. Sent'[e] # << >> /\ Sent' = [Sent EXCEPT ![e] = Append(@, Last(Sent'[e]))]
        BY <2>4, <2>6
  <2>9. Transport!Complete(e, Last(Sent'[e]))
        BY <2>7, <2>8 DEF Transport!Complete, Sent, FramesOf
  <2>10. e \in Transport!Peers
         BY DEF Transport!Peers, Peers
  <2> QED BY <2>8, <2>9, <2>10
          DEF Transport!Next, Transport!Last, Last, Sent, FramesOf
<1>5. CASE ~(last /\ ~torn[e])
  <2>1. done' = done
        BY <1>1, <1>5 DEF TypeInv, TypeOK, Typed
  <2> QED BY <1>1, <2>1, RefinedStutter
<1> QED BY <1>4, <1>5

\* A stream torn by e is torn in the transport, once.
LEMMA RefinedTear ==
    ASSUME TypeInv, NEW e \in Peers, UNCHANGED << done, got, lost >>, NEW b \in BOOLEAN,
           torn' = [torn EXCEPT ![e] = @ \/ b]
    PROVE  Transport!Next \/ UNCHANGED Transport!vars
<1>1. torn \in [Peers -> BOOLEAN]
      BY DEF TypeInv, TypeOK, Typed
<1>2. CASE torn[e] \/ ~b
  <2>1. torn' = torn
        BY <1>1, <1>2
  <2> QED BY <2>1, RefinedStutter
<1>3. CASE ~torn[e] /\ b
  <2>1. torn' = [torn EXCEPT ![e] = TRUE]
        BY <1>1, <1>3
  <2> QED BY <1>3, <2>1 DEF Transport!Next, Transport!Tear, Transport!Peers, Peers
<1> QED BY <1>1, <1>2, <1>3

\* What recv() returns is the next completed frame; or, behind all of them or
\* out of place, anything.
LEMMA RefinedReturn ==
    ASSUME TypeInv, OrderInv, OrderInv', NEW e \in Peers, NEW b \in Seq(Byte), LoopHead(e, b),
           UNCHANGED << done, torn, lost >>
    PROVE  Transport!Next \/ UNCHANGED Transport!vars
<1> DEFINE r == DecodePrefix(b)
           g == got[e]
           d == done[Peer(e)]
<1>1. got' = [got EXCEPT ![e] = IF r.tag = "Some" THEN Append(@, r.frame) ELSE @]
      BY DEF LoopHead, Settle
<1>2. got \in [Peers -> Seq(FrameSet)] /\ g \in Seq(FrameSet) /\ d \in Seq(Completed)
      /\ Peer(e) \in Peers
      BY PeerType, OrderTypes DEF TypeInv, TypeOK, Typed
<1>3. CASE r.tag # "Some"
  <2>1. got' = got
        BY <1>1, <1>2, <1>3
  <2> QED BY <2>1, RefinedStutter
<1>4. CASE r.tag = "Some"
  <2> DEFINE f == r.frame
  <2>1. f \in FrameSet
        BY <1>4, DecodeType
  <2>2. got' = [got EXCEPT ![e] = Append(@, f)] /\ got'[e] = Append(g, f)
        BY <1>1, <1>2, <1>4
  <2> HIDE DEF f, g, d
  <2>3. /\ Append(g, f) # << >> /\ Len(Append(g, f)) = Len(g) + 1
        /\ Append(g, f)[Len(g) + 1] = f /\ Len(g) \in Nat /\ Len(d) \in Nat
        BY <1>2, <2>1, AppendProperties
  <2>4. got'[e] # << >> /\ Last(got'[e]) = f
        BY <2>2, <2>3 DEF Last
  <2>5. Sent[Peer(e)] = FramesOf(d) /\ Len(FramesOf(d)) = Len(d)
        /\ \A i \in 1..Len(d) : FramesOf(d)[i] = d[i].frame
        BY <1>2, FramesOfType DEF Sent, d
  <2>6. ~lost[e] => /\ \A i \in 1..Len(g) + 1 : i <= Len(d) => Append(g, f)[i] = d[i].frame
                    /\ Len(g) + 1 > Len(d) => torn[Peer(e)]
    <3> SUFFICES ASSUME ~lost[e]
                 PROVE  /\ \A i \in 1..Len(g) + 1 : i <= Len(d) =>
                              Append(g, f)[i] = d[i].frame
                        /\ Len(g) + 1 > Len(d) => torn[Peer(e)]
        OBVIOUS
    <3>1. Received(e)'
          BY DEF OrderInv
    <3>2. /\ \A i \in 1..Len(got'[e]) : i <= Len(d) => got'[e][i] = d[i].frame
          /\ Len(got'[e]) > Len(d) => torn[Peer(e)]
          BY <3>1 DEF Received, InStep, d
    <3> QED BY <2>2, <2>3, <3>2
  <2>7. CASE lost[e] \/ ~(Len(g) < Len(d))
    <3>1. lost[e] \/ (torn[Peer(e)] /\ Len(g) >= Len(Sent[Peer(e)]))
          BY <2>3, <2>5, <2>6, <2>7
    <3>2. lost[e] \/ (torn[Transport!Peer(e)] /\ Len(got[e]) >= Len(Sent[Transport!Peer(e)]))
          BY <3>1 DEF Transport!Peer, Peer, g
    <3>3. got' = [got EXCEPT ![e] = Append(@, Last(got'[e]))]
          BY <2>2, <2>4
    <3>4. Transport!Misread(e, Last(got'[e]))
      <4>1. UNCHANGED << Sent, torn, lost >>
            BY DEF Sent, FramesOf
      <4> QED BY <3>2, <3>3, <4>1 DEF Transport!Misread, Sent, FramesOf
    <3>5. e \in Transport!Peers
          BY DEF Transport!Peers, Peers
    <3> QED BY <2>4, <3>4, <3>5 DEF Transport!Next, Transport!Last, Last
  <2>8. CASE ~lost[e] /\ Len(g) < Len(d)
    <3>1. Len(g) + 1 \in 1..Len(d) /\ Len(g) + 1 \in 1..Len(g) + 1 /\ Len(g) + 1 <= Len(d)
          BY <2>3, <2>8
    <3>2. f = Sent[Peer(e)][Len(g) + 1]
          BY <2>3, <2>5, <2>6, <2>8, <3>1
    <3>3. /\ Len(got[e]) < Len(Sent[Transport!Peer(e)])
          /\ got' = [got EXCEPT ![e] = Append(@, Sent[Transport!Peer(e)][Len(@) + 1])]
          BY <2>2, <2>5, <2>8, <3>2 DEF Transport!Peer, Peer, g
    <3> QED BY <3>3 DEF Transport!Next, Transport!Deliver, Transport!Peers, Peers, Sent, FramesOf
  <2> QED BY <2>7, <2>8
<1> QED BY <1>3, <1>4

\* Giving up bytes with a channel loses the place, once.
LEMMA RefinedRewrap ==
    ASSUME TypeInv, NEW e \in Peers, Rewrap(e)
    PROVE  Transport!Next \/ UNCHANGED Transport!vars
<1> DEFINE b == read_buf[e] # << >>
<1>1. lost' = [lost EXCEPT ![e] = @ \/ b] /\ UNCHANGED << done, got, torn >>
      BY DEF Rewrap
<1>2. lost \in [Peers -> BOOLEAN] /\ b \in BOOLEAN
      BY DEF TypeInv, TypeOK, Typed
<1> HIDE DEF b
<1>3. CASE lost[e] \/ ~b
  <2>1. lost' = lost
        BY <1>1, <1>2, <1>3
  <2> QED BY <1>1, <2>1, RefinedStutter
<1>4. CASE ~lost[e] /\ b
  <2>1. lost' = [lost EXCEPT ![e] = TRUE]
        BY <1>1, <1>2, <1>4
  <2> QED BY <1>1, <1>4, <2>1 DEF Transport!Next, Transport!Lose, Transport!Peers, Peers
<1> QED BY <1>2, <1>3, <1>4

\* Every step of the channels is a step of the transport or none.
LEMMA RefinedStep ==
    TypeInv /\ OrderInv /\ OrderInv' /\ [Next]_vars => [Transport!Next]_(Transport!vars)
<1> SUFFICES ASSUME TypeInv, OrderInv, OrderInv', [Next]_vars
             PROVE  Transport!Next \/ UNCHANGED Transport!vars
    OBVIOUS
<1>1. ASSUME NEW e \in Peers, NEW f, Send(e, f) \/ SendRefused(e, f)
      PROVE  UNCHANGED Transport!vars
      BY <1>1, RefinedStutter DEF Send, SendRefused
<1>2. ASSUME NEW e \in Peers, NEW f, SendForeign(e, f)
      PROVE  Transport!Next \/ UNCHANGED Transport!vars
  <2>1. torn' = [torn EXCEPT ![e] = @ \/ TRUE] /\ UNCHANGED << done, got, lost >>
        BY <1>2 DEF SendForeign
  <2> QED BY <2>1, RefinedTear
<1>3. ASSUME NEW e \in Peers, NEW n, Write(e, n)
      PROVE  Transport!Next \/ UNCHANGED Transport!vars
      BY <1>3, RefinedWrite
<1>4. ASSUME NEW e \in Peers, NEW n, Push(e, n) PROVE UNCHANGED Transport!vars
      BY <1>4, RefinedStutter DEF Push
<1>5. ASSUME NEW e \in Peers, SendDone(e) \/ SendFails(e) \/ SendCancelled(e)
      PROVE  Transport!Next \/ UNCHANGED Transport!vars
  <2> DEFINE b == op[e] = "write" /\ off[e] > 0
  <2>1. torn' = [torn EXCEPT ![e] = @ \/ b] /\ UNCHANGED << done, got, lost >>
        BY <1>5 DEF SendDone, SendFails, SendCancelled, EndSend
  <2>2. b \in BOOLEAN
        OBVIOUS
  <2> HIDE DEF b
  <2> QED BY <2>1, <2>2, RefinedTear
<1>6. ASSUME NEW e \in Peers, Recv(e)
      PROVE  Transport!Next \/ UNCHANGED Transport!vars
  <2>1. read_buf[e] \in Seq(Byte)
        BY OrderTypes
  <2> QED BY <1>6, <2>1, RefinedReturn DEF Recv
<1>7. ASSUME NEW e \in Peers, NEW n, RecvRead(e, n)
      PROVE  Transport!Next \/ UNCHANGED Transport!vars
  <2> DEFINE b == read_buf[e] \o Arrived(Peer(e), n)
  <2>1. b \in Seq(Byte)
        BY <1>7, ReadType
  <2>2. LoopHead(e, b) /\ UNCHANGED << done, torn, lost >>
        BY <1>7 DEF RecvRead, Arrived
  <2> HIDE DEF b
  <2> QED BY <2>1, <2>2, RefinedReturn
<1>8. ASSUME NEW e \in Peers, RecvEof(e) \/ RecvFails(e) \/ RecvCancelled(e)
      PROVE  UNCHANGED Transport!vars
      BY <1>8, RefinedStutter DEF RecvEof, RecvFails, RecvCancelled, EndRecv
<1>9. ASSUME NEW e \in Peers, Rewrap(e)
      PROVE  Transport!Next \/ UNCHANGED Transport!vars
      BY <1>9, RefinedRewrap
<1>10. ASSUME NEW e \in Peers, Close(e) PROVE UNCHANGED Transport!vars
       BY <1>10, RefinedStutter DEF Close
<1>11. CASE Break
       BY <1>11, RefinedStutter DEF Break
<1>12. CASE UNCHANGED vars
       BY <1>12, RefinedStutter DEF vars
<1> QED BY <1>1, <1>2, <1>3, <1>4, <1>5, <1>6, <1>7, <1>8, <1>9, <1>10, <1>11, <1>12
        DEF Next

\* Two channels over any stream implement the FIFO of whole frames: an
\* application may forget bytes, chunks, buffers and dropped futures.
THEOREM ChannelsImplementTransport == Spec => ImplementsTransport
BY TypeInit, TypeStep, OrderInit, OrderStep, RefinedInit, RefinedStep, PTL
   DEF Spec, ImplementsTransport, Transport!Spec
=============================================================================
