--------------------------- MODULE WsInjectProofs ---------------------------
(* Proofs about WsInject, for any frames a client may send, of any sizes that a *)
(* header can tell, in any order, and any limit: what upstream reads is what    *)
(* the client says, with the tools that are put in, and it is cut off for a     *)
(* message that is too large and for nothing else.                              *)
EXTENDS WsInject, SequenceTheorems, FiniteSetTheorems, TLAPS

----------------------------------------------------------------------------
(* A frame is read back as it was written, and announces what it carries.       *)

LEMMA Halves ==
    ASSUME NEW n \in Nat
    PROVE  (n \div 65536) \in Nat /\ (n \div 65536) * 65536 + (n % 65536) = n
  OBVIOUS

LEMMA TwoBytes ==
    ASSUME NEW n \in Nat
    PROVE  (((n \div 256) % 256) * 256) + (n % 256) = n % 65536
  OBVIOUS

LEMMA Put16 ==
    ASSUME NEW n \in Nat
    PROVE  Len(PutUint16(n)) = 2 /\ Uint16(PutUint16(n)) = n % 65536
<1>1. (n \div 256) % 256 \in Nat /\ n % 256 \in Nat
  OBVIOUS
<1> QED BY <1>1, TwoBytes DEF PutUint16, Uint16

LEMMA Put64 ==
    ASSUME NEW n \in Nat, FitsUint64(n)
    PROVE  Len(PutUint64(n)) = 8 /\ Uint64(PutUint64(n)) = n
<1>1. PICK m \in Nat : m = n \div 65536
  OBVIOUS
<1>2. PICK u \in Nat : u = m \div 65536
  OBVIOUS
<1>3. PICK t \in Nat : t = u \div 65536
  OBVIOUS
<1>4. t < 65536
  BY <1>1, <1>2, <1>3 DEF FitsUint64
<1>5. PutUint64(n) = <<(t \div 256) % 256, t % 256, (u \div 256) % 256, u % 256,
                       (m \div 256) % 256, m % 256, (n \div 256) % 256, n % 256>>
  BY <1>1, <1>2, <1>3 DEF PutUint64
<1>6. Len(PutUint64(n)) = 8
  BY <1>5
<1>7. Uint64(PutUint64(n)) = (((t % 65536) * 65536 + (u % 65536)) * 65536 + (m % 65536)) * 65536
                             + (n % 65536)
  BY <1>5, TwoBytes DEF Uint64
<1>8. t % 65536 = t
  BY <1>4
<1>9. /\ t * 65536 + (u % 65536) = u
      /\ u * 65536 + (m % 65536) = m
      /\ m * 65536 + (n % 65536) = n
  BY <1>1, <1>2, <1>3, Halves
<1> QED BY <1>6, <1>7, <1>8, <1>9

\* The length of a payload in a header, and the header read.
LEMMA LengthKept ==
    ASSUME NEW n \in Nat, FitsUint64(n), NEW bit \in Nat, bit \in {0, 128}, NEW h,
           h.second = LengthField(n).second + bit, h.extended = LengthField(n).extended
    PROVE  /\ Announced(h) = n /\ (h.second >= 128 <=> bit = 128)
           /\ parseWebsocketFrameHeader(h).length = n
<1>1. CASE n < 126
  <2>1. h.second = n + bit /\ h.extended = <<>>
    BY <1>1 DEF LengthField
  <2>2. h.second % 128 = n /\ (h.second >= 128 <=> bit = 128) /\ Len(h.extended) = 0
    BY <1>1, <2>1
  <2>3. Announced(h) = n
    BY <1>1, <2>2 DEF Announced
  <2>4. websocketFrameHeaderLen(h.second) = 0
    BY <1>1, <2>2 DEF websocketFrameHeaderLen
  <2> QED BY <2>2, <2>3, <2>4 DEF parseWebsocketFrameHeader
<1>2. CASE n >= 126 /\ n <= 65535
  <2>1. h.second = 126 + bit /\ h.extended = PutUint16(n)
    BY <1>2 DEF LengthField
  <2>2. h.second % 128 = 126 /\ (h.second >= 128 <=> bit = 128)
    BY <2>1
  <2>3. n % 65536 = n
    BY <1>2
  <2>4. Len(h.extended) = 2 /\ Uint16(h.extended) = n
    BY <2>1, <2>3, Put16
  <2>5. Announced(h) = n
    BY <1>2, <2>2, <2>4 DEF Announced
  <2>6. websocketFrameHeaderLen(h.second) = 2
    BY <2>2 DEF websocketFrameHeaderLen
  <2> QED BY <2>2, <2>4, <2>5, <2>6 DEF parseWebsocketFrameHeader
<1>3. CASE n > 65535
  <2>1. h.second = 127 + bit /\ h.extended = PutUint64(n)
    BY <1>3 DEF LengthField
  <2>2. h.second % 128 = 127 /\ (h.second >= 128 <=> bit = 128)
    BY <2>1
  <2>3. Len(h.extended) = 8 /\ Uint64(h.extended) = n
    BY <2>1, Put64
  <2>4. Announced(h) = n
    BY <1>3, <2>2, <2>3 DEF Announced
  <2>5. websocketFrameHeaderLen(h.second) = 8
    BY <2>2 DEF websocketFrameHeaderLen
  <2> QED BY <2>2, <2>3, <2>4, <2>5 DEF parseWebsocketFrameHeader
<1> QED BY <1>1, <1>2, <1>3

\* The first byte, and its parts read by the proxy and by the rules.
LEMMA FirstByte ==
    ASSUME NEW op \in DOMAIN OpCode, NEW fin \in BOOLEAN, NEW rsv \in BOOLEAN
    PROVE  LET b == OpCode[op] + Bit(rsv, 64) + Bit(fin, 128)
           IN /\ b % 16 = OpCode[op]
              /\ (b \div 64) % 2 = 1 <=> rsv
              /\ (b \div 16) % 8 # 0 <=> rsv
              /\ b >= 128 <=> fin
              /\ b \div 128 = 1 <=> fin
<1> DEFINE b == OpCode[op] + Bit(rsv, 64) + Bit(fin, 128)
<1> SUFFICES /\ b % 16 = OpCode[op]
             /\ (b \div 64) % 2 = 1 <=> rsv
             /\ (b \div 16) % 8 # 0 <=> rsv
             /\ b >= 128 <=> fin
             /\ b \div 128 = 1 <=> fin
  OBVIOUS
<1>1. OpCode[op] \in 0..15
  BY DEF OpCode
<1>2. PICK c \in Nat : c = OpCode[op] /\ c <= 15
  BY <1>1
<1>3. CASE rsv /\ fin
  <2>1. b = c + 192
    BY <1>2, <1>3 DEF Bit
  <2> HIDE DEF b
  <2>2. b % 16 = c /\ (b \div 64) % 2 = 1 /\ (b \div 16) % 8 # 0
    BY <2>1, <1>2
  <2>3. b \div 128 = 1 /\ b >= 128
    BY <2>1, <1>2
  <2> QED BY <2>2, <2>3, <1>2, <1>3, Zenon
<1>4. CASE rsv /\ ~fin
  <2>1. b = c + 64
    BY <1>2, <1>4 DEF Bit
  <2> HIDE DEF b
  <2>2. b % 16 = c /\ (b \div 64) % 2 = 1 /\ (b \div 16) % 8 # 0
    BY <2>1, <1>2
  <2>3. ~(b \div 128 = 1) /\ ~(b >= 128)
    BY <2>1, <1>2
  <2> QED BY <2>2, <2>3, <1>2, <1>4, Zenon
<1>5. CASE ~rsv /\ fin
  <2>1. b = c + 128
    BY <1>2, <1>5 DEF Bit
  <2> HIDE DEF b
  <2>2. b % 16 = c /\ ~((b \div 64) % 2 = 1) /\ ~((b \div 16) % 8 # 0)
    BY <2>1, <1>2
  <2>3. b \div 128 = 1 /\ b >= 128
    BY <2>1, <1>2
  <2> QED BY <2>2, <2>3, <1>2, <1>5, Zenon
<1>6. CASE ~rsv /\ ~fin
  <2>1. b = c + 0
    BY <1>2, <1>6 DEF Bit
  <2> HIDE DEF b
  <2>2. b % 16 = c /\ ~((b \div 64) % 2 = 1) /\ ~((b \div 16) % 8 # 0)
    BY <2>1, <1>2
  <2>3. ~(b \div 128 = 1) /\ ~(b >= 128)
    BY <2>1, <1>2
  <2> QED BY <2>2, <2>3, <1>2, <1>6, Zenon
<1> QED BY <1>3, <1>4, <1>5, <1>6

\* No two operations have the same code.
LEMMA OpBack ==
    ASSUME NEW op \in DOMAIN OpCode
    PROVE  /\ OpOf(OpCode[op]) = op
           /\ (CHOOSE o \in DOMAIN OpCode : OpCode[op] = OpCode[o]) = op
<1>1. \A o \in DOMAIN OpCode : OpCode[o] = OpCode[op] => o = op
  BY DEF OpCode
<1> QED BY <1>1 DEF OpOf

----------------------------------------------------------------------------
(* How many bytes a payload has.                                                *)

Pieces == {p \in STRING : \E f \in Frames : \E i \in DOMAIN f.payload : f.payload[i] = p}

Adding == INSTANCE FoldFacts WITH Op <- LAMBDA n, p : n + Size(p)

LEMMA PieceSize == \A p \in Pieces : Size(p) \in Nat
  BY SizesAssumption DEF Pieces

LEMMA PayloadPieces == \A f \in Frames : f.payload \in Seq(Pieces)
<1> SUFFICES ASSUME NEW f \in Frames PROVE f.payload \in Seq(Pieces)
  OBVIOUS
<1>1. f.payload \in Seq(STRING)
  BY FramesAssumption
<1>2. PICK n \in Nat : n = Len(f.payload) /\ DOMAIN f.payload = 1..n
  BY <1>1
<1>3. \A i \in 1..n : f.payload[i] \in Pieces
  BY <1>1, <1>2 DEF Pieces
<1>4. f.payload \in [1..n -> Pieces]
  BY <1>1, <1>2, <1>3
<1> QED BY <1>4

LEMMA BytesFold ==
    ASSUME NEW s
    PROVE  Bytes(s) = Adding!Fold(0, s)
  BY DEF Bytes, Adding!Fold, FoldLeft, Adding!FoldLeft, MapThenFoldSet, Adding!MapThenFoldSet,
         Max, Adding!Max

LEMMA BytesNothing == Bytes(<<>>) = 0
  BY BytesFold, Adding!FoldNothing

LEMMA BytesAppend ==
    ASSUME NEW s \in Seq(Pieces), NEW p \in Pieces
    PROVE  Bytes(Append(s, p)) = Bytes(s) + Size(p)
  BY BytesFold, Adding!FoldAppend

\* A sequence that is not empty is one with its last element appended.
LEMMA ButLast ==
    ASSUME NEW S, NEW n \in Nat, NEW s \in Seq(S), Len(s) = n + 1
    PROVE  \E t \in Seq(S), x \in S : s = Append(t, x) /\ Len(t) = n
<1> DEFINE t == SubSeq(s, 1, n)
<1>1. t \in Seq(S) /\ Len(t) = n /\ s[n + 1] \in S
  OBVIOUS
<1>2. s = Append(t, s[n + 1])
  OBVIOUS
<1> QED BY <1>1, <1>2

\* Of two payloads after one another: by induction on the length of the second.
LEMMA BytesConcat ==
    ASSUME NEW s \in Seq(Pieces), NEW t \in Seq(Pieces)
    PROVE  Bytes(s) \in Nat /\ Bytes(s \o t) = Bytes(s) + Bytes(t)
<1> DEFINE T == {n \in Nat : \A u \in Seq(Pieces) : Len(u) = n =>
                    /\ Bytes(u) \in Nat
                    /\ \A v \in Seq(Pieces) : Bytes(v) \in Nat => Bytes(v \o u) = Bytes(v) + Bytes(u)}
<1>1. 0 \in T
  <2>1. ASSUME NEW u \in Seq(Pieces), Len(u) = 0 PROVE u = <<>>
    BY <2>1
  <2>2. \A v \in Seq(Pieces) : v \o <<>> = v
    OBVIOUS
  <2>3. ASSUME NEW u \in Seq(Pieces), Len(u) = 0, NEW v \in Seq(Pieces), Bytes(v) \in Nat
        PROVE  Bytes(v \o u) = Bytes(v) + Bytes(u)
    <3>1. v \o u = v
      BY <2>1, <2>2, <2>3
    <3>2. Bytes(u) = 0
      BY <2>1, <2>3, BytesNothing
    <3> QED BY <2>3, <3>1, <3>2
  <2>4. ASSUME NEW u \in Seq(Pieces), Len(u) = 0 PROVE Bytes(u) = 0
    BY <2>1, <2>4, BytesNothing
  <2> QED BY <2>3, <2>4
<1>2. ASSUME NEW n \in Nat, n \in T PROVE n + 1 \in T
  <2> SUFFICES ASSUME NEW u \in Seq(Pieces), Len(u) = n + 1
               PROVE  /\ Bytes(u) \in Nat
                      /\ \A v \in Seq(Pieces) :
                            Bytes(v) \in Nat => Bytes(v \o u) = Bytes(v) + Bytes(u)
    OBVIOUS
  <2>1. PICK w \in Seq(Pieces), p \in Pieces : u = Append(w, p) /\ Len(w) = n
    BY ButLast
  <2>2. /\ Bytes(w) \in Nat
        /\ \A v \in Seq(Pieces) : Bytes(v) \in Nat => Bytes(v \o w) = Bytes(v) + Bytes(w)
    BY <1>2, <2>1
  <2>3. Bytes(u) = Bytes(w) + Size(p) /\ Size(p) \in Nat
    BY <2>1, BytesAppend, PieceSize
  <2>4. ASSUME NEW v \in Seq(Pieces), Bytes(v) \in Nat PROVE Bytes(v \o u) = Bytes(v) + Bytes(u)
    <3>1. v \o u = Append(v \o w, p) /\ v \o w \in Seq(Pieces)
      BY <2>1
    <3>2. Bytes(v \o u) = Bytes(v \o w) + Size(p)
      BY <3>1, BytesAppend
    <3> QED BY <2>2, <2>3, <2>4, <3>2
  <2> QED BY <2>2, <2>3, <2>4
<1>3. Nat \subseteq T
  <2> HIDE DEF T
  <2> QED BY <1>1, <1>2, Adding!Induction
<1> QED
  <2>1. Len(s) \in Nat /\ Len(t) \in Nat
    OBVIOUS
  <2> QED BY <1>3, <2>1

----------------------------------------------------------------------------
(* Frames as they are on a wire.                                                *)

Texts == [pieces : Seq(Pieces), tool : BOOLEAN]

Ops == {"text", "cont", "binary", "ping", "close"}

\* Frames whose length a header can tell.
Whole == {g \in [op : Ops, fin : BOOLEAN, rsv : BOOLEAN, text : Texts] :
            FitsUint64(TextLength(g.text))}

Wires == {buildProxyWebsocketFrame(g, key) : g \in Whole, key \in {"client", "proxy"}}

LEMMA TextLengthIs ==
    ASSUME NEW text \in Texts
    PROVE  TextLength(text) \in Nat
  BY BytesConcat, BoundsAssumption DEF Texts, TextLength

\* What is read of a wire, by the rules and by the proxy.
LEMMA WireRead ==
    ASSUME NEW g \in Whole, NEW key \in {"client", "proxy"}
    PROVE  LET wire == buildProxyWebsocketFrame(g, key)
               read == readProxyWebsocketFrame(wire)
           IN /\ FrameOn(wire) = g
              /\ InStep(wire)
              /\ read.op = g.op /\ read.fin = g.fin /\ read.rsv = g.rsv
              /\ read.text = g.text /\ read.length = TextLength(g.text)
<1> DEFINE n == TextLength(g.text)
           h == [first |-> OpCode[g.op] + Bit(g.rsv, 64) + Bit(g.fin, 128),
                 second |-> LengthField(n).second + Bit(key # NoKey, 128),
                 extended |-> LengthField(n).extended]
           wire == buildProxyWebsocketFrame(g, key)
<1>1. /\ g.op \in DOMAIN OpCode /\ g.fin \in BOOLEAN /\ g.rsv \in BOOLEAN
      /\ g.text \in Texts /\ FitsUint64(n)
      /\ g = [op |-> g.op, fin |-> g.fin, rsv |-> g.rsv, text |-> g.text]
  BY DEF Whole, Ops, OpCode
<1>2. n \in Nat
  BY <1>1, TextLengthIs
<1>3. key # NoKey /\ Bit(key # NoKey, 128) = 128
  BY DEF NoKey, Bit
<1>4. wire = [header |-> h, key |-> key, text |-> g.text]
  BY DEF buildProxyWebsocketFrame
<1>5. wire.header = h /\ wire.key = key /\ wire.text = g.text
  BY <1>4
<1>6. h.second = LengthField(n).second + 128 /\ h.extended = LengthField(n).extended
  BY <1>3
<1>7. h.first = OpCode[g.op] + Bit(g.rsv, 64) + Bit(g.fin, 128)
  OBVIOUS
<1> HIDE DEF h, n, wire
<1>8. Announced(h) = n /\ h.second >= 128 /\ parseWebsocketFrameHeader(h).length = n
  <2>1. 128 \in Nat /\ 128 \in {0, 128}
    OBVIOUS
  <2>2. PICK bit \in Nat : bit = 128
    OBVIOUS
  <2>3. h.second = LengthField(n).second + bit
    BY <1>6, <2>2
  <2>4. bit \in {0, 128}
    BY <2>2
  <2>5. /\ Announced(h) = n /\ (h.second >= 128 <=> bit = 128)
        /\ parseWebsocketFrameHeader(h).length = n
    BY <1>1, <1>2, <1>6, <2>3, <2>4, LengthKept
  <2> QED BY <2>2, <2>5
<1>9. /\ h.first % 16 = OpCode[g.op]
      /\ (h.first \div 64) % 2 = 1 <=> g.rsv
      /\ (h.first \div 16) % 8 # 0 <=> g.rsv
      /\ h.first >= 128 <=> g.fin
      /\ h.first \div 128 = 1 <=> g.fin
  <2>1. LET b == OpCode[g.op] + Bit(g.rsv, 64) + Bit(g.fin, 128)
        IN /\ b % 16 = OpCode[g.op]
           /\ (b \div 64) % 2 = 1 <=> g.rsv
           /\ (b \div 16) % 8 # 0 <=> g.rsv
           /\ b >= 128 <=> g.fin
           /\ b \div 128 = 1 <=> g.fin
    BY <1>1, FirstByte
  <2> QED BY <1>7, <2>1
<1>10. FrameOn(wire) = g
  <2>1. FrameOn(wire).op = g.op
    BY <1>1, <1>5, <1>9, OpBack DEF FrameOn
  <2>2. FrameOn(wire) = [op |-> FrameOn(wire).op, fin |-> h.first \div 128 = 1,
                         rsv |-> (h.first \div 16) % 8 # 0, text |-> g.text]
    BY <1>5 DEF FrameOn
  <2>3. (h.first \div 128 = 1) = g.fin /\ ((h.first \div 16) % 8 # 0) = g.rsv
    BY <1>1, <1>9
  <2> QED BY <1>1, <2>1, <2>2, <2>3, Zenon
<1>11. InStep(wire)
  BY <1>3, <1>5, <1>8 DEF InStep, n
<1>12. LET read == readProxyWebsocketFrame(wire)
       IN /\ read.op = g.op /\ read.fin = g.fin /\ read.rsv = g.rsv
          /\ read.text = g.text /\ read.length = n
  <2> DEFINE parsed == parseWebsocketFrameHeader(h)
  <2>1. parsed.op = g.op
    BY <1>1, <1>9, OpBack DEF parseWebsocketFrameHeader
  <2>2. (h.first >= 128) = g.fin /\ ((h.first \div 64) % 2 = 1) = g.rsv
    BY <1>1, <1>9
  <2>3. parsed.fin = g.fin /\ parsed.rsv = g.rsv
    BY <2>2, Zenon DEF parseWebsocketFrameHeader
  <2>4. readProxyWebsocketFrame(wire) = [op |-> parsed.op, fin |-> parsed.fin, rsv |-> parsed.rsv,
                                         length |-> parsed.length, text |-> g.text]
    BY <1>5 DEF readProxyWebsocketFrame
  <2>5. parsed.length = n
    BY <1>8
  <2> HIDE DEF parsed
  <2> QED BY <2>1, <2>3, <2>4, <2>5
<1> QED BY <1>10, <1>11, <1>12 DEF wire, n

----------------------------------------------------------------------------
(* Messages read from frames, one frame after the other.                        *)

FrameSet == [op : Ops, fin : BOOLEAN, rsv : BOOLEAN, text : Texts]
DataSet == [op : {"text", "binary"}, rsv : BOOLEAN, text : Texts]
ControlSet == [op : Control, rsv : BOOLEAN, text : Texts]
ReaderSet ==
    [open : DataSet \union {NoMessage}, data : Seq(DataSet), control : Seq(ControlSet)]

Reading == INSTANCE FoldFacts WITH Op <- ReadFrame

LEMMA ReadFold ==
    ASSUME NEW log
    PROVE  Read(log) = Reading!Fold(Start, log)
  BY DEF Read, Reading!Fold, FoldLeft, Reading!FoldLeft, MapThenFoldSet, Reading!MapThenFoldSet,
         Max, Reading!Max

LEMMA ReadNothing == Read(<<>>) = Start
  BY ReadFold, Reading!FoldNothing

LEMMA ReadAppend ==
    ASSUME NEW log \in Seq(FrameSet), NEW f \in FrameSet
    PROVE  Read(Append(log, f)) = ReadFrame(Read(log), f)
  BY ReadFold, Reading!FoldAppend

\* A frame that keeps to the protocol after what was read.
Follows(open, f) ==
    /\ f.op = "cont" => open.op # "none"
    /\ f.op \in {"text", "binary"} => open.op = "none"
    /\ f.op \in Control => f.fin /\ Bytes(f.text.pieces) <= 125

NoClose(log) == \A i \in DOMAIN log : log[i].op # "close"

LEMMA ValidNothing == Valid(<<>>)
  BY DEF Valid

LEMMA ValidAppend ==
    ASSUME NEW log \in Seq(FrameSet), NEW f \in FrameSet
    PROVE  Valid(Append(log, f)) <=> Valid(log) /\ NoClose(log) /\ Follows(Read(log).open, f)
<1> DEFINE Fine(l, i) ==
              /\ Follows(Read(SubSeq(l, 1, i - 1)).open, l[i])
              /\ l[i].op = "close" => i = Len(l)
           more == Append(log, f)
<1>1. \A l : Valid(l) <=> \A i \in DOMAIN l : Fine(l, i)
  BY Zenon DEF Valid, Follows
<1>2. PICK n \in Nat : n = Len(log) /\ DOMAIN log = 1..n
  OBVIOUS
<1>3. DOMAIN more = 1..(n + 1) /\ Len(more) = n + 1 /\ more[n + 1] = f
  BY <1>2
<1>4. \A i \in 1..n : more[i] = log[i]
  BY <1>2
<1>5. \A i \in 1..n : SubSeq(more, 1, i - 1) = SubSeq(log, 1, i - 1)
  BY <1>2, <1>4
<1>6. SubSeq(more, 1, (n + 1) - 1) = log
  BY <1>2, <1>4
<1> HIDE DEF more
<1>7. Fine(more, n + 1) <=> Follows(Read(log).open, f)
  BY <1>3, <1>6
<1>8. \A i \in 1..n : Fine(more, i) <=> Follows(Read(SubSeq(log, 1, i - 1)).open, log[i])
                                        /\ log[i].op # "close"
  <2>1. \A i \in 1..n : i # n + 1
    OBVIOUS
  <2> QED BY <1>3, <1>4, <1>5, <2>1
<1>9. (\A i \in 1..(n + 1) : Fine(more, i)) <=> (\A i \in 1..n : Fine(more, i)) /\ Fine(more, n + 1)
  <2> HIDE DEF Fine
  <2>1. \A i : i \in 1..(n + 1) <=> i \in 1..n \/ i = n + 1
    OBVIOUS
  <2> QED BY <2>1, Zenon
<1>10. (\A i \in 1..n : Fine(more, i)) <=> Valid(log) /\ NoClose(log)
  <2>1. Valid(log) <=> \A i \in 1..n : Fine(log, i)
    BY <1>1, <1>2
  <2> QED BY <1>2, <1>8, <2>1 DEF NoClose
<1>11. Valid(more) <=> \A i \in 1..(n + 1) : Fine(more, i)
  BY <1>1, <1>3
<1> QED BY <1>7, <1>9, <1>10, <1>11 DEF more

\* The message a frame starts or continues.
Continued(open, f) ==
    IF f.op = "cont" THEN [open EXCEPT !.text.pieces = @ \o f.text.pieces]
    ELSE [op |-> f.op, rsv |-> f.rsv, text |-> f.text]

LEMMA ContinuedType ==
    ASSUME NEW open \in DataSet \union {NoMessage}, NEW f \in FrameSet, Follows(open, f)
    PROVE  /\ f.op \in Control => Continued(open, f) \in ControlSet
           /\ f.op \notin Control => Continued(open, f) \in DataSet
           /\ f.op = "cont" =>
                /\ open \in DataSet
                /\ Continued(open, f) = [op |-> open.op, rsv |-> open.rsv,
                                         text |-> [pieces |-> open.text.pieces \o f.text.pieces,
                                                   tool |-> open.text.tool]]
<1>1. CASE f.op = "cont"
  <2>1. open # NoMessage
    BY <1>1 DEF Follows, NoMessage
  <2>2. open \in DataSet /\ f.text.pieces \in Seq(Pieces)
    BY <2>1 DEF FrameSet, Texts
  <2>3. open.text \in Texts /\ open.text.pieces \in Seq(Pieces) /\ open.text.tool \in BOOLEAN
    BY <2>2 DEF DataSet, Texts
  <2>4. Continued(open, f) = [open EXCEPT !.text = [open.text EXCEPT !.pieces =
                                            open.text.pieces \o f.text.pieces]]
    BY <1>1, Zenon DEF Continued
  <2>5. [open.text EXCEPT !.pieces = open.text.pieces \o f.text.pieces] =
            [pieces |-> open.text.pieces \o f.text.pieces, tool |-> open.text.tool]
    <3>1. \A t \in Texts : \A p : [t EXCEPT !.pieces = p] = [pieces |-> p, tool |-> t.tool]
      BY DEF Texts
    <3> QED BY <2>3, <3>1
  <2>6. Continued(open, f) = [op |-> open.op, rsv |-> open.rsv,
                              text |-> [pieces |-> open.text.pieces \o f.text.pieces,
                                        tool |-> open.text.tool]]
    BY <2>2, <2>4, <2>5 DEF DataSet
  <2>7. open.text.pieces \o f.text.pieces \in Seq(Pieces)
    BY <2>2, <2>3
  <2>8. Continued(open, f) \in DataSet
    BY <2>2, <2>3, <2>6, <2>7 DEF DataSet, Texts
  <2> QED BY <1>1, <2>2, <2>6, <2>8 DEF Control
<1>2. CASE f.op # "cont"
  BY <1>2 DEF Continued, FrameSet, Ops, Control, ControlSet, DataSet
<1> QED BY <1>1, <1>2

LEMMA ReadNext ==
    ASSUME NEW state \in ReaderSet, NEW f \in FrameSet, Follows(state.open, f)
    PROVE  LET message == Continued(state.open, f)
           IN /\ ReadFrame(state, f) \in ReaderSet
              /\ f.op \in Control =>
                    ReadFrame(state, f) = [open |-> state.open, data |-> state.data,
                                           control |-> Append(state.control, message)]
              /\ f.op \notin Control /\ f.fin =>
                    ReadFrame(state, f) = [open |-> NoMessage,
                                           data |-> Append(state.data, message),
                                           control |-> state.control]
              /\ f.op \notin Control /\ ~f.fin =>
                    ReadFrame(state, f) = [open |-> message, data |-> state.data,
                                           control |-> state.control]
<1> DEFINE message == Continued(state.open, f)
<1>1. /\ state.open \in DataSet \union {NoMessage}
      /\ state.data \in Seq(DataSet) /\ state.control \in Seq(ControlSet)
      /\ state = [open |-> state.open, data |-> state.data, control |-> state.control]
  BY DEF ReaderSet
<1>2. /\ f.op \in Control => message \in ControlSet
      /\ f.op \notin Control => message \in DataSet
  BY <1>1, ContinuedType
<1>3. ReadFrame(state, f) =
        IF f.op \in Control THEN [state EXCEPT !.control = Append(@, message)]
        ELSE IF f.fin THEN [state EXCEPT !.open = NoMessage, !.data = Append(@, message)]
        ELSE [state EXCEPT !.open = message]
  BY DEF ReadFrame, Continued
<1> HIDE DEF message
<1>4. /\ f.op \in Control =>
            ReadFrame(state, f) = [open |-> state.open, data |-> state.data,
                                   control |-> Append(state.control, message)]
      /\ f.op \notin Control /\ f.fin =>
            ReadFrame(state, f) = [open |-> NoMessage,
                                   data |-> Append(state.data, message),
                                   control |-> state.control]
      /\ f.op \notin Control /\ ~f.fin =>
            ReadFrame(state, f) = [open |-> message, data |-> state.data,
                                   control |-> state.control]
  BY <1>1, <1>3
<1>5. ReadFrame(state, f) \in ReaderSet
  <2>1. \A S : \A s \in Seq(S), x \in S : Append(s, x) \in Seq(S)
    OBVIOUS
  <2>2. /\ f.op \in Control => Append(state.control, message) \in Seq(ControlSet)
        /\ f.op \notin Control => Append(state.data, message) \in Seq(DataSet)
    BY <1>1, <1>2, <2>1, Zenon
  <2>3. \A o, d, c : /\ o \in DataSet \union {NoMessage}
                     /\ d \in Seq(DataSet) /\ c \in Seq(ControlSet)
                     => [open |-> o, data |-> d, control |-> c] \in ReaderSet
    BY DEF ReaderSet
  <2>4. CASE f.op \in Control
    BY <1>1, <1>4, <2>2, <2>3, <2>4
  <2>5. CASE f.op \notin Control /\ f.fin
    BY <1>1, <1>4, <2>2, <2>3, <2>5
  <2>6. CASE f.op \notin Control /\ ~f.fin
    BY <1>1, <1>2, <1>4, <2>3, <2>6
  <2> QED BY <2>4, <2>5, <2>6, Zenon DEF FrameSet
<1> QED BY <1>4, <1>5 DEF message

----------------------------------------------------------------------------
(* What upstream has read, to what the client has said.                         *)

Unreserved(m) == m.op = "text" /\ ~m.rsv

Injected(m) ==
    IF Unreserved(m) THEN [m EXCEPT !.text.tool = Changes(m.text.pieces)] ELSE m

Injections(data) == [i \in DOMAIN data |-> Injected(data[i])]

\* The frame WriteInjected writes.
Final(payload) ==
    [op |-> "text", fin |-> TRUE, rsv |-> FALSE,
     text |-> [pieces |-> payload, tool |-> Changes(payload)]]

Unfinished(payload) ==
    [op |-> "text", rsv |-> FALSE, text |-> [pieces |-> payload, tool |-> FALSE]]

\* Upstream has the client's messages; of the one that is being fragmented it has
\* as much, or nothing at all while its fragments are kept.
Link(from, to, buffering, fragments) ==
    /\ to.control = from.control
    /\ to.data = Injections(from.data)
    /\ buffering => from.open = Unfinished(fragments) /\ to.open = NoMessage
    /\ ~buffering => to.open = from.open /\ ~Unreserved(from.open)

\* A sequence mapped element by element, and one element more.
Mapped(a, s) == [i \in DOMAIN s |-> a[s[i]]]

LEMMA AppendIs ==
    ASSUME NEW S, NEW n \in Nat, NEW t \in Seq(S), Len(t) = n, NEW x \in S
    PROVE  Append(t, x) = [i \in 1..(n + 1) |-> IF i = n + 1 THEN x ELSE t[i]]
<1> DEFINE a == Append(t, x)
<1>1. a \in Seq(S) /\ Len(a) = n + 1
  OBVIOUS
<1>2. a = [i \in 1..(n + 1) |-> a[i]]
  <2> HIDE DEF a
  <2> QED BY <1>1
<1>3. a[n + 1] = x /\ \A i \in 1..n : a[i] = t[i]
  OBVIOUS
<1>4. \A i \in 1..(n + 1) : i = n + 1 \/ (i # n + 1 /\ i \in 1..n)
  OBVIOUS
<1> HIDE DEF a
<1>5. \A i \in 1..(n + 1) : a[i] = IF i = n + 1 THEN x ELSE t[i]
  BY <1>3, <1>4
<1> QED BY <1>2, <1>5, Zenon DEF a

LEMMA MappedType ==
    ASSUME NEW S, NEW T, NEW a \in [S -> T], NEW s \in Seq(S)
    PROVE  Mapped(a, s) \in Seq(T) /\ Len(Mapped(a, s)) = Len(s)
<1> DEFINE m == Mapped(a, s)
<1>1. PICK n \in Nat : n = Len(s) /\ DOMAIN s = 1..n
  OBVIOUS
<1>2. m = [i \in 1..n |-> a[s[i]]]
  BY <1>1 DEF Mapped
<1>3. \A i \in 1..n : s[i] \in S
  BY <1>1
<1> HIDE DEF m
<1>4. m \in [1..n -> T]
  BY <1>2, <1>3
<1>5. m \in Seq(T) /\ Len(m) = n
  BY <1>4
<1> QED BY <1>1, <1>5 DEF m

LEMMA MappedAppend ==
    ASSUME NEW S, NEW T, NEW a \in [S -> T], NEW s \in Seq(S), NEW x \in S,
           NEW m \in Seq(T), m = Mapped(a, s)
    PROVE  Mapped(a, Append(s, x)) = Append(m, a[x])
<1> DEFINE more == Append(s, x)
<1>1. PICK n \in Nat : n = Len(s) /\ DOMAIN s = 1..n
  OBVIOUS
<1>2. m = [i \in 1..n |-> a[s[i]]]
  BY <1>1 DEF Mapped
<1>3. Len(m) = n
  BY <1>1, MappedType
<1>4. DOMAIN more = 1..(n + 1) /\ more[n + 1] = x /\ \A i \in 1..n : more[i] = s[i]
  BY <1>1
<1>5. Mapped(a, more) = [i \in 1..(n + 1) |-> a[more[i]]]
  BY <1>4 DEF Mapped
<1> HIDE DEF more
<1>6. Append(m, a[x]) = [i \in 1..(n + 1) |-> IF i = n + 1 THEN a[x] ELSE m[i]]
  BY <1>3, AppendIs
<1>7. \A i \in 1..(n + 1) : i = n + 1 \/ (i # n + 1 /\ i \in 1..n)
  OBVIOUS
<1>8. \A i \in 1..(n + 1) : a[more[i]] = IF i = n + 1 THEN a[x] ELSE m[i]
  BY <1>2, <1>4, <1>7
<1> QED BY <1>5, <1>6, <1>8, Zenon DEF more

LEMMA InjectionsAppend ==
    ASSUME NEW d \in Seq(DataSet), NEW m \in DataSet
    PROVE  Injections(Append(d, m)) = Append(Injections(d), Injected(m))
<1> DEFINE a == [x \in DataSet |-> Injected(x)]
<1>1. a \in [DataSet -> {Injected(x) : x \in DataSet}]
  OBVIOUS
<1>2. a[m] = Injected(m)
  OBVIOUS
<1>3. \A s \in Seq(DataSet) : Injections(s) = Mapped(a, s)
  <2> SUFFICES ASSUME NEW s \in Seq(DataSet) PROVE Injections(s) = Mapped(a, s)
    OBVIOUS
  <2>1. \A i \in DOMAIN s : s[i] \in DataSet
    OBVIOUS
  <2>2. \A i \in DOMAIN s : a[s[i]] = Injected(s[i])
    BY <2>1
  <2> HIDE DEF a
  <2> QED BY <2>2, Zenon DEF Mapped, Injections
<1> HIDE DEF a
<1>4. PICK T : a \in [DataSet -> T]
  BY <1>1
<1>5. PICK b \in Seq(T) : b = Mapped(a, d)
  BY <1>4, MappedType
<1>6. Mapped(a, Append(d, m)) = Append(b, a[m])
  BY <1>4, <1>5, MappedAppend
<1>7. Append(d, m) \in Seq(DataSet)
  OBVIOUS
<1> QED BY <1>2, <1>3, <1>5, <1>6, <1>7, Zenon

LEMMA InjectedText ==
    ASSUME NEW payload \in Seq(Pieces)
    PROVE  Injected(Unfinished(payload)) =
                [op |-> "text", rsv |-> FALSE, text |-> [pieces |-> payload, tool |-> Changes(payload)]]
  BY DEF Injected, Unreserved, Unfinished

LEMMA NotNoMessage ==
    /\ NoMessage.op = "none" /\ ~Unreserved(NoMessage)
    /\ \A m \in DataSet : m.op # "none" /\ m # NoMessage
  BY DEF NoMessage, Unreserved, DataSet

LEMMA ContinuedReserved ==
    ASSUME NEW open \in DataSet \union {NoMessage}, NEW g \in FrameSet, Follows(open, g),
           ~Unreserved(open), ~Unreserved(g)
    PROVE  ~Unreserved(Continued(open, g))
<1> DEFINE m == Continued(open, g)
<1>1. CASE g.op = "cont"
  <2>1. m = [op |-> open.op, rsv |-> open.rsv,
             text |-> [pieces |-> open.text.pieces \o g.text.pieces, tool |-> open.text.tool]]
    BY <1>1, ContinuedType
  <2> HIDE DEF m
  <2>2. ~Unreserved(m)
    BY <2>1 DEF Unreserved
  <2> QED BY <2>2 DEF m
<1>2. CASE g.op # "cont"
  BY <1>2 DEF Continued, Unreserved
<1> QED BY <1>1, <1>2

\* Frames that are passed on: all but those of a text message without reserved
\* bits, and control frames also while the fragments of one are kept.
LEMMA LinkPassed ==
    ASSUME NEW from \in ReaderSet, NEW to \in ReaderSet, NEW buffering \in BOOLEAN,
           NEW fragments \in Seq(Pieces),
           Link(from, to, buffering, fragments),
           NEW g \in FrameSet, Follows(from.open, g),
           ~Unreserved(g), buffering => g.op \in Control
    PROVE  /\ Follows(to.open, g)
           /\ Link(ReadFrame(from, g), ReadFrame(to, g), buffering, fragments)
<1>1. CASE g.op \in Control
  <2>1. Follows(to.open, g)
    BY <1>1 DEF Follows, Control
  <2>2. /\ ReadFrame(from, g) = [open |-> from.open, data |-> from.data,
                                 control |-> Append(from.control, Continued(from.open, g))]
        /\ ReadFrame(to, g) = [open |-> to.open, data |-> to.data,
                               control |-> Append(to.control, Continued(to.open, g))]
    BY <1>1, <2>1, ReadNext
  <2>3. Continued(from.open, g) = Continued(to.open, g)
    BY <1>1 DEF Continued, Control
  <2> QED BY <2>1, <2>2, <2>3 DEF Link
<1>2. CASE g.op \notin Control
  <2>1. ~buffering /\ to.open = from.open /\ ~Unreserved(from.open)
    BY <1>2 DEF Link
  <2> DEFINE m == Continued(from.open, g)
  <2>2. m \in DataSet
    BY <1>2, ContinuedType DEF ReaderSet
  <2>3. ~Unreserved(m)
    BY <2>1, ContinuedReserved DEF ReaderSet
  <2>4. Injected(m) = m
    BY <2>3 DEF Injected
  <2> HIDE DEF m
  <2>5. CASE g.fin
    <3>1. /\ ReadFrame(from, g) = [open |-> NoMessage, data |-> Append(from.data, m),
                                   control |-> from.control]
          /\ ReadFrame(to, g) = [open |-> NoMessage, data |-> Append(to.data, m),
                                 control |-> to.control]
      BY <1>2, <2>1, <2>5, ReadNext DEF m
    <3>2. Injections(Append(from.data, m)) = Append(Injections(from.data), m)
      BY <2>2, <2>4, InjectionsAppend DEF ReaderSet
    <3> QED BY <2>1, <3>1, <3>2, NotNoMessage DEF Link
  <2>6. CASE ~g.fin
    <3>1. /\ ReadFrame(from, g) = [open |-> m, data |-> from.data, control |-> from.control]
          /\ ReadFrame(to, g) = [open |-> m, data |-> to.data, control |-> to.control]
      BY <1>2, <2>1, <2>6, ReadNext DEF m
    <3> QED BY <2>1, <2>3, <3>1 DEF Link
  <2> QED BY <2>5, <2>6
<1> QED BY <1>1, <1>2

\* The fragments of a text message, the first and those that follow, make up what
\* is open of it.
LEMMA TextContinued ==
    ASSUME NEW from \in ReaderSet, NEW to \in ReaderSet, NEW buffering \in BOOLEAN,
           NEW fragments \in Seq(Pieces),
           Link(from, to, buffering, fragments),
           NEW g \in FrameSet, Follows(from.open, g), ~g.text.tool,
           Unreserved(g) \/ (buffering /\ g.op = "cont")
    PROVE  LET payload == IF g.op = "cont" THEN fragments \o g.text.pieces ELSE g.text.pieces
           IN /\ payload \in Seq(Pieces)
              /\ Continued(from.open, g) = Unfinished(payload)
              /\ to.open = NoMessage
<1>1. g.text = [pieces |-> g.text.pieces, tool |-> FALSE] /\ g.text.pieces \in Seq(Pieces)
  BY DEF FrameSet, Texts
<1>2. CASE g.op = "cont"
  <2>1. from.open = Unfinished(fragments) /\ to.open = NoMessage
    BY <1>2 DEF Link, Unreserved
  <2>2. Continued(from.open, g) = [op |-> from.open.op, rsv |-> from.open.rsv,
                                   text |-> [pieces |-> from.open.text.pieces \o g.text.pieces,
                                             tool |-> from.open.text.tool]]
    BY <1>2, ContinuedType DEF ReaderSet
  <2>3. /\ from.open.op = "text" /\ from.open.rsv = FALSE
        /\ from.open.text.pieces = fragments /\ from.open.text.tool = FALSE
    BY <2>1 DEF Unfinished
  <2>4. fragments \o g.text.pieces \in Seq(Pieces)
    BY <1>1
  <2> QED BY <1>2, <2>1, <2>2, <2>3, <2>4 DEF Unfinished
<1>3. CASE g.op # "cont"
  <2>1. g.op = "text" /\ ~g.rsv
    BY <1>3 DEF Unreserved
  <2>2. from.open.op = "none"
    BY <2>1 DEF Follows
  <2>3. from.open = NoMessage
    BY <2>2, NotNoMessage DEF ReaderSet
  <2>4. ~buffering
    BY <2>2 DEF Link, Unfinished
  <2>5. to.open = NoMessage
    BY <2>3, <2>4 DEF Link
  <2>6. Continued(from.open, g) = [op |-> "text", rsv |-> g.rsv, text |-> g.text]
    BY <1>3, <2>1 DEF Continued
  <2>7. g.rsv = FALSE
    BY <2>1 DEF FrameSet
  <2> QED BY <1>1, <1>3, <2>5, <2>6, <2>7 DEF Unfinished
<1> QED BY <1>2, <1>3

\* A fragment is kept.
LEMMA LinkBuffered ==
    ASSUME NEW from \in ReaderSet, NEW to \in ReaderSet, NEW buffering \in BOOLEAN,
           NEW fragments \in Seq(Pieces),
           Link(from, to, buffering, fragments),
           NEW g \in FrameSet, Follows(from.open, g), ~g.text.tool,
           Unreserved(g) \/ (buffering /\ g.op = "cont"), ~g.fin,
           NEW payload,
           payload = IF g.op = "cont" THEN fragments \o g.text.pieces ELSE g.text.pieces
    PROVE  Link(ReadFrame(from, g), to, TRUE, payload)
<1>1. Continued(from.open, g) = Unfinished(payload) /\ to.open = NoMessage
  BY TextContinued
<1>2. g.op \notin Control
  BY DEF Unreserved, Control
<1>3. ReadFrame(from, g) = [open |-> Unfinished(payload), data |-> from.data,
                            control |-> from.control]
  BY <1>1, <1>2, ReadNext
<1> QED BY <1>1, <1>3 DEF Link

\* A text message is complete, and leaves as one frame.
LEMMA LinkInjected ==
    ASSUME NEW from \in ReaderSet, NEW to \in ReaderSet, NEW buffering \in BOOLEAN,
           NEW fragments \in Seq(Pieces),
           Link(from, to, buffering, fragments),
           NEW g \in FrameSet, Follows(from.open, g), ~g.text.tool,
           Unreserved(g) \/ (buffering /\ g.op = "cont"), g.fin,
           NEW payload,
           payload = IF g.op = "cont" THEN fragments \o g.text.pieces ELSE g.text.pieces
    PROVE  /\ Final(payload) \in FrameSet
           /\ Follows(to.open, Final(payload))
           /\ \A kept : Link(ReadFrame(from, g), ReadFrame(to, Final(payload)), FALSE, kept)
<1> DEFINE w == Final(payload)
           m == Unfinished(payload)
<1>1. /\ payload \in Seq(Pieces)
      /\ Continued(from.open, g) = m /\ to.open = NoMessage
  BY TextContinued
<1>2. g.op \notin Control
  BY DEF Unreserved, Control
<1>3. w \in FrameSet
  BY <1>1 DEF Final, FrameSet, Ops, Texts, Changes
<1>4. Follows(to.open, w)
  BY <1>1 DEF Follows, Final, NoMessage, Control
<1>5. m \in DataSet
  BY <1>1 DEF Unfinished, DataSet, Texts
<1>6. Continued(to.open, w) = Injected(m)
  BY <1>1, InjectedText DEF Continued, Final
<1>7. ReadFrame(from, g) = [open |-> NoMessage, data |-> Append(from.data, m),
                            control |-> from.control]
  BY <1>1, <1>2, ReadNext
<1>8. w.op \notin Control /\ w.fin
  BY DEF Final, Control
<1> HIDE DEF m, w
<1>9. ReadFrame(to, w) = [open |-> NoMessage, data |-> Append(to.data, Injected(m)),
                          control |-> to.control]
  BY <1>3, <1>4, <1>6, <1>8, ReadNext
<1>10. Injections(Append(from.data, m)) = Append(Injections(from.data), Injected(m))
  BY <1>5, InjectionsAppend DEF ReaderSet
<1>11. ASSUME NEW kept PROVE Link(ReadFrame(from, g), ReadFrame(to, w), FALSE, kept)
  BY <1>7, <1>9, <1>10, NotNoMessage DEF Link
<1> QED BY <1>3, <1>4, <1>11 DEF w

----------------------------------------------------------------------------
(* The message the last frame belongs to.                                       *)

Latest(from) ==
    IF from.open = NoMessage
    THEN IF from.data = <<>> THEN NoMessage ELSE Last(from.data)
    ELSE from.open

LEMMA LatestNext ==
    ASSUME NEW from \in ReaderSet, NEW g \in FrameSet, Follows(from.open, g)
    PROVE  /\ g.op \in Control => Latest(ReadFrame(from, g)) = Latest(from)
           /\ g.op \notin Control => Latest(ReadFrame(from, g)) = Continued(from.open, g)
<1> DEFINE m == Continued(from.open, g)
<1>1. CASE g.op \in Control
  BY <1>1, ReadNext DEF Latest
<1>2. CASE g.op \notin Control
  <2>1. m \in DataSet
    BY <1>2, ContinuedType DEF ReaderSet
  <2>2. m # NoMessage
    BY <2>1, NotNoMessage
  <2>3. CASE g.fin
    <3>1. ReadFrame(from, g) = [open |-> NoMessage, data |-> Append(from.data, m),
                                control |-> from.control]
      BY <1>2, <2>3, ReadNext
    <3> HIDE DEF m
    <3>2. \A S : \A d \in Seq(S), x \in S : Append(d, x) # <<>> /\ Last(Append(d, x)) = x
      BY DEF Last
    <3>3. Append(from.data, m) # <<>> /\ Last(Append(from.data, m)) = m
      BY <2>1, <3>2 DEF ReaderSet
    <3> QED BY <1>2, <3>1, <3>3 DEF Latest, m
  <2>4. CASE ~g.fin
    <3>1. ReadFrame(from, g) = [open |-> m, data |-> from.data, control |-> from.control]
      BY <1>2, <2>4, ReadNext
    <3> HIDE DEF m
    <3> QED BY <1>2, <2>2, <3>1 DEF Latest, m
  <2> QED BY <2>3, <2>4
<1> QED BY <1>1, <1>2

----------------------------------------------------------------------------
(* The inductive invariant.                                                     *)

From == Read(Sent)
To == Read(Got)

FitsAll(m) == Bytes(m.text.pieces) <= MaxBytes

Typed ==
    /\ injecting \in BOOLEAN
    /\ copy \in {"running", "closed", "failed"}
    /\ bufferingText \in BOOLEAN
    /\ textFragments \in Seq(Pieces) /\ Bytes(textFragments) <= MaxBytes
    /\ sent \in Seq(Frames)
    /\ out \in Seq(Wires)

\* Where nothing is injected, upstream has what the client sent.
Raw == ~injecting => copy = "running" /\ Got = Sent

\* What upstream has is well formed, and can go on while the copy runs.
Sound ==
    /\ injecting /\ copy = "running" => NoClose(Got)
    /\ Valid(Sent) => From \in ReaderSet /\ To \in ReaderSet /\ Valid(Got)

\* While it runs and when it ended well, upstream is behind by what is buffered,
\* and the message of the last frame fits if it is one that is injected.
Behind ==
    injecting /\ Valid(Sent) /\ copy # "failed" =>
        /\ Link(From, To, bufferingText, textFragments)
        /\ Unreserved(Latest(From)) => FitsAll(Latest(From))

\* When it failed, that message does not fit.
Failed == injecting /\ Valid(Sent) /\ copy = "failed" => ~FitsAll(Latest(From))

InjectInv == Typed /\ Raw /\ Sound /\ Behind /\ Failed

----------------------------------------------------------------------------
(* What a step does to what was sent and written.                               *)

LEMMA FitsBelow ==
    ASSUME NEW a \in Nat, NEW b \in Nat, a <= b, FitsUint64(b)
    PROVE  FitsUint64(a)
<1>1. \A x, y \in Nat : x <= y => x \div 65536 \in Nat /\ y \div 65536 \in Nat
                                  /\ x \div 65536 <= y \div 65536
  OBVIOUS
<1>2. PICK a1, b1 \in Nat : a1 = a \div 65536 /\ b1 = b \div 65536 /\ a1 <= b1
  BY <1>1
<1>3. PICK a2, b2 \in Nat : a2 = a1 \div 65536 /\ b2 = b1 \div 65536 /\ a2 <= b2
  BY <1>1, <1>2
<1>4. PICK a3, b3 \in Nat : a3 = a2 \div 65536 /\ b3 = b2 \div 65536 /\ a3 <= b3
  BY <1>1, <1>3
<1>5. b3 < 65536
  BY <1>2, <1>3, <1>4 DEF FitsUint64
<1>6. a3 < 65536
  BY <1>4, <1>5
<1> QED BY <1>2, <1>3, <1>4, <1>6 DEF FitsUint64

LEMMA FrameWhole ==
    ASSUME NEW f \in Frames
    PROVE  LET g == Frame(f, FALSE)
           IN /\ g \in Whole /\ g \in FrameSet /\ ~g.text.tool
              /\ TextLength(g.text) = Bytes(g.text.pieces)
              /\ g.text.pieces = f.payload /\ Bytes(g.text.pieces) \in Nat
<1> DEFINE g == Frame(f, FALSE)
<1>1. /\ f.op \in Ops /\ f.fin \in BOOLEAN /\ f.rsv \in BOOLEAN
      /\ f.payload \in Seq(Pieces) /\ FitsUint64(Bytes(f.payload))
  BY FramesAssumption, SizesAssumption, PayloadPieces DEF Ops
<1>2. g = [op |-> f.op, fin |-> f.fin, rsv |-> f.rsv,
           text |-> [pieces |-> f.payload, tool |-> FALSE]]
  BY DEF Frame
<1>3. Bytes(f.payload) \in Nat
  BY <1>1, BytesConcat
<1> HIDE DEF g
<1>4. g.text = [pieces |-> f.payload, tool |-> FALSE]
  BY <1>2
<1>5. g.text.pieces = f.payload /\ g.text.tool = FALSE
  BY <1>4
<1>6. TextLength(g.text) = Bytes(f.payload)
  BY <1>3, <1>4 DEF TextLength
<1>7. [pieces |-> f.payload, tool |-> FALSE] \in Texts
  BY <1>1 DEF Texts
<1>8. g \in FrameSet
  BY <1>1, <1>2, <1>7 DEF FrameSet
<1>9. g \in Whole
  BY <1>1, <1>6, <1>8 DEF Whole, FrameSet
<1> QED BY <1>3, <1>5, <1>6, <1>8, <1>9 DEF g

LEMMA FinalWhole ==
    ASSUME NEW payload \in Seq(Pieces), Bytes(payload) <= MaxBytes
    PROVE  Final(payload) \in Whole
<1> DEFINE text == [pieces |-> payload, tool |-> Changes(payload)]
<1>1. text \in Texts
  BY DEF Texts, Changes
<1>2. TextLength(text) \in Nat
  BY <1>1, TextLengthIs
<1>3. TextLength(text) <= MaxBytes + ToolSize
  BY BytesConcat, BoundsAssumption DEF TextLength
<1>4. FitsUint64(TextLength(text))
  BY <1>2, <1>3, FitsBelow, BoundsAssumption
<1> QED BY <1>1, <1>4 DEF Final, Whole, Ops

LEMMA SentNext ==
    ASSUME sent \in Seq(Frames), NEW f \in Frames, sent' = Append(sent, f)
    PROVE  Sent \in Seq(FrameSet) /\ Sent' = Append(Sent, Frame(f, FALSE))
<1> DEFINE a == [x \in Frames |-> Frame(x, FALSE)]
<1>1. a \in [Frames -> FrameSet]
  BY FrameWhole
<1>2. a[f] = Frame(f, FALSE)
  OBVIOUS
<1>3. \A s \in Seq(Frames) : [i \in DOMAIN s |-> Frame(s[i], FALSE)] = Mapped(a, s)
  <2> SUFFICES ASSUME NEW s \in Seq(Frames) PROVE [i \in DOMAIN s |-> Frame(s[i], FALSE)] = Mapped(a, s)
    OBVIOUS
  <2>1. \A i \in DOMAIN s : s[i] \in Frames
    OBVIOUS
  <2>2. \A i \in DOMAIN s : a[s[i]] = Frame(s[i], FALSE)
    BY <2>1
  <2> HIDE DEF a
  <2> QED BY <2>2, Zenon DEF Mapped
<1>4. Append(sent, f) \in Seq(Frames)
  OBVIOUS
<1> HIDE DEF a
<1>5. Sent = Mapped(a, sent)
  BY <1>3 DEF Sent
<1>6. Sent' = Mapped(a, Append(sent, f))
  BY <1>3, <1>4 DEF Sent
<1>7. PICK b \in Seq(FrameSet) : b = Mapped(a, sent)
  BY <1>1, MappedType
<1>8. Mapped(a, Append(sent, f)) = Append(b, a[f])
  BY <1>1, <1>7, MappedAppend
<1> QED BY <1>2, <1>5, <1>6, <1>7, <1>8, Zenon

LEMMA GotNext ==
    ASSUME out \in Seq(Wires), NEW g \in Whole, NEW key \in {"client", "proxy"},
           out' = Append(out, buildProxyWebsocketFrame(g, key))
    PROVE  out' \in Seq(Wires) /\ Got \in Seq(FrameSet) /\ Got' = Append(Got, g)
<1> DEFINE w == buildProxyWebsocketFrame(g, key)
           a == [x \in Wires |-> FrameOn(x)]
<1>1. w \in Wires
  BY DEF Wires
<1>2. FrameOn(w) = g
  BY WireRead
<1>3. \A x \in Wires : FrameOn(x) \in FrameSet
  <2> SUFFICES ASSUME NEW h \in Whole, NEW k \in {"client", "proxy"}
               PROVE  FrameOn(buildProxyWebsocketFrame(h, k)) \in FrameSet
    BY DEF Wires
  <2>1. FrameOn(buildProxyWebsocketFrame(h, k)) = h
    BY WireRead
  <2> QED BY <2>1 DEF Whole, FrameSet
<1> HIDE DEF w
<1>4. a \in [Wires -> FrameSet]
  BY <1>3
<1>5. a[w] = g
  BY <1>1, <1>2
<1>6. out' = Append(out, w)
  BY DEF w
<1>7. out' \in Seq(Wires)
  BY <1>1, <1>6
<1>8. \A s \in Seq(Wires) : [i \in DOMAIN s |-> FrameOn(s[i])] = Mapped(a, s)
  <2> SUFFICES ASSUME NEW s \in Seq(Wires) PROVE [i \in DOMAIN s |-> FrameOn(s[i])] = Mapped(a, s)
    OBVIOUS
  <2>1. \A i \in DOMAIN s : s[i] \in Wires
    OBVIOUS
  <2>2. \A i \in DOMAIN s : a[s[i]] = FrameOn(s[i])
    BY <2>1
  <2> HIDE DEF a
  <2> QED BY <2>2, Zenon DEF Mapped
<1> HIDE DEF a
<1>9. Got = Mapped(a, out)
  BY <1>8 DEF Got
<1>10. Got' = Mapped(a, out')
  BY <1>7, <1>8 DEF Got
<1>11. PICK b \in Seq(FrameSet) : b = Mapped(a, out)
  BY <1>4, MappedType
<1>12. Mapped(a, Append(out, w)) = Append(b, a[w])
  BY <1>1, <1>4, <1>11, MappedAppend
<1> QED BY <1>5, <1>6, <1>7, <1>9, <1>10, <1>11, <1>12, Zenon

\* A frame arrives as it was sent.
LEMMA ArrivingIs ==
    ASSUME NEW f \in Frames
    PROVE  LET a == Arriving[f]
               g == Frame(f, FALSE)
           IN /\ a.op = g.op /\ a.fin = g.fin /\ a.rsv = g.rsv /\ a.text = g.text
              /\ a.length = Bytes(g.text.pieces)
              /\ buildProxyWebsocketFrame(a, "proxy") = buildProxyWebsocketFrame(g, "proxy")
<1> DEFINE g == Frame(f, FALSE)
           a == Arriving[f]
<1>1. g \in Whole /\ TextLength(g.text) = Bytes(g.text.pieces)
  BY FrameWhole
<1>2. a = readProxyWebsocketFrame(buildProxyWebsocketFrame(g, "client"))
  BY DEF Arriving, FromClient
<1> HIDE DEF g, a
<1>3. a.op = g.op /\ a.fin = g.fin /\ a.rsv = g.rsv /\ a.text = g.text
      /\ a.length = TextLength(g.text)
  BY <1>1, <1>2, WireRead
<1>4. buildProxyWebsocketFrame(a, "proxy") = buildProxyWebsocketFrame(g, "proxy")
  BY <1>3, Zenon DEF buildProxyWebsocketFrame
<1> QED BY <1>1, <1>3, <1>4 DEF g, a

\* The text so far, of a message whose fragments are kept.
Payload(g) ==
    IF g.op = "cont" THEN textFragments \o g.text.pieces ELSE g.text.pieces

OfText(g) == Unreserved(g) \/ (bufferingText /\ g.op = "cont")

\* The frame ends the copy: it is too large, or interrupts a text message.
Fails(g) ==
    /\ copy' = "failed" /\ UNCHANGED <<out, bufferingText, textFragments>>
    /\ \/ Bytes(g.text.pieces) > MaxBytes
       \/ bufferingText /\ g.op = "cont" /\ Bytes(Payload(g)) > MaxBytes
       \/ bufferingText /\ g.op = "binary"

\* It is passed on.
Passes(g) ==
    /\ out' = Append(out, buildProxyWebsocketFrame(g, "proxy"))
    /\ copy' = (IF g.op = "close" THEN "closed" ELSE "running")
    /\ UNCHANGED <<bufferingText, textFragments>>
    /\ ~Unreserved(g) /\ (bufferingText => g.op \in Control \union {"text"})
    /\ Bytes(g.text.pieces) <= MaxBytes

\* It is kept.
Keeps(g) ==
    /\ bufferingText' = TRUE /\ textFragments' = Payload(g) /\ out' = out /\ copy' = "running"
    /\ OfText(g) /\ ~g.fin
    /\ Bytes(Payload(g)) <= MaxBytes

\* It completes a text message, which is injected.
Completes(g) ==
    /\ out' = Append(out, buildProxyWebsocketFrame(Final(Payload(g)), "proxy"))
    /\ copy' = "running"
    /\ \/ bufferingText' = FALSE /\ textFragments' = <<>>
       \/ Unreserved(g) /\ UNCHANGED <<bufferingText, textFragments>>
    /\ OfText(g) /\ g.fin
    /\ Bytes(Payload(g)) <= MaxBytes

LEMMA ForwardIs ==
    ASSUME Typed, NEW f \in Frames, Forward(Arriving[f]), copy = "running"
    PROVE  LET g == Frame(f, FALSE) IN
           /\ injecting' = injecting
           /\ Fails(g) \/ Passes(g) \/ Keeps(g) \/ Completes(g)
<1> DEFINE g == Frame(f, FALSE)
           a == Arriving[f]
<1>1. /\ a.op = g.op /\ a.fin = g.fin /\ a.rsv = g.rsv /\ a.text = g.text
      /\ a.length = Bytes(g.text.pieces)
      /\ buildProxyWebsocketFrame(a, "proxy") = buildProxyWebsocketFrame(g, "proxy")
  BY ArrivingIs
<1>2. /\ g \in FrameSet /\ Bytes(g.text.pieces) \in Nat /\ MaxBytes \in Nat
      /\ g.op \in Ops /\ g.fin \in BOOLEAN /\ g.rsv \in BOOLEAN /\ g.text.pieces \in Seq(Pieces)
  BY FrameWhole, BoundsAssumption DEF FrameSet, Texts
<1>3. bufferingText \in BOOLEAN /\ textFragments \in Seq(Pieces)
  BY DEF Typed
<1>4. TooLarge(a) \/ (a.length <= MaxBytes /\ (Text(a) \/ Continuation(a) \/ Other(a)))
  BY DEF Forward
<1> HIDE DEF g, a
<1> SUFFICES injecting' = injecting /\ (Fails(g) \/ Passes(g) \/ Keeps(g) \/ Completes(g))
  BY DEF g
<1>5. CASE TooLarge(a)
  BY <1>1, <1>5 DEF TooLarge, Fail, Keep, Fails
<1>6. CASE a.length <= MaxBytes /\ Text(a)
  <2>1. g.op = "text" /\ Payload(g) = g.text.pieces /\ Bytes(g.text.pieces) <= MaxBytes
    BY <1>1, <1>6 DEF Text, Payload
  <2>2. CASE a.rsv /\ PassOn(a) /\ Keep("running")
    BY <1>1, <2>1, <2>2 DEF PassOn, Write, Keep, Passes, Unreserved
  <2>3. CASE /\ ~a.rsv /\ a.fin /\ WriteInjected(a.text.pieces)
             /\ Keep("running") /\ UNCHANGED <<bufferingText, textFragments>>
    BY <1>1, <2>1, <2>3 DEF WriteInjected, Write, Keep, Completes, Final, Unreserved, OfText
  <2>4. CASE ~a.rsv /\ ~a.fin /\ Buffer(a.text.pieces) /\ Keep("running")
    BY <1>1, <2>1, <2>4 DEF Buffer, Keep, Keeps, Unreserved, OfText
  <2> QED BY <1>6, <2>2, <2>3, <2>4 DEF Text
<1>7. CASE a.length <= MaxBytes /\ Continuation(a)
  <2> DEFINE whole == textFragments \o a.text.pieces
  <2>1. g.op = "cont" /\ Payload(g) = whole /\ Bytes(g.text.pieces) <= MaxBytes
    BY <1>1, <1>7 DEF Continuation, Payload
  <2>2. \/ ~Buffers(a) /\ PassOn(a) /\ Keep("running")
        \/ Buffers(a) /\ ~Fits(whole) /\ Fail
        \/ Buffers(a) /\ Fits(whole) /\ ~a.fin /\ Buffer(whole) /\ Keep("running")
        \/ Buffers(a) /\ Fits(whole) /\ a.fin /\ WriteInjected(whole) /\ StopBuffering
           /\ Keep("running")
    BY <1>7, Zenon DEF Continuation
  <2>3. whole \in Seq(Pieces)
    BY <1>1, <1>2, <1>3
  <2>4. Bytes(whole) \in Nat
    BY <2>3, BytesConcat
  <2> HIDE DEF whole
  <2>5. CASE ~Buffers(a) /\ PassOn(a) /\ Keep("running")
    BY <1>1, <2>1, <2>5 DEF Buffers, PassOn, Write, Keep, Passes, Unreserved
  <2>6. CASE Buffers(a) /\ ~Fits(whole) /\ Fail
    BY <1>2, <2>1, <2>4, <2>6 DEF Buffers, Fits, Fail, Keep, Fails
  <2>7. CASE Buffers(a) /\ Fits(whole) /\ ~a.fin /\ Buffer(whole) /\ Keep("running")
    BY <1>1, <2>1, <2>7 DEF Buffers, Fits, Buffer, Keep, Keeps, OfText
  <2>8. CASE Buffers(a) /\ Fits(whole) /\ a.fin /\ WriteInjected(whole) /\ StopBuffering
             /\ Keep("running")
    BY <1>1, <2>1, <2>8
       DEF Buffers, Fits, WriteInjected, Write, StopBuffering, Keep, Completes, OfText, Final
  <2> QED BY <2>2, <2>5, <2>6, <2>7, <2>8
<1>8. CASE a.length <= MaxBytes /\ Other(a)
  <2>1. g.op \in {"binary", "ping", "close"} /\ Bytes(g.text.pieces) <= MaxBytes
    BY <1>1, <1>8 DEF Other
  <2>2. CASE Interrupts(a)
    BY <1>1, <1>8, <2>2 DEF Other, Interrupts, Fail, Keep, Fails
  <2>3. CASE ~Interrupts(a)
    BY <1>1, <1>8, <2>1, <2>3
       DEF Other, Interrupts, PassOn, Write, Keep, Passes, Unreserved, Control
  <2> QED BY <2>2, <2>3
<1> QED BY <1>4, <1>5, <1>6, <1>7, <1>8

\* What the client said, by one frame more.
LEMMA SentStep ==
    ASSUME Typed, Sound, NEW f \in Frames, sent' = Append(sent, f)
    PROVE  LET g == Frame(f, FALSE) IN
           /\ sent' \in Seq(Frames) /\ Sent' = Append(Sent, g)
           /\ Valid(Sent') =>
                /\ Valid(Sent) /\ From \in ReaderSet /\ Follows(From.open, g)
                /\ From' = ReadFrame(From, g) /\ From' \in ReaderSet
                /\ g.op \in Control => Latest(From') = Latest(From)
                /\ g.op \notin Control => Latest(From') = Continued(From.open, g)
<1> DEFINE g == Frame(f, FALSE)
<1>1. g \in FrameSet
  BY FrameWhole
<1> HIDE DEF g
<1>2. sent' \in Seq(Frames)
  BY DEF Typed
<1>3. Sent \in Seq(FrameSet) /\ Sent' = Append(Sent, g)
  BY SentNext DEF Typed, g
<1>4. ASSUME Valid(Sent')
      PROVE  /\ Valid(Sent) /\ From \in ReaderSet /\ Follows(From.open, g)
             /\ From' = ReadFrame(From, g) /\ From' \in ReaderSet
             /\ g.op \in Control => Latest(From') = Latest(From)
             /\ g.op \notin Control => Latest(From') = Continued(From.open, g)
  <2>1. Valid(Append(Sent, g))
    BY <1>3, <1>4
  <2>2. Valid(Sent) /\ Follows(Read(Sent).open, g)
    BY <1>1, <1>3, <2>1, ValidAppend
  <2>3. From \in ReaderSet /\ Follows(From.open, g)
    BY <2>2 DEF Sound, From
  <2>4. From' = ReadFrame(From, g)
    BY <1>1, <1>3, ReadAppend DEF From
  <2>5. From' \in ReaderSet
    BY <1>1, <2>3, <2>4, ReadNext
  <2>6. /\ g.op \in Control => Latest(ReadFrame(From, g)) = Latest(From)
        /\ g.op \notin Control => Latest(ReadFrame(From, g)) = Continued(From.open, g)
    BY <1>1, <2>3, LatestNext
  <2> QED BY <2>2, <2>3, <2>4, <2>5, <2>6
<1> QED BY <1>2, <1>3, <1>4 DEF g

\* What upstream has, by one frame more.
LEMMA GotStep ==
    ASSUME Typed, Sound, NEW w \in Whole, NEW key \in {"client", "proxy"},
           out' = Append(out, buildProxyWebsocketFrame(w, key))
    PROVE  /\ out' \in Seq(Wires) /\ Got' = Append(Got, w)
           /\ NoClose(Got) /\ w.op # "close" => NoClose(Got')
           /\ Valid(Sent) /\ NoClose(Got) /\ Follows(To.open, w) =>
                Valid(Got') /\ To' = ReadFrame(To, w) /\ To' \in ReaderSet
<1>1. out' \in Seq(Wires) /\ Got \in Seq(FrameSet) /\ Got' = Append(Got, w)
  BY GotNext DEF Typed
<1>2. w \in FrameSet
  BY DEF Whole, FrameSet
<1>3. NoClose(Got) /\ w.op # "close" => NoClose(Append(Got, w))
  <2>1. PICK s \in Seq(FrameSet) : s = Got
    BY <1>1
  <2>2. (\A i \in DOMAIN s : s[i].op # "close") /\ w.op # "close" =>
            \A i \in DOMAIN Append(s, w) : Append(s, w)[i].op # "close"
    BY <1>2
  <2> QED BY <2>1, <2>2 DEF NoClose
<1>4. ASSUME Valid(Sent), NoClose(Got), Follows(To.open, w)
      PROVE  Valid(Got') /\ To' = ReadFrame(To, w) /\ To' \in ReaderSet
  <2>1. Valid(Got) /\ To \in ReaderSet
    BY <1>4 DEF Sound
  <2>2. Valid(Append(Got, w))
    BY <1>1, <1>2, <1>4, <2>1, ValidAppend DEF To
  <2>3. To' = ReadFrame(To, w)
    BY <1>1, <1>2, ReadAppend DEF To
  <2>4. To' \in ReaderSet
    BY <1>2, <1>4, <2>1, <2>3, ReadNext
  <2> QED BY <1>1, <2>2, <2>3, <2>4
<1> QED BY <1>1, <1>3, <1>4

----------------------------------------------------------------------------
(* The steps of a connection with injection.                                    *)

\* While fragments are kept, the message that is open is theirs.
LEMMA Buffering ==
    ASSUME Behind, injecting, Valid(Sent), copy = "running", bufferingText
    PROVE  From.open = Unfinished(textFragments) /\ From.open.op = "text"
           /\ To.open = NoMessage
  BY DEF Behind, Link, Unfinished

LEMMA FailsKeepsInv ==
    ASSUME InjectInv, injecting, copy = "running", injecting' = injecting,
           NEW f \in Frames, sent' = Append(sent, f), Fails(Frame(f, FALSE))
    PROVE  InjectInv'
<1> DEFINE g == Frame(f, FALSE)
<1>1. /\ sent' \in Seq(Frames)
      /\ Valid(Sent') =>
            /\ Valid(Sent) /\ From \in ReaderSet /\ Follows(From.open, g) /\ From' \in ReaderSet
            /\ g.op \notin Control => Latest(From') = Continued(From.open, g)
  BY SentStep DEF InjectInv
<1>2. /\ g \in FrameSet /\ Bytes(g.text.pieces) \in Nat
      /\ MaxBytes \in Nat /\ MaxBytes >= 125 /\ g.text.pieces \in Seq(Pieces)
  BY FrameWhole, BoundsAssumption DEF FrameSet, Texts
<1> HIDE DEF g
<1>3. /\ copy' = "failed" /\ out' = out /\ bufferingText' = bufferingText
      /\ textFragments' = textFragments
      /\ \/ Bytes(g.text.pieces) > MaxBytes
         \/ bufferingText /\ g.op = "cont" /\ Bytes(Payload(g)) > MaxBytes
         \/ bufferingText /\ g.op = "binary"
  BY DEF Fails, g
<1>4. Typed'
  BY <1>1, <1>3 DEF InjectInv, Typed
<1>5. Got' = Got /\ To' = To
  BY <1>3 DEF Got, To
<1>6. Sound'
  BY <1>1, <1>3, <1>5 DEF InjectInv, Sound
<1>7. ASSUME Valid(Sent') PROVE ~FitsAll(Latest(From'))
  <2>1. /\ Valid(Sent) /\ From \in ReaderSet /\ Follows(From.open, g)
        /\ g.op \notin Control => Latest(From') = Continued(From.open, g)
    BY <1>1, <1>7
  <2>2. bufferingText => From.open = Unfinished(textFragments) /\ From.open.op = "text"
    BY <2>1, Buffering DEF InjectInv
  <2>3. g.op \notin Control /\ ~(g.op = "binary" /\ bufferingText)
    <3>1. g.op \in Control => Bytes(g.text.pieces) <= 125
      BY <2>1 DEF Follows
    <3>2. g.op = "binary" => ~bufferingText
      BY <2>1, <2>2 DEF Follows
    <3>3. g.op \in Control => ~(Bytes(g.text.pieces) > MaxBytes)
      BY <1>2, <3>1
    <3> QED BY <1>3, <3>2, <3>3 DEF Control
  <2>4. Latest(From') = Continued(From.open, g)
    BY <2>1, <2>3
  <2>5. CASE g.op = "cont"
    <3> DEFINE open == From.open
               m == Continued(open, g)
    <3>1. open \in DataSet /\ m.text.pieces = open.text.pieces \o g.text.pieces
      <4>1. open \in DataSet \union {NoMessage}
        BY <2>1 DEF ReaderSet
      <4>2. open \in DataSet
            /\ m = [op |-> open.op, rsv |-> open.rsv,
                    text |-> [pieces |-> open.text.pieces \o g.text.pieces,
                              tool |-> open.text.tool]]
        BY <1>2, <2>1, <2>5, <4>1, ContinuedType
      <4> HIDE DEF m
      <4> QED BY <4>2
    <3>2. open.text.pieces \in Seq(Pieces)
      BY <3>1 DEF DataSet, Texts
    <3> HIDE DEF m, open
    <3>3. Bytes(m.text.pieces) = Bytes(open.text.pieces) + Bytes(g.text.pieces)
          /\ Bytes(open.text.pieces) \in Nat
      BY <1>2, <3>1, <3>2, BytesConcat
    <3>4. CASE Bytes(g.text.pieces) > MaxBytes
      <4>1. ~(Bytes(m.text.pieces) <= MaxBytes)
        BY <1>2, <3>3, <3>4
      <4> QED BY <2>4, <4>1 DEF FitsAll, m, open
    <3>5. CASE bufferingText /\ Bytes(Payload(g)) > MaxBytes
      <4>1. open.text.pieces = textFragments
        BY <2>2, <3>5 DEF Unfinished, open
      <4>2. Payload(g) = m.text.pieces
        BY <2>5, <3>1, <4>1 DEF Payload
      <4>3. ~(Bytes(m.text.pieces) <= MaxBytes)
        BY <1>2, <3>3, <3>5, <4>2
      <4> QED BY <2>4, <4>3 DEF FitsAll, m, open
    <3> QED BY <1>3, <2>5, <3>4, <3>5
  <2>6. CASE g.op # "cont"
    <3>1. Continued(From.open, g).text.pieces = g.text.pieces
      BY <2>6 DEF Continued
    <3>2. Bytes(g.text.pieces) > MaxBytes
      BY <1>3, <2>3, <2>6
    <3>3. ~(Bytes(g.text.pieces) <= MaxBytes)
      BY <1>2, <3>2
    <3> QED BY <2>4, <3>1, <3>3 DEF FitsAll
  <2> QED BY <2>5, <2>6
<1>8. Failed'
  BY <1>7 DEF Failed
<1>9. Raw' /\ Behind'
  BY <1>3 DEF Raw, Behind
<1> QED BY <1>4, <1>6, <1>8, <1>9 DEF InjectInv

LEMMA PassesKeepsInv ==
    ASSUME InjectInv, injecting, copy = "running", injecting' = injecting,
           NEW f \in Frames, sent' = Append(sent, f), Passes(Frame(f, FALSE))
    PROVE  InjectInv'
<1> DEFINE g == Frame(f, FALSE)
<1>1. /\ sent' \in Seq(Frames)
      /\ Valid(Sent') =>
            /\ Valid(Sent) /\ From \in ReaderSet /\ Follows(From.open, g)
            /\ From' = ReadFrame(From, g) /\ From' \in ReaderSet
            /\ g.op \in Control => Latest(From') = Latest(From)
            /\ g.op \notin Control => Latest(From') = Continued(From.open, g)
  BY SentStep DEF InjectInv
<1>2. g \in FrameSet /\ g \in Whole
  BY FrameWhole
<1> HIDE DEF g
<1>3. /\ out' = Append(out, buildProxyWebsocketFrame(g, "proxy"))
      /\ copy' = (IF g.op = "close" THEN "closed" ELSE "running")
      /\ bufferingText' = bufferingText /\ textFragments' = textFragments
      /\ ~Unreserved(g) /\ (bufferingText => g.op \in Control \union {"text"})
  BY DEF Passes, g
<1>4. /\ out' \in Seq(Wires)
      /\ g.op # "close" => NoClose(Got')
      /\ Valid(Sent) /\ Follows(To.open, g) =>
            Valid(Got') /\ To' = ReadFrame(To, g) /\ To' \in ReaderSet
  BY <1>2, <1>3, GotStep DEF InjectInv, Sound
<1>5. Typed'
  BY <1>1, <1>3, <1>4 DEF InjectInv, Typed
<1>6. ASSUME Valid(Sent')
      PROVE  /\ From' \in ReaderSet /\ To' \in ReaderSet /\ Valid(Got')
             /\ Link(From', To', bufferingText, textFragments)
             /\ Unreserved(Latest(From')) => FitsAll(Latest(From'))
  <2>1. /\ Valid(Sent) /\ From \in ReaderSet /\ Follows(From.open, g)
        /\ From' = ReadFrame(From, g) /\ From' \in ReaderSet
        /\ g.op \in Control => Latest(From') = Latest(From)
        /\ g.op \notin Control => Latest(From') = Continued(From.open, g)
    BY <1>1, <1>6
  <2>2. /\ Link(From, To, bufferingText, textFragments)
        /\ Unreserved(Latest(From)) => FitsAll(Latest(From))
        /\ To \in ReaderSet
        /\ bufferingText \in BOOLEAN /\ textFragments \in Seq(Pieces)
    BY <2>1 DEF InjectInv, Behind, Sound, Typed
  <2>3. bufferingText => g.op \in Control
    <3>1. bufferingText => From.open.op = "text"
      BY <2>1, Buffering DEF InjectInv
    <3> QED BY <1>3, <2>1, <3>1 DEF Follows
  <2>4. /\ Follows(To.open, g)
        /\ Link(ReadFrame(From, g), ReadFrame(To, g), bufferingText, textFragments)
    BY <1>2, <1>3, <2>1, <2>2, <2>3, LinkPassed
  <2>5. Valid(Got') /\ To' = ReadFrame(To, g) /\ To' \in ReaderSet
    BY <1>4, <2>1, <2>4
  <2>6. g.op \notin Control => ~Unreserved(Continued(From.open, g))
    <3>1. ~bufferingText => ~Unreserved(From.open)
      BY <2>2 DEF Link
    <3>2. From.open \in DataSet \union {NoMessage}
      BY <2>1 DEF ReaderSet
    <3> QED BY <1>2, <1>3, <2>1, <2>3, <3>1, <3>2, ContinuedReserved
  <2> QED BY <2>1, <2>2, <2>4, <2>5, <2>6
<1>7. Sound'
  BY <1>3, <1>4, <1>6 DEF Sound
<1>8. Behind'
  BY <1>3, <1>6 DEF Behind
<1>9. Raw' /\ Failed'
  BY <1>3 DEF Raw, Failed
<1> QED BY <1>5, <1>7, <1>8, <1>9 DEF InjectInv

LEMMA KeepsKeepsInv ==
    ASSUME InjectInv, injecting, copy = "running", injecting' = injecting,
           NEW f \in Frames, sent' = Append(sent, f), Keeps(Frame(f, FALSE))
    PROVE  InjectInv'
<1> DEFINE g == Frame(f, FALSE)
           payload == Payload(g)
<1>1. /\ sent' \in Seq(Frames)
      /\ Valid(Sent') =>
            /\ Valid(Sent) /\ From \in ReaderSet /\ Follows(From.open, g)
            /\ From' = ReadFrame(From, g) /\ From' \in ReaderSet
            /\ g.op \notin Control => Latest(From') = Continued(From.open, g)
  BY SentStep DEF InjectInv
<1>2. g \in FrameSet /\ g.text.pieces \in Seq(Pieces) /\ ~g.text.tool
  BY FrameWhole DEF FrameSet, Texts
<1> HIDE DEF g
<1>3. /\ bufferingText' = TRUE /\ textFragments' = payload /\ out' = out /\ copy' = "running"
      /\ OfText(g) /\ ~g.fin /\ Bytes(payload) <= MaxBytes
  BY DEF Keeps, g
<1>4. bufferingText \in BOOLEAN /\ textFragments \in Seq(Pieces)
  BY DEF InjectInv, Typed
<1>5. /\ payload = IF g.op = "cont" THEN textFragments \o g.text.pieces ELSE g.text.pieces
      /\ payload \in Seq(Pieces)
  BY <1>2, <1>4 DEF Payload
<1>6. Unreserved(g) \/ (bufferingText /\ g.op = "cont")
  BY <1>3 DEF OfText
<1> HIDE DEF payload
<1>7. Typed'
  BY <1>1, <1>3, <1>5 DEF InjectInv, Typed
<1>8. Got' = Got /\ To' = To
  BY <1>3 DEF Got, To
<1>9. ASSUME Valid(Sent')
      PROVE  /\ From' \in ReaderSet /\ To' \in ReaderSet /\ Valid(Got')
             /\ Link(From', To', TRUE, payload)
             /\ FitsAll(Latest(From'))
  <2>1. /\ Valid(Sent) /\ From \in ReaderSet /\ Follows(From.open, g)
        /\ From' = ReadFrame(From, g) /\ From' \in ReaderSet
        /\ g.op \notin Control => Latest(From') = Continued(From.open, g)
    BY <1>1, <1>9
  <2>2. /\ Link(From, To, bufferingText, textFragments)
        /\ To \in ReaderSet /\ Valid(Got)
    BY <2>1 DEF InjectInv, Behind, Sound
  <2>3. Link(ReadFrame(From, g), To, TRUE, payload)
    BY <1>2, <1>3, <1>4, <1>5, <1>6, <2>1, <2>2, LinkBuffered
  <2>4. Continued(From.open, g) = Unfinished(payload)
    BY <1>2, <1>4, <1>5, <1>6, <2>1, <2>2, TextContinued
  <2>5. g.op \notin Control
    BY <1>6 DEF Unreserved, Control
  <2>6. FitsAll(Unfinished(payload))
    BY <1>3 DEF FitsAll, Unfinished
  <2> QED BY <1>8, <2>1, <2>2, <2>3, <2>4, <2>5, <2>6
<1>10. Sound'
  BY <1>3, <1>8, <1>9 DEF InjectInv, Sound
<1>11. Behind'
  BY <1>3, <1>9 DEF Behind
<1>12. Raw' /\ Failed'
  BY <1>3 DEF Raw, Failed
<1> QED BY <1>7, <1>10, <1>11, <1>12 DEF InjectInv

LEMMA CompletesKeepsInv ==
    ASSUME InjectInv, injecting, copy = "running", injecting' = injecting,
           NEW f \in Frames, sent' = Append(sent, f), Completes(Frame(f, FALSE))
    PROVE  InjectInv'
<1> DEFINE g == Frame(f, FALSE)
           payload == Payload(g)
           w == Final(payload)
<1>1. /\ sent' \in Seq(Frames)
      /\ Valid(Sent') =>
            /\ Valid(Sent) /\ From \in ReaderSet /\ Follows(From.open, g)
            /\ From' = ReadFrame(From, g) /\ From' \in ReaderSet
            /\ g.op \notin Control => Latest(From') = Continued(From.open, g)
  BY SentStep DEF InjectInv
<1>2. g \in FrameSet /\ g.text.pieces \in Seq(Pieces) /\ ~g.text.tool
  BY FrameWhole DEF FrameSet, Texts
<1> HIDE DEF g
<1>3. /\ out' = Append(out, buildProxyWebsocketFrame(w, "proxy")) /\ copy' = "running"
      /\ \/ bufferingText' = FALSE /\ textFragments' = <<>>
         \/ Unreserved(g) /\ bufferingText' = bufferingText /\ textFragments' = textFragments
      /\ OfText(g) /\ g.fin /\ Bytes(payload) <= MaxBytes
  BY DEF Completes, g
<1>4. bufferingText \in BOOLEAN /\ textFragments \in Seq(Pieces)
      /\ Bytes(textFragments) <= MaxBytes
  BY DEF InjectInv, Typed
<1>5. /\ payload = IF g.op = "cont" THEN textFragments \o g.text.pieces ELSE g.text.pieces
      /\ payload \in Seq(Pieces)
  BY <1>2, <1>4 DEF Payload
<1>6. Unreserved(g) \/ (bufferingText /\ g.op = "cont")
  BY <1>3 DEF OfText
<1> HIDE DEF payload
<1>7. w \in Whole /\ w.op # "close"
  BY <1>3, <1>5, FinalWhole DEF Final
<1> HIDE DEF w
<1>8. /\ out' \in Seq(Wires) /\ NoClose(Got')
      /\ Valid(Sent) /\ Follows(To.open, w) =>
            Valid(Got') /\ To' = ReadFrame(To, w) /\ To' \in ReaderSet
  BY <1>3, <1>7, GotStep DEF InjectInv, Sound
<1>9. Typed'
  <2>1. Bytes(<<>>) <= MaxBytes /\ <<>> \in Seq(Pieces)
    BY BytesNothing, BoundsAssumption
  <2> QED BY <1>1, <1>3, <1>4, <1>8, <2>1 DEF InjectInv, Typed
<1>10. ASSUME Valid(Sent')
       PROVE  /\ From' \in ReaderSet /\ To' \in ReaderSet /\ Valid(Got')
              /\ Link(From', To', bufferingText', textFragments')
              /\ FitsAll(Latest(From'))
  <2>1. /\ Valid(Sent) /\ From \in ReaderSet /\ Follows(From.open, g)
        /\ From' = ReadFrame(From, g) /\ From' \in ReaderSet
        /\ g.op \notin Control => Latest(From') = Continued(From.open, g)
    BY <1>1, <1>10
  <2>2. /\ Link(From, To, bufferingText, textFragments)
        /\ To \in ReaderSet
    BY <2>1 DEF InjectInv, Behind, Sound
  <2>3. /\ Follows(To.open, w)
        /\ \A kept : Link(ReadFrame(From, g), ReadFrame(To, w), FALSE, kept)
    BY <1>2, <1>3, <1>4, <1>5, <1>6, <2>1, <2>2, LinkInjected DEF w
  <2>4. Valid(Got') /\ To' = ReadFrame(To, w) /\ To' \in ReaderSet
    BY <1>8, <2>1, <2>3
  <2>5. bufferingText' = FALSE
    <3>1. Unreserved(g) => From.open.op = "none"
      BY <2>1 DEF Follows, Unreserved
    <3>2. bufferingText => From.open.op = "text"
      BY <2>1, Buffering DEF InjectInv
    <3> QED BY <1>3, <1>4, <3>1, <3>2
  <2>6. Continued(From.open, g) = Unfinished(payload)
    BY <1>2, <1>4, <1>5, <1>6, <2>1, <2>2, TextContinued
  <2>7. g.op \notin Control
    BY <1>6 DEF Unreserved, Control
  <2>8. FitsAll(Unfinished(payload))
    BY <1>3 DEF FitsAll, Unfinished
  <2> QED BY <2>1, <2>3, <2>4, <2>5, <2>6, <2>7, <2>8
<1>11. Sound'
  BY <1>8, <1>10 DEF Sound
<1>12. Behind'
  BY <1>10 DEF Behind
<1>13. Raw' /\ Failed'
  BY <1>3 DEF Raw, Failed
<1> QED BY <1>9, <1>11, <1>12, <1>13 DEF InjectInv

\* A connection without injection.
LEMMA RawKeepsInv ==
    ASSUME InjectInv, ~injecting,
           NEW f \in Frames, sent' = Append(sent, f), CopyRaw(f)
    PROVE  InjectInv'
<1> DEFINE g == Frame(f, FALSE)
<1>1. /\ sent' \in Seq(Frames) /\ Sent' = Append(Sent, g)
      /\ Valid(Sent') => From' \in ReaderSet
  BY SentStep DEF InjectInv
<1>2. g \in Whole
  BY FrameWhole
<1>3. /\ out' = Append(out, buildProxyWebsocketFrame(g, "client"))
      /\ copy' = "running" /\ injecting' = injecting
      /\ bufferingText' = bufferingText /\ textFragments' = textFragments
  BY DEF CopyRaw, Write, FromClient, Keep
<1> HIDE DEF g
<1>4. out' \in Seq(Wires) /\ Got' = Append(Got, g)
  BY <1>2, <1>3, GotStep DEF InjectInv
<1>5. Typed'
  BY <1>1, <1>3, <1>4 DEF InjectInv, Typed
<1>6. Got' = Sent'
  BY <1>1, <1>4 DEF InjectInv, Raw
<1>7. To' = From'
  BY <1>6 DEF To, From
<1>8. Raw' /\ Sound' /\ Behind' /\ Failed'
  BY <1>1, <1>3, <1>6, <1>7 DEF Raw, Sound, Behind, Failed
<1> QED BY <1>5, <1>8 DEF InjectInv

LEMMA InjectInvInit == Init => InjectInv
<1> SUFFICES ASSUME Init PROVE InjectInv
  OBVIOUS
<1>1. /\ injecting \in BOOLEAN /\ copy = "running" /\ bufferingText = FALSE
      /\ textFragments = <<>> /\ sent = <<>> /\ out = <<>>
  BY DEF Init
<1>2. Sent = <<>> /\ Got = <<>>
  BY <1>1 DEF Sent, Got
<1>3. From = Start /\ To = Start
  BY <1>2, ReadNothing DEF From, To
<1>4. /\ Start \in ReaderSet
      /\ Start.open = NoMessage /\ Start.data = <<>> /\ Start.control = <<>>
  BY DEF Start, ReaderSet
<1>5. Typed
  <2>1. Bytes(<<>>) <= MaxBytes
    BY BytesNothing, BoundsAssumption
  <2>2. \A S : <<>> \in Seq(S)
    OBVIOUS
  <2> QED BY <1>1, <2>1, <2>2, Zenon DEF Typed
<1>6. Sound
  BY <1>2, <1>3, <1>4, ValidNothing DEF Sound, NoClose
<1>7. Link(From, To, bufferingText, textFragments)
  <2>1. Injections(<<>>) = <<>>
    BY DEF Injections
  <2> QED BY <1>1, <1>3, <1>4, <2>1, NotNoMessage DEF Link
<1>8. Latest(From) = NoMessage
  BY <1>3, <1>4 DEF Latest
<1>9. Behind
  BY <1>7, <1>8, NotNoMessage DEF Behind
<1>10. Raw /\ Failed
  BY <1>1, <1>2 DEF Raw, Failed
<1> QED BY <1>5, <1>6, <1>9, <1>10 DEF InjectInv

LEMMA InjectInvStep == InjectInv /\ [Next]_vars => InjectInv'
<1> SUFFICES ASSUME InjectInv, [Next]_vars PROVE InjectInv'
  OBVIOUS
<1>1. CASE Next
  <2>1. PICK f \in Frames : /\ sent' = Append(sent, f)
                            /\ IF injecting THEN Forward(Arriving[f]) ELSE CopyRaw(f)
    BY <1>1 DEF Next
  <2>2. copy = "running"
    BY <1>1 DEF Next
  <2>3. CASE injecting
    <3>1. /\ injecting' = injecting
          /\ \/ Fails(Frame(f, FALSE)) \/ Passes(Frame(f, FALSE))
             \/ Keeps(Frame(f, FALSE)) \/ Completes(Frame(f, FALSE))
      BY <2>1, <2>2, <2>3, ForwardIs DEF InjectInv
    <3> QED BY <2>1, <2>2, <2>3, <3>1,
               FailsKeepsInv, PassesKeepsInv, KeepsKeepsInv, CompletesKeepsInv
  <2>4. CASE ~injecting
    BY <2>1, <2>4, RawKeepsInv
  <2> QED BY <2>3, <2>4
<1>2. CASE UNCHANGED vars
  <2>1. /\ injecting' = injecting /\ copy' = copy /\ bufferingText' = bufferingText
        /\ textFragments' = textFragments /\ sent' = sent /\ out' = out
    BY <1>2 DEF vars
  <2>2. Sent' = Sent /\ Got' = Got
    BY <2>1 DEF Sent, Got
  <2>3. From' = From /\ To' = To
    BY <2>2 DEF From, To
  <2>4. Typed'
    BY <2>1 DEF InjectInv, Typed
  <2>5. Raw' /\ Sound' /\ Behind' /\ Failed'
    BY <2>1, <2>2, <2>3 DEF InjectInv, Raw, Sound, Behind, Failed
  <2> QED BY <2>4, <2>5 DEF InjectInv
<1> QED BY <1>1, <1>2

LEMMA InjectInvHolds == Spec => []InjectInv
  BY InjectInvInit, InjectInvStep, PTL DEF Spec

----------------------------------------------------------------------------
\* Of a client that keeps to the protocol, upstream gets the messages that are
\* complete, whole and in order, with a tool where one is injected, and every
\* control frame.
THEOREM Relays == Spec => []MessagesRelayed
<1>1. InjectInv => MessagesRelayed
  <2> SUFFICES ASSUME InjectInv, Valid(Sent), copy # "failed"
               PROVE  /\ To.data = [i \in DOMAIN From.data |-> Relayed(From.data[i])]
                      /\ To.control = From.control
    BY DEF MessagesRelayed, From, To
  <2>1. CASE injecting
    <3>1. To.control = From.control /\ To.data = Injections(From.data)
      BY <2>1 DEF InjectInv, Behind, Link
    <3>2. \A m : Relayed(m) = Injected(m)
      BY <2>1, Zenon DEF Relayed, Injected, Unreserved
    <3>3. Injections(From.data) = [i \in DOMAIN From.data |-> Relayed(From.data[i])]
      BY <3>2, Zenon DEF Injections
    <3> QED BY <3>1, <3>3
  <2>2. CASE ~injecting
    <3>1. To = From
      BY <2>2 DEF InjectInv, Raw, To, From
    <3>2. \A m : Relayed(m) = m
      BY <2>2 DEF Relayed
    <3>3. From.data \in Seq(DataSet)
      BY DEF InjectInv, Sound, ReaderSet
    <3>4. From.data = [i \in DOMAIN From.data |-> From.data[i]]
      BY <3>3
    <3>5. From.data = [i \in DOMAIN From.data |-> Relayed(From.data[i])]
      BY <3>2, <3>4, Zenon
    <3> QED BY <3>1, <3>5
  <2> QED BY <2>1, <2>2
<1> QED BY <1>1, InjectInvHolds, PTL

\* What upstream is sent keeps to the protocol if the client does, and each frame
\* is masked and as long as it announces.
THEOREM StaysValid == Spec => []UpstreamStaysValid
<1>1. InjectInv => UpstreamStaysValid
  <2> SUFFICES ASSUME InjectInv, Valid(Sent)
               PROVE  Valid(Got) /\ \A i \in DOMAIN out : InStep(out[i])
    BY DEF UpstreamStaysValid
  <2>1. Valid(Got)
    BY DEF InjectInv, Sound
  <2>2. \A w \in Wires : InStep(w)
    <3> SUFFICES ASSUME NEW g \in Whole, NEW key \in {"client", "proxy"}
                 PROVE  InStep(buildProxyWebsocketFrame(g, key))
      BY DEF Wires
    <3> QED BY WireRead
  <2>3. \A i \in DOMAIN out : out[i] \in Wires
    BY DEF InjectInv, Typed
  <2> QED BY <2>1, <2>2, <2>3
<1> QED BY <1>1, InjectInvHolds, PTL

\* A client that keeps to the protocol is cut off for a message that is too large
\* and for nothing else, and no more than the limit is ever buffered.
THEOREM CutsOff == Spec => []CutOffForSizeOnly
<1>1. InjectInv => CutOffForSizeOnly
  <2> SUFFICES ASSUME InjectInv PROVE CutOffForSizeOnly
    OBVIOUS
  <2> DEFINE latest == Latest(From)
  <2>1. Valid(Sent) /\ copy = "failed" => ~(Bytes(latest.text.pieces) <= MaxBytes)
    BY DEF InjectInv, Failed, FitsAll, Raw
  <2>2. Valid(Sent) /\ injecting /\ latest.op = "text" /\ ~latest.rsv
        /\ ~(Bytes(latest.text.pieces) <= MaxBytes) => copy = "failed"
    BY DEF InjectInv, Behind, FitsAll, Unreserved
  <2>3. Bytes(textFragments) <= MaxBytes
    BY DEF InjectInv, Typed
  <2>4. latest = IF Read(Sent).open = NoMessage
                 THEN IF Read(Sent).data = <<>> THEN NoMessage ELSE Last(Read(Sent).data)
                 ELSE Read(Sent).open
    BY DEF Latest, From
  <2> HIDE DEF latest
  <2> QED BY <2>1, <2>2, <2>3, <2>4, Zenon DEF CutOffForSizeOnly
<1> QED BY <1>1, InjectInvHolds, PTL
=============================================================================
