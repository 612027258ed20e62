--------------------------- MODULE PacketsProofs ----------------------------
(* Theorems about Packets, for every size of the buffers, of the RSA block    *)
(* and of the longest string.                                                 *)
EXTENDS Packets, TLAPS

InType == [size : Nat, position : Nat, reach : Nat]
OutType == [size : Nat, position : Nat, start : 0..CryptoHeaderSize, reach : Nat]

-----------------------------------------------------------------------------
(* The inductive invariant: where the position stands between two steps.      *)

ReaderInv ==
    /\ in.reach <= MaxSize
    /\ reader = "packet" => in.position = HeaderSize /\ in.size < MaxSize - 14
    /\ reader = "first" => in.position = HeaderSize + 5 /\ in.size < MaxSize - 14
    /\ reader = "login" => in.position <= MaxSize
    /\ reader = "decrypt" => in.position \in {2, 6} /\ in.size < MaxSize - 14

WriterInv ==
    /\ out.reach <= MaxSize
    /\ writer = "free" => out.start = CryptoHeaderSize /\ needed = 0 /\ longest = 0
    /\ writer = "build" =>
         /\ out.start = CryptoHeaderSize
         /\ out.position = CryptoHeaderSize + out.size
         /\ out.position < BodySize
         /\ out.size <= needed
         /\ out.size = needed
              <=> CryptoHeaderSize + needed < BodySize /\ longest <= MaxString
    /\ FrameDecodes
    /\ AnswerIsWhole

PacketsInv == TypeOK /\ ReaderInv /\ WriterInv

-----------------------------------------------------------------------------
(* What the operations of a message do.                                       *)

\* The sizes are numbers, and the first packet fits.
LEMMA Sizing == MaxSize \in Nat /\ MaxSize >= 40 /\ RsaSize \in Nat /\ MaxString \in Nat
BY PacketsAssumption DEF FirstBlock, HeaderSize

\* The end of what was accessed is a number.
LEMMA FartherNat ==
    ASSUME NEW m, NEW end \in Nat, m.reach \in Nat
    PROVE  Farther(m, end) \in Nat
BY DEF Farther

\* An access at the position.
LEMMA MovedIn ==
    ASSUME NEW m \in InType, NEW n \in Nat
    PROVE  /\ Moved(m, n) \in InType
           /\ Moved(m, n).size = m.size
           /\ Moved(m, n).position = m.position + n
           /\ Moved(m, n).reach = IF m.position + n > m.reach THEN m.position + n ELSE m.reach
<1>1. m.position + n \in Nat /\ Farther(m, m.position + n) \in Nat
  BY FartherNat DEF InType
<1>2. Moved(m, n) \in InType
  BY <1>1 DEF Moved, InType
<1> QED
  BY <1>2 DEF Moved, Farther, InType

\* get() advances or stays, and reads inside the buffer.
LEMMA GetFacts ==
    ASSUME NEW m \in InType, NEW n \in Nat, m.position <= MaxSize, m.reach <= MaxSize
    PROVE  /\ Get(m, n) \in InType
           /\ Get(m, n).size = m.size
           /\ Get(m, n).reach <= MaxSize
           /\ Get(m, n).position <= MaxSize
           /\ n < MaxSize - m.position => Get(m, n).position = m.position + n
           /\ ~(n < MaxSize - m.position) => Get(m, n).position = m.position
<1>1. m.position \in Nat /\ m.reach \in Nat
  BY DEF InType
<1>2. CASE n < MaxSize - m.position
  <2>1. Get(m, n) = Moved(m, n)
    BY <1>2 DEF Get, CanGet
  <2>2. /\ Moved(m, n) \in InType
        /\ Moved(m, n).size = m.size
        /\ Moved(m, n).position = m.position + n
        /\ Moved(m, n).reach = IF m.position + n > m.reach THEN m.position + n ELSE m.reach
    BY MovedIn
  <2> QED
    BY <1>1, <1>2, <2>1, <2>2, Sizing
<1>3. CASE ~(n < MaxSize - m.position)
  <2>1. Get(m, n) = m
    BY <1>1, <1>3, Sizing DEF Get, CanGet
  <2> QED
    BY <1>3, <2>1
<1> QED
  BY <1>2, <1>3

\* getString() reads inside the buffer, whatever the length says.
LEMMA GetStringFacts ==
    ASSUME NEW m \in InType, NEW n \in Nat, m.position <= MaxSize, m.reach <= MaxSize
    PROVE  /\ GetString(m, n) \in InType
           /\ GetString(m, n).reach <= MaxSize
           /\ GetString(m, n).position <= MaxSize
<1> DEFINE rest == Get(m, 2)
           length == IF CanGet(m, 2) THEN n ELSE 0
<1>1. rest \in InType /\ rest.reach <= MaxSize /\ rest.position <= MaxSize
  BY GetFacts
<1>2. length \in Nat
  OBVIOUS
<1>3. GetString(m, n) =
        IF StringFits(rest, length)
        THEN Moved(rest, length)
        ELSE rest
  BY DEF GetString
<1> HIDE DEF rest, length
<1>4. CASE StringFits(rest, length)
  <2>1. /\ Moved(rest, length) \in InType
        /\ Moved(rest, length).position = rest.position + length
        /\ Moved(rest, length).reach =
             IF rest.position + length > rest.reach THEN rest.position + length ELSE rest.reach
    BY <1>1, <1>2, MovedIn
  <2>2. rest.position \in Nat /\ rest.reach \in Nat /\ length < MaxSize - rest.position
    BY <1>1, <1>4 DEF StringFits, InType
  <2> QED
    BY <1>1, <1>2, <1>3, <1>4, <2>1, <2>2, Sizing
<1> QED
  BY <1>1, <1>3, <1>4

\* Four reads of four bytes.
LEMMA KeyFacts ==
    ASSUME NEW m \in InType, m.position <= MaxSize, m.reach <= MaxSize
    PROVE  /\ Key(m) \in InType /\ Key(m).reach <= MaxSize /\ Key(m).position <= MaxSize
<1> DEFINE k1 == Get(m, 4)
           k2 == Get(k1, 4)
           k3 == Get(k2, 4)
<1>1. k1 \in InType /\ k1.reach <= MaxSize /\ k1.position <= MaxSize
  BY GetFacts
<1> HIDE DEF k1
<1>2. k2 \in InType /\ k2.reach <= MaxSize /\ k2.position <= MaxSize
  BY <1>1, GetFacts
<1> HIDE DEF k2
<1>3. k3 \in InType /\ k3.reach <= MaxSize /\ k3.position <= MaxSize
  BY <1>2, GetFacts
<1>4. Key(m) = Get(k3, 4)
  BY DEF Key, k1, k2
<1> HIDE DEF k3
<1> QED
  BY <1>3, <1>4, GetFacts

\* The preamble of a first packet is skipped over as a whole.
LEMMA PreambleFacts ==
    ASSUME NEW m \in InType, m.position = HeaderSize + 5, m.reach <= MaxSize
    PROVE  /\ Preamble(m) \in InType
           /\ Preamble(m).size = m.size
           /\ Preamble(m).reach <= MaxSize
           /\ Preamble(m).position = FirstBlock
<1> DEFINE p0 == Skip(m, 2)
           p1 == Get(p0, 2)
           p2 == Get(p1, 4)
           p3 == Get(p2, 4)
           p4 == Get(p3, 4)
<1>0. MaxSize \in Nat /\ MaxSize >= 40
  BY Sizing
<1>1. p0 \in InType /\ p0.reach <= MaxSize /\ p0.position = 9 /\ p0.size = m.size
  BY <1>0 DEF Skip, InType, HeaderSize
<1> HIDE DEF p0
<1>2. p1 \in InType /\ p1.reach <= MaxSize /\ p1.position = 11 /\ p1.size = m.size
  <2>1. 2 \in Nat /\ p0.position <= MaxSize /\ 2 < MaxSize - p0.position
    BY <1>0, <1>1
  <2>2. /\ p1 \in InType /\ p1.size = p0.size /\ p1.reach <= MaxSize
        /\ p1.position = p0.position + 2
    BY <1>1, <2>1, GetFacts
  <2> QED
    BY <1>1, <2>2
<1> HIDE DEF p1
<1>3. p2 \in InType /\ p2.reach <= MaxSize /\ p2.position = 15 /\ p2.size = m.size
  <2>1. 4 \in Nat /\ p1.position <= MaxSize /\ 4 < MaxSize - p1.position
    BY <1>0, <1>2
  <2>2. /\ p2 \in InType /\ p2.size = p1.size /\ p2.reach <= MaxSize
        /\ p2.position = p1.position + 4
    BY <1>2, <2>1, GetFacts
  <2> QED
    BY <1>2, <2>2
<1> HIDE DEF p2
<1>4. p3 \in InType /\ p3.reach <= MaxSize /\ p3.position = 19 /\ p3.size = m.size
  <2>1. 4 \in Nat /\ p2.position <= MaxSize /\ 4 < MaxSize - p2.position
    BY <1>0, <1>3
  <2>2. /\ p3 \in InType /\ p3.size = p2.size /\ p3.reach <= MaxSize
        /\ p3.position = p2.position + 4
    BY <1>3, <2>1, GetFacts
  <2> QED
    BY <1>3, <2>2
<1> HIDE DEF p3
<1>5. p4 \in InType /\ p4.reach <= MaxSize /\ p4.position = 23 /\ p4.size = m.size
  <2>1. 4 \in Nat /\ p3.position <= MaxSize /\ 4 < MaxSize - p3.position
    BY <1>0, <1>4
  <2>2. /\ p4 \in InType /\ p4.size = p3.size /\ p4.reach <= MaxSize
        /\ p4.position = p3.position + 4
    BY <1>4, <2>1, GetFacts
  <2> QED
    BY <1>4, <2>2
<1> HIDE DEF p4
<1>6. Preamble(m) = p4
  BY DEF Preamble, p0, p1, p2, p3, p4
<1> QED
  BY <1>5, <1>6 DEF FirstBlock, HeaderSize

\* put() stores all of its bytes in the body or none.
LEMMA PutFacts ==
    ASSUME NEW m \in OutType, NEW n \in Nat, m.reach <= MaxSize
    PROVE  /\ Put(m, n) \in OutType
           /\ Put(m, n).start = m.start
           /\ Put(m, n).reach <= MaxSize
           /\ HasSpace(m, n) => /\ Put(m, n).size = m.size + n
                                /\ Put(m, n).position = m.position + n
           /\ ~HasSpace(m, n) => Put(m, n) = m
<1>1. /\ m.position + n \in Nat /\ m.size + n \in Nat
      /\ Farther(m, m.position + n) \in Nat
  BY FartherNat DEF OutType
<1>2. Stored(m, n) =
        [m EXCEPT !.position = m.position + n, !.reach = Farther(m, m.position + n),
                  !.size = m.size + n]
  BY DEF Stored, Moved, OutType
<1>3. Stored(m, n) \in OutType
  BY <1>1, <1>2 DEF OutType
<1>4. HasSpace(m, n) => Farther(m, m.position + n) <= MaxSize
  BY <1>1, Sizing DEF HasSpace, Farther, OutType, BodySize, CryptoHeaderSize, HeaderSize
<1> QED
  BY <1>1, <1>2, <1>3, <1>4 DEF Put, OutType

\* The padding completes a block of eight bytes, and adds no block of its own.
LEMMA PaddingFacts ==
    ASSUME NEW s \in Nat
    PROVE  Padding(s) \in 0..7 /\ (s + Padding(s)) % 8 = 0 /\ (s % 8 = 0 => Padding(s) = 0)
BY DEF Padding

-----------------------------------------------------------------------------
(* The invariant.                                                             *)

ReaderType ==
    /\ in \in InType
    /\ reader \in {"header", "packet", "first", "login", "decrypt", "closed"}
    /\ first \in BOOLEAN

WriterType ==
    /\ out \in OutType
    /\ writer \in {"free", "build", "sent"}
    /\ todo \in Seq(Fields)
    /\ needed \in Nat /\ longest \in Nat
    /\ frame \in [inner : Nat, outer : Nat]

\* The type invariant in two parts, the packet's and the answer's.
LEMMA Types ==
    TypeOK <=> ReaderType /\ WriterType /\ login \in {"none", "refuse", "list"}
BY DEF TypeOK, ReaderType, WriterType, InType, OutType

\* A step of the reader leaves the answer alone, and the other way round.
LEMMA WriterUnchanged ==
    ASSUME WriterType, WriterInv, UNCHANGED outVars
    PROVE  WriterType' /\ WriterInv'
BY DEF WriterType, WriterInv, outVars, FrameDecodes, AnswerIsWhole, Decodable

\* The same for the packet.
LEMMA ReaderUnchanged ==
    ASSUME ReaderType, ReaderInv, UNCHANGED inVars
    PROVE  ReaderType' /\ ReaderInv'
BY DEF ReaderType, ReaderInv, inVars

\* The invariant holds at the start.
LEMMA InitInv == Init => PacketsInv
<1> SUFFICES ASSUME Init PROVE PacketsInv
  OBVIOUS
<1>1. ReaderType /\ ReaderInv
  BY Sizing DEF Init, NewMessage, ReaderType, ReaderInv, InType, CryptoHeaderSize, HeaderSize
<1>2. WriterType /\ WriterInv
  BY Sizing DEF Init, NoFrame, WriterType, WriterInv, OutType, CryptoHeaderSize, HeaderSize,
    FrameDecodes, AnswerIsWhole
<1>3. login \in {"none", "refuse", "list"}
  BY DEF Init
<1> QED
  BY <1>1, <1>2, <1>3, Types DEF PacketsInv

\* Connection::parseHeader: an accepted size leaves room in the buffer.
LEMMA ParseHeaderInv ==
    ASSUME ReaderType, ReaderInv, ParseHeader
    PROVE  ReaderType' /\ ReaderInv'
<1>1. PICK size \in Sizes :
        \/ /\ Acceptable(size)
           /\ in' = [size |-> size + HeaderSize, position |-> HeaderSize,
                     reach |-> HeaderSize + size]
           /\ reader' = "packet"
        \/ /\ ~Acceptable(size)
           /\ in' = [in EXCEPT !.size = size]
           /\ reader' = "closed"
  BY DEF ParseHeader
<1>2. size \in Nat /\ first' = first
  BY PacketsAssumption DEF ParseHeader
<1>3. CASE Acceptable(size)
  <2>1. /\ in' = [size |-> size + HeaderSize, position |-> HeaderSize,
                  reach |-> HeaderSize + size]
        /\ reader' = "packet"
    BY <1>1, <1>3
  <2>2. size < MaxSize - 16
    BY <1>3 DEF Acceptable
  <2> QED
    BY <1>2, <2>1, <2>2, Sizing DEF ReaderType, ReaderInv, InType, HeaderSize
<1>4. CASE ~Acceptable(size)
  <2>1. in' = [in EXCEPT !.size = size] /\ reader' = "closed"
    BY <1>1, <1>4
  <2> QED
    BY <1>2, <2>1 DEF ReaderType, ReaderInv, InType
<1> QED
  BY <1>3, <1>4

\* Connection::parsePacket: only a packet with a checksum reaches the protocol, at offset 7.
LEMMA ParsePacketInv ==
    ASSUME ReaderType, ReaderInv, ParsePacket
    PROVE  ReaderType' /\ ReaderInv'
<1> DEFINE s == Summed(in)
           k == Skip(s, 4)
<1>1. in \in InType /\ in.position = 2 /\ in.size < MaxSize - 14 /\ in.reach <= MaxSize
  BY DEF ParsePacket, ReaderType, ReaderInv, HeaderSize
<1>2. s \in InType /\ s.position = 2 /\ s.size = in.size /\ s.reach <= MaxSize
  <2>1. CanGet(in, 4)
    BY <1>1, Sizing DEF CanGet
  <2>2. s = [in EXCEPT !.reach = Farther(in, 6)]
    BY <1>1, <2>1 DEF Summed, Touch
  <2>3. Farther(in, 6) \in Nat /\ Farther(in, 6) <= MaxSize
    BY <1>1, Sizing DEF Farther, InType
  <2> HIDE DEF s
  <2> QED
    BY <1>1, <2>2, <2>3 DEF InType
<1> HIDE DEF s
<1>3. k \in InType /\ k.position = 6 /\ k.size = in.size /\ k.reach <= MaxSize
  BY <1>2 DEF Skip, InType
<1>4. PICK matches \in BOOLEAN, known \in BOOLEAN :
        LET msg == IF matches THEN k ELSE s
        IN  IF first
            THEN /\ in' = Get(msg, 1)
                 /\ reader' = IF MakeProtocol(matches, known) THEN "first" ELSE "closed"
            ELSE in' = msg /\ reader' = "decrypt"
  BY DEF ParsePacket, s
<1> HIDE DEF k
<1> DEFINE msg == IF matches THEN k ELSE s
<1>5. /\ msg \in InType /\ msg.position \in {2, 6} /\ msg.size = in.size
      /\ msg.reach <= MaxSize
      /\ matches => msg.position = 6
  BY <1>2, <1>3
<1>6. first' = FALSE
  BY DEF ParsePacket
<1>7. CASE first
  <2>1. /\ in' = Get(msg, 1)
        /\ reader' = IF MakeProtocol(matches, known) THEN "first" ELSE "closed"
    BY <1>4, <1>7
  <2> HIDE DEF msg
  <2>2. 1 \in Nat /\ msg.position <= MaxSize /\ 1 < MaxSize - msg.position
    BY <1>5, Sizing
  <2>3. /\ in' \in InType /\ in'.size = msg.size /\ in'.reach <= MaxSize
        /\ in'.position = msg.position + 1
    BY <1>5, <2>1, <2>2, GetFacts
  <2>4. reader' = "first" => matches
    BY <2>1 DEF MakeProtocol
  <2>5. reader' \in {"first", "closed"}
    BY <2>1
  <2>6. reader' = "first" => in'.position = HeaderSize + 5
    BY <1>5, <2>3, <2>4 DEF HeaderSize
  <2>7. in'.size < MaxSize - 14
    BY <1>1, <1>5, <2>3
  <2> QED
    BY <1>6, <2>3, <2>5, <2>6, <2>7 DEF ReaderType, ReaderInv
<1>8. CASE ~first
  <2>1. in' = msg /\ reader' = "decrypt"
    BY <1>4, <1>8
  <2> HIDE DEF msg
  <2> QED
    BY <1>1, <1>5, <1>6, <2>1 DEF ReaderType, ReaderInv
<1> QED
  BY <1>7, <1>8

\* onRecvFirstMessage and RSA_decrypt: the block lies in the buffer.
LEMMA RecvFirstMessageInv ==
    ASSUME ReaderType, ReaderInv, RecvFirstMessage
    PROVE  ReaderType' /\ ReaderInv'
<1> DEFINE msg == Preamble(in)
           block == [Touch(msg, msg.position + RsaSize) EXCEPT !.position = 0]
<1>1. in \in InType /\ in.position = HeaderSize + 5 /\ in.reach <= MaxSize
      /\ in.size < MaxSize - 14
  BY DEF RecvFirstMessage, ReaderType, ReaderInv
<1>2. /\ msg \in InType /\ msg.size = in.size /\ msg.reach <= MaxSize
      /\ msg.position = FirstBlock
  BY <1>1, PreambleFacts
<1>3. first' = first /\ first \in BOOLEAN
  BY DEF RecvFirstMessage, ReaderType
<1>4. CASE msg.size - msg.position = RsaSize
  <2>1. \E zero \in BOOLEAN :
          in' = Get(block, 1) /\ reader' = IF zero THEN "login" ELSE "closed"
    BY <1>4 DEF RecvFirstMessage
  <2> HIDE DEF msg
  <2>2. Farther(msg, msg.position + RsaSize) \in Nat
        /\ Farther(msg, msg.position + RsaSize) <= MaxSize
    BY <1>2, PacketsAssumption DEF Farther, InType, FirstBlock, HeaderSize
  <2>3. block \in InType /\ block.position = 0 /\ block.reach <= MaxSize
    <3>1. block = [msg EXCEPT !.reach = Farther(msg, msg.position + RsaSize), !.position = 0]
      BY <1>2 DEF Touch, InType
    <3> QED
      BY <1>2, <2>2, <3>1 DEF InType
  <2> HIDE DEF block
  <2>4. 1 \in Nat /\ block.position <= MaxSize
    BY <2>3, Sizing
  <2>5. Get(block, 1) \in InType /\ Get(block, 1).reach <= MaxSize
        /\ Get(block, 1).position <= MaxSize
    BY <2>3, <2>4, GetFacts
  <2>6. in' = Get(block, 1) /\ reader' \in {"login", "closed"}
    BY <2>1
  <2> QED
    BY <1>3, <2>5, <2>6 DEF ReaderType, ReaderInv
<1>5. CASE msg.size - msg.position # RsaSize
  <2>1. in' = msg /\ reader' = "closed"
    BY <1>5 DEF RecvFirstMessage
  <2> HIDE DEF msg
  <2> QED
    BY <1>2, <1>3, <2>1 DEF ReaderType, ReaderInv
<1> QED
  BY <1>4, <1>5

\* Key, name and password.
LEMMA RecvLoginInv ==
    ASSUME ReaderType, ReaderInv, RecvLogin
    PROVE  ReaderType' /\ ReaderInv'
<1>1. in \in InType /\ in.position <= MaxSize /\ in.reach <= MaxSize
  BY DEF RecvLogin, ReaderType, ReaderInv
<1>2. PICK name \in Lengths, password \in Lengths :
        in' = GetString(GetString(Key(in), name), password)
  BY DEF RecvLogin
<1>3. name \in Nat /\ password \in Nat
  BY PacketsAssumption
<1>4. Key(in) \in InType /\ Key(in).reach <= MaxSize /\ Key(in).position <= MaxSize
  BY <1>1, KeyFacts
<1> DEFINE g == GetString(Key(in), name)
<1>5. g \in InType /\ g.reach <= MaxSize /\ g.position <= MaxSize
  BY <1>3, <1>4, GetStringFacts
<1> HIDE DEF g
<1>6. in' = GetString(g, password)
  BY <1>2 DEF g
<1>7. in' \in InType /\ in'.reach <= MaxSize
  BY <1>3, <1>5, <1>6, GetStringFacts
<1>8. reader' = "header" /\ first' = first
  BY DEF RecvLogin
<1> QED
  BY <1>7, <1>8 DEF ReaderType, ReaderInv

\* XTEA_decrypt: what it decrypts was received.
LEMMA RecvMessageInv ==
    ASSUME ReaderType, ReaderInv, RecvMessage
    PROVE  ReaderType' /\ ReaderInv'
<1>1. /\ in \in InType /\ in.position \in {2, 6} /\ in.size < MaxSize - 14
      /\ in.reach <= MaxSize /\ first \in BOOLEAN
  BY DEF RecvMessage, ReaderType, ReaderInv
<1>2. reader' = "header" /\ first' = first
  BY DEF RecvMessage
<1> DEFINE t == Touch(in, in.position + (in.size - 6))
           msg == Get(t, 2)
<1>3. t \in InType /\ t.position = in.position /\ t.reach <= MaxSize
  <2>1. Farther(in, in.position + (in.size - 6)) \in Nat
        /\ Farther(in, in.position + (in.size - 6)) <= MaxSize
    BY <1>1, Sizing DEF Farther, InType
  <2> QED
    BY <1>1, <2>1 DEF Touch, InType
<1> HIDE DEF t
<1>4. 2 \in Nat /\ t.position <= MaxSize
  BY <1>1, <1>3, Sizing
<1>5. msg \in InType /\ msg.reach <= MaxSize
  BY <1>3, <1>4, GetFacts
<1>6. \/ in' = in
      \/ \E size \in Lengths :
           in' = IF size > in.size - 8 THEN msg ELSE [msg EXCEPT !.size = size]
  BY DEF RecvMessage, t
<1> HIDE DEF msg
<1>7. in' \in InType /\ in'.reach <= MaxSize
  BY <1>1, <1>5, <1>6, PacketsAssumption DEF InType
<1> QED
  BY <1>1, <1>2, <1>7 DEF ReaderType, ReaderInv

\* A new connection.
LEMMA NextConnectionInv ==
    ASSUME ReaderType, ReaderInv, NextConnection
    PROVE  ReaderType' /\ ReaderInv'
BY Sizing DEF NextConnection, NewMessage, ReaderType, ReaderInv, InType, CryptoHeaderSize,
  HeaderSize

\* getOutputMessage: a message from the pool is as new.
LEMMA GetOutputMessageInv ==
    ASSUME WriterType, WriterInv, GetOutputMessage
    PROVE  WriterType' /\ WriterInv'
<1>1. /\ out \in OutType /\ out.start = CryptoHeaderSize /\ needed = 0 /\ longest = 0
      /\ frame \in [inner : Nat, outer : Nat]
  BY DEF GetOutputMessage, WriterType, WriterInv
<1>2. /\ out' = [out EXCEPT !.size = 0, !.position = CryptoHeaderSize, !.reach = 0]
      /\ writer' = "build"
      /\ UNCHANGED <<needed, longest, frame>>
  BY DEF GetOutputMessage
<1>3. out' \in OutType /\ out'.size = 0 /\ out'.position = CryptoHeaderSize
      /\ out'.start = CryptoHeaderSize /\ out'.reach = 0
  <2>1. CryptoHeaderSize \in Nat /\ 0 \in Nat
    BY DEF CryptoHeaderSize, HeaderSize
  <2> QED
    BY <1>1, <1>2, <2>1 DEF OutType
<1>4. todo' \in Seq(Fields)
  <2>1. Refusal \in Seq(Fields)
    BY DEF Refusal, Fields
  <2>2. ASSUME NEW n \in 0..MaxEntries PROVE List(n) \in Seq(Fields)
    <3>1. Entries(n) \in Seq(Fields)
      <4>1. ASSUME NEW i \in 1..(4 * n) PROVE Entry[1 + ((i - 1) % 4)] \in Fields
        <5>1. 1 + ((i - 1) % 4) \in 1..4
          BY PacketsAssumption
        <5> QED
          BY <5>1 DEF Entry, Fields
      <4>2. 4 * n \in Nat
        BY PacketsAssumption
      <4> QED
        BY <4>1, <4>2 DEF Entries
    <3> QED
      BY <3>1 DEF List, Fields
  <2> QED
    BY <2>1, <2>2 DEF GetOutputMessage
<1>5. WriterType'
  BY <1>1, <1>2, <1>3, <1>4 DEF WriterType
<1>6. WriterInv'
  BY <1>1, <1>2, <1>3, Sizing DEF WriterInv, FrameDecodes, AnswerIsWhole, BodySize,
    CryptoHeaderSize, HeaderSize
<1> QED
  BY <1>5, <1>6

\* One put, of w bytes: as long as everything fits nothing is missing, and what was
\* once left out stays missing.
LEMMA PutFieldStep ==
    ASSUME WriterType, WriterInv, writer = "build", writer' = "build", frame' = frame,
           todo' \in Seq(Fields), longest' \in Nat, longest' >= longest,
           NEW w \in Nat \ {0}, needed' = needed + w,
           \/ out' = Put(out, w) /\ (longest' <= MaxString <=> longest <= MaxString)
           \/ out' = out /\ longest' > MaxString
    PROVE  WriterType' /\ WriterInv'
<1>1. /\ out \in OutType /\ out.reach <= MaxSize /\ out.start = CryptoHeaderSize
      /\ out.position = CryptoHeaderSize + out.size /\ out.position < BodySize
      /\ needed \in Nat /\ longest \in Nat /\ frame \in [inner : Nat, outer : Nat]
      /\ out.size <= needed
      /\ out.size = needed <=> CryptoHeaderSize + needed < BodySize /\ longest <= MaxString
  BY DEF WriterType, WriterInv
<1>2. /\ Put(out, w) \in OutType
      /\ Put(out, w).start = out.start
      /\ Put(out, w).reach <= MaxSize
      /\ HasSpace(out, w) => /\ Put(out, w).size = out.size + w
                             /\ Put(out, w).position = out.position + w
      /\ ~HasSpace(out, w) => Put(out, w) = out
  BY <1>1, PutFacts
<1>3. out' \in OutType /\ out'.reach <= MaxSize /\ out'.start = CryptoHeaderSize
  BY <1>1, <1>2
<1>4. WriterType'
  BY <1>1, <1>3 DEF WriterType
<1>5. out.size \in Nat /\ out.position \in Nat /\ BodySize \in Int /\ MaxString \in Nat
  BY <1>1, Sizing DEF OutType, BodySize, CryptoHeaderSize, HeaderSize
<1>6. CASE out' = out
  <2>1. HasSpace(out, w) => out' # Put(out, w)
    <3>1. ASSUME out' = Put(out, w), HasSpace(out, w) PROVE out.size = out.size + w
      BY <1>2, <1>6, <3>1
    <3> QED
      BY <1>5, <3>1
  <2>2. longest' > MaxString \/ ~(w + out.position < BodySize)
    BY <2>1 DEF HasSpace
  <2>3. out'.size < needed'
    BY <1>1, <1>5, <1>6
  <2>4. ~(CryptoHeaderSize + needed' < BodySize /\ longest' <= MaxString)
    BY <1>1, <1>5, <2>2 DEF CryptoHeaderSize, HeaderSize
  <2>5. /\ out'.size <= needed'
        /\ out'.size = needed'
             <=> CryptoHeaderSize + needed' < BodySize /\ longest' <= MaxString
    BY <1>1, <1>5, <1>6, <2>3, <2>4
  <2> QED
    BY <1>1, <1>3, <1>4, <1>6, <2>5 DEF WriterInv, FrameDecodes, AnswerIsWhole
<1>7. CASE out' # out
  <2>1. /\ out' = Put(out, w) /\ HasSpace(out, w)
        /\ out'.size = out.size + w /\ out'.position = out.position + w
        /\ longest' <= MaxString <=> longest <= MaxString
    BY <1>2, <1>7
  <2>2. w + out.position < BodySize
    BY <2>1 DEF HasSpace
  <2>3. /\ out'.position = CryptoHeaderSize + out'.size /\ out'.position < BodySize
        /\ out'.size <= needed'
    BY <1>1, <1>5, <2>1, <2>2 DEF CryptoHeaderSize, HeaderSize
  <2>4. out'.size = needed' <=> out.size = needed
    <3>1. out'.size = out.size + w /\ needed' = needed + w /\ needed \in Nat /\ w \in Nat
      BY <1>1, <2>1
    <3>2. ASSUME out.size + w = needed + w PROVE out.size = needed
      BY <1>5, <3>1, <3>2
    <3> QED
      BY <3>1, <3>2
  <2>5. ASSUME out.size = needed
        PROVE  CryptoHeaderSize + needed' < BodySize /\ longest' <= MaxString
    BY <1>1, <1>5, <2>1, <2>2, <2>5 DEF CryptoHeaderSize, HeaderSize
  <2>6. ASSUME CryptoHeaderSize + needed' < BodySize, longest' <= MaxString
        PROVE  out.size = needed
    BY <1>1, <1>5, <2>1, <2>6 DEF CryptoHeaderSize, HeaderSize
  <2> QED
    BY <1>3, <1>4, <2>3, <2>4, <2>5, <2>6 DEF WriterInv, FrameDecodes, AnswerIsWhole
<1> QED
  BY <1>6, <1>7

\* Every field of an answer.
LEMMA PutFieldInv ==
    ASSUME WriterType, WriterInv, PutField
    PROVE  WriterType' /\ WriterInv'
<1>1. /\ writer = "build" /\ writer' = "build" /\ frame' = frame
      /\ todo \in Seq(Fields) /\ todo # <<>> /\ todo' = Tail(todo)
      /\ longest \in Nat /\ needed \in Nat
  BY DEF PutField, WriterType
<1>2. todo' \in Seq(Fields) /\ Head(todo) \in Fields
  BY <1>1
<1>3. CASE Head(todo) = "string"
  <2>1. PICK n \in Lengths :
          /\ out' = PutString(out, n)
          /\ needed' = needed + n + 2
          /\ longest' = IF n > longest THEN n ELSE longest
    BY <1>3 DEF PutField
  <2>2. n \in Nat /\ n + 2 \in Nat \ {0} /\ MaxString \in Nat
    BY PacketsAssumption
  <2>3. /\ longest' \in Nat /\ longest' >= longest /\ needed' = needed + (n + 2)
        /\ n > MaxString => longest' > MaxString
        /\ n <= MaxString => (longest' <= MaxString <=> longest <= MaxString)
    BY <1>1, <2>1, <2>2
  <2>4. \/ /\ out' = Put(out, n + 2)
           /\ longest' <= MaxString <=> longest <= MaxString
        \/ out' = out /\ longest' > MaxString
    BY <2>1, <2>2, <2>3 DEF PutString
  <2> QED
    BY <1>1, <1>2, <2>2, <2>3, <2>4, PutFieldStep
<1>4. CASE Head(todo) # "string"
  <2> DEFINE w == Width[Head(todo)]
  <2>1. w \in Nat \ {0}
    BY <1>2, <1>4 DEF Fields, Width
  <2>2. out' = Put(out, w) /\ needed' = needed + w /\ longest' = longest
    BY <1>4 DEF PutField
  <2> HIDE DEF w
  <2>3. longest' \in Nat /\ longest' >= longest
    BY <1>1, <2>2
  <2> QED
    BY <1>1, <1>2, <2>1, <2>2, <2>3, PutFieldStep
<1> QED
  BY <1>3, <1>4

\* A header that finds its place.
LEMMA HeaderFacts ==
    ASSUME NEW m \in OutType, NEW w \in Nat, w <= m.start
    PROVE  /\ Header(m, w) \in OutType
           /\ Header(m, w).start = m.start - w
           /\ Header(m, w).size = m.size + w
           /\ Header(m, w).position = m.position
           /\ Header(m, w).reach = m.reach
<1>1. /\ CryptoHeaderSize \in Nat /\ m.start \in 0..CryptoHeaderSize /\ m.size \in Nat
  BY DEF OutType, CryptoHeaderSize, HeaderSize
<1>2. Header(m, w) = [m EXCEPT !.start = m.start - w, !.size = m.size + w]
  BY <1>1 DEF Header, OutType
<1>3. m.start - w \in 0..CryptoHeaderSize /\ m.size + w \in Nat
  BY <1>1
<1> QED
  BY <1>2, <1>3 DEF OutType

\* The cipher stays in the buffer, and pads the message if and only if there is room.
LEMMA EncryptedFacts ==
    ASSUME NEW m \in OutType, m.start = 6, m.position = m.size + 6, m.position < BodySize,
           m.reach <= MaxSize
    PROVE  /\ Encrypted(m) \in OutType
           /\ Encrypted(m).start = 6
           /\ Encrypted(m).position = m.position
           /\ Encrypted(m).reach <= MaxSize
           /\ Encrypted(m).size >= m.size
           /\ Encrypted(m).size % 8 = 0 <=> Padding(m.size) + m.position < BodySize
<1> DEFINE n == Padding(m.size)
           t == Touch(m, m.start + m.size + n)
           end == m.start + m.size + n
<1>1. m.size \in Nat /\ m.position \in Nat /\ m.reach \in Nat
  BY DEF OutType
<1>2. /\ n \in 0..7 /\ (m.size + n) % 8 = 0 /\ n = Padding(m.size)
      /\ m.size % 8 = 0 => n = 0
  BY <1>1, PaddingFacts
<1> HIDE DEF n
<1>3. /\ BodySize \in Int /\ BodySize + 14 = MaxSize
      /\ end \in Nat /\ m.position + n \in Nat /\ m.size + n \in Nat
      /\ end <= MaxSize /\ m.position + n <= MaxSize
  <2>1. BodySize \in Int /\ BodySize + 14 = MaxSize /\ MaxSize \in Nat
    BY Sizing DEF BodySize, CryptoHeaderSize, HeaderSize
  <2>2. n \in Nat /\ n <= 7 /\ end = m.position + n
    BY <1>1, <1>2
  <2> QED
    BY <1>1, <2>1, <2>2
<1>4. Farther(m, end) \in Nat /\ Farther(m, end) <= MaxSize
  BY <1>1, <1>3, Sizing DEF Farther
<1>5. t = [m EXCEPT !.reach = Farther(m, end)]
  BY DEF Touch
<1> HIDE DEF t, end
<1>6. /\ t \in OutType /\ t.start = 6 /\ t.size = m.size /\ t.position = m.position
      /\ t.reach <= MaxSize /\ t.reach \in Nat
  BY <1>4, <1>5 DEF OutType
<1>7. Encrypted(m) = PutPadding(t, n)
  BY DEF Encrypted, n, t
<1>8. CASE HasSpace(t, n)
  <2> DEFINE e == Farther(t, t.position + n)
  <2>1. Encrypted(m) = [t EXCEPT !.reach = e, !.size = t.size + n]
    BY <1>6, <1>7, <1>8 DEF PutPadding, Touch, OutType
  <2>2. e \in Nat /\ e <= MaxSize
    BY <1>3, <1>6, Sizing DEF Farther
  <2> HIDE DEF e
  <2>3. t.size + n \in Nat
    BY <1>3, <1>6
  <2>4. /\ Encrypted(m) \in OutType /\ Encrypted(m).start = 6
        /\ Encrypted(m).position = m.position /\ Encrypted(m).reach <= MaxSize
        /\ Encrypted(m).size = m.size + n
    BY <1>6, <2>1, <2>2, <2>3 DEF OutType
  <2>5. n + m.position < BodySize
    BY <1>6, <1>8 DEF HasSpace
  <2> QED
    BY <1>1, <1>2, <2>4, <2>5
<1>9. CASE ~HasSpace(t, n)
  <2>1. Encrypted(m) = t
    BY <1>7, <1>9 DEF PutPadding
  <2>2. ~(n + m.position < BodySize)
    BY <1>6, <1>9 DEF HasSpace
  <2>3. n # 0
    BY <1>1, <1>3, <2>2
  <2> QED
    BY <1>1, <1>2, <1>6, <2>1, <2>2, <2>3
<1> QED
  BY <1>8, <1>9

\* Protocol::onSendMessage: the three headers take the reserved eight bytes.
LEMMA SendMessageInv ==
    ASSUME WriterType, WriterInv, SendMessage
    PROVE  WriterType' /\ WriterInv'
<1> DEFINE h1 == Header(out, 2)
           e == Encrypted(h1)
           h2 == Header(e, 4)
           h3 == Header(h2, 2)
<1>1. /\ out \in OutType /\ out.start = 8 /\ out.position = 8 + out.size
      /\ out.position < BodySize /\ out.reach <= MaxSize /\ needed \in Nat
      /\ longest \in Nat /\ todo \in Seq(Fields)
      /\ out.size = needed <=> CryptoHeaderSize + needed < BodySize /\ longest <= MaxString
  BY DEF SendMessage, WriterType, WriterInv, CryptoHeaderSize, HeaderSize
<1>2. out.size \in Nat /\ out.position \in Nat
  BY <1>1 DEF OutType
<1>3. /\ h1 \in OutType /\ h1.start = 6 /\ h1.size = out.size + 2
      /\ h1.position = out.position /\ h1.reach = out.reach
  <2>1. 2 \in Nat /\ 2 <= out.start
    BY <1>1
  <2>2. /\ h1 \in OutType /\ h1.start = out.start - 2 /\ h1.size = out.size + 2
        /\ h1.position = out.position /\ h1.reach = out.reach
    BY <1>1, <2>1, HeaderFacts
  <2> QED
    BY <1>1, <2>2
<1> HIDE DEF h1
<1>4. /\ e \in OutType /\ e.start = 6 /\ e.position = out.position /\ e.reach <= MaxSize
      /\ e.size >= h1.size
      /\ e.size % 8 = 0 <=> Padding(h1.size) + h1.position < BodySize
  <2>1. h1.position = h1.size + 6 /\ h1.position < BodySize /\ h1.reach <= MaxSize
    BY <1>1, <1>2, <1>3
  <2> QED
    BY <1>3, <2>1, EncryptedFacts
<1> HIDE DEF e
<1>5. /\ h2 \in OutType /\ h2.start = 2 /\ h2.size = e.size + 4
      /\ h2.position = out.position /\ h2.reach <= MaxSize
  <2>1. 4 \in Nat /\ 4 <= e.start
    BY <1>4
  <2>2. /\ h2 \in OutType /\ h2.start = e.start - 4 /\ h2.size = e.size + 4
        /\ h2.position = e.position /\ h2.reach = e.reach
    BY <1>4, <2>1, HeaderFacts
  <2> QED
    BY <1>4, <2>2
<1> HIDE DEF h2
<1>6. /\ h3 \in OutType /\ h3.start = 0 /\ h3.size = h2.size + 2
      /\ h3.position = out.position /\ h3.reach <= MaxSize
  <2>1. 2 \in Nat /\ 2 <= h2.start
    BY <1>5
  <2>2. /\ h3 \in OutType /\ h3.start = h2.start - 2 /\ h3.size = h2.size + 2
        /\ h3.position = h2.position /\ h3.reach = h2.reach
    BY <1>5, <2>1, HeaderFacts
  <2> QED
    BY <1>5, <2>2
<1>7. /\ out' = h3 /\ frame' = [inner |-> out.size, outer |-> h2.size]
      /\ writer' = "sent" /\ UNCHANGED <<todo, needed, longest>>
  BY DEF SendMessage, h1, e, h2
<1> HIDE DEF h3
<1>8. e.size \in Nat /\ h2.size \in Nat
  BY <1>4, <1>5 DEF OutType
<1>9. WriterType'
  BY <1>1, <1>2, <1>6, <1>7, <1>8 DEF WriterType
<1>10. FrameDecodes'
  <2>1. frame'.outer + HeaderSize = out'.size /\ out'.start = 0
    BY <1>6, <1>7 DEF HeaderSize
  <2>2. out'.size = e.size + 6 /\ frame'.inner = out.size /\ e.size >= out.size + 2
    BY <1>3, <1>4, <1>5, <1>6, <1>7, <1>8
  <2>3. Decodable(out'.size, frame'.inner) <=> e.size % 8 = 0
    BY <1>2, <1>8, <2>2 DEF Decodable
  <2>4. h1.size = frame'.inner + HeaderSize /\ h1.position = out'.position
    BY <1>3, <1>6, <1>7, <2>2 DEF HeaderSize
  <2> QED
    BY <1>4, <2>1, <2>3, <2>4 DEF FrameDecodes
<1>11. AnswerIsWhole'
  BY <1>1, <1>7 DEF AnswerIsWhole
<1> QED
  BY <1>6, <1>7, <1>9, <1>10, <1>11 DEF WriterInv

\* internalReleaseMessage.
LEMMA ReleaseMessageInv ==
    ASSUME WriterType, WriterInv, ReleaseMessage
    PROVE  WriterType' /\ WriterInv'
<1>1. /\ out \in OutType /\ out.reach <= MaxSize /\ todo \in Seq(Fields)
  BY DEF WriterType, WriterInv
<1>2. /\ out' = [out EXCEPT !.start = CryptoHeaderSize] /\ writer' = "free"
      /\ needed' = 0 /\ longest' = 0 /\ frame' = NoFrame /\ todo' = todo
  BY DEF ReleaseMessage, FreeMessage
<1>3. CryptoHeaderSize \in 0..CryptoHeaderSize
  BY DEF CryptoHeaderSize, HeaderSize
<1>4. out' \in OutType /\ out'.reach <= MaxSize /\ out'.start = CryptoHeaderSize
  BY <1>1, <1>2, <1>3 DEF OutType
<1> QED
  BY <1>1, <1>2, <1>4 DEF WriterType, WriterInv, FrameDecodes, AnswerIsWhole, NoFrame

\* Every step keeps the invariant: the reader's steps leave the answer alone and the
\* other way round.
LEMMA NextInv == PacketsInv /\ [Next]_vars => PacketsInv'
<1> SUFFICES ASSUME PacketsInv, [Next]_vars PROVE PacketsInv'
  OBVIOUS
<1>1. /\ ReaderType /\ ReaderInv /\ WriterType /\ WriterInv
      /\ login \in {"none", "refuse", "list"}
  BY Types DEF PacketsInv
<1>2. SUFFICES /\ ReaderType' /\ ReaderInv' /\ WriterType' /\ WriterInv'
               /\ login' \in {"none", "refuse", "list"}
  BY Types DEF PacketsInv, TypeOK, ReaderType, WriterType, InType, OutType
<1>3. CASE ParseHeader
  BY <1>1, <1>3, ParseHeaderInv, WriterUnchanged DEF ParseHeader
<1>4. CASE ParsePacket
  BY <1>1, <1>4, ParsePacketInv, WriterUnchanged DEF ParsePacket
<1>5. CASE RecvFirstMessage
  BY <1>1, <1>5, RecvFirstMessageInv, WriterUnchanged DEF RecvFirstMessage
<1>6. CASE RecvLogin
  BY <1>1, <1>6, RecvLoginInv, WriterUnchanged DEF RecvLogin
<1>7. CASE RecvMessage
  BY <1>1, <1>7, RecvMessageInv, WriterUnchanged DEF RecvMessage
<1>8. CASE NextConnection
  BY <1>1, <1>8, NextConnectionInv, WriterUnchanged DEF NextConnection
<1>9. CASE GetOutputMessage
  BY <1>1, <1>9, GetOutputMessageInv, ReaderUnchanged DEF GetOutputMessage
<1>10. CASE PutField
  BY <1>1, <1>10, PutFieldInv, ReaderUnchanged DEF PutField
<1>11. CASE SendMessage
  BY <1>1, <1>11, SendMessageInv, ReaderUnchanged DEF SendMessage
<1>12. CASE ReleaseMessage
  BY <1>1, <1>12, ReleaseMessageInv, ReaderUnchanged DEF ReleaseMessage
<1>13. CASE UNCHANGED vars
  BY <1>1, <1>13, ReaderUnchanged, WriterUnchanged DEF vars
<1> QED
  BY <1>3, <1>4, <1>5, <1>6, <1>7, <1>8, <1>9, <1>10, <1>11, <1>12, <1>13 DEF Next

\* The positions of NetworkMessage and OutputMessage are as PacketsInv says in every
\* reachable state, for every size of the buffers.
THEOREM PacketsInvariance == Spec => []PacketsInv
BY InitInv, NextInv, PTL DEF Spec

\* No read, write or cipher of NetworkMessage, Connection and Protocol leaves its
\* buffer.
THEOREM BufferSafe == Spec => []StaysInBuffer
<1>1. PacketsInv => StaysInBuffer
  BY DEF PacketsInv, ReaderInv, WriterInv, StaysInBuffer
<1> QED
  BY <1>1, PacketsInvariance, PTL

\* Protocol::onSendMessage frames a message so that it can be decoded, exactly when the
\* padding found room.
THEOREM FramesDecode == Spec => []FrameDecodes
<1>1. PacketsInv => FrameDecodes
  BY DEF PacketsInv, WriterInv
<1> QED
  BY <1>1, PacketsInvariance, PTL

\* NetworkMessage leaves a field out when it does not fit, without a word; an answer
\* is sent whole exactly when the room was enough for all of it.
THEOREM AnswersAreWhole == Spec => []AnswerIsWhole
<1>1. PacketsInv => AnswerIsWhole
  BY DEF PacketsInv, WriterInv
<1> QED
  BY <1>1, PacketsInvariance, PTL
=============================================================================
