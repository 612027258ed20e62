------------------------------ MODULE Packets -------------------------------
(* The bytes of a login: NetworkMessage, OutputMessage and the framing done   *)
(* by Connection and Protocol. A message is its size, its position and, for   *)
(* an outgoing one, the offset its output starts at; what the bytes mean is   *)
(* left out. One connection follows another; all of them take their answer    *)
(* from the same pooled OutputMessage.                                        *)
EXTENDS Integers, Sequences

CONSTANTS
    MaxSize,    \* NETWORK_MAX_SIZE, the size of a buffer
    RsaSize,    \* the 128 bytes of an RSA block
    MaxString,  \* the 8192 bytes of the longest string putString takes
    Sizes,      \* what the header of a packet may say
    Lengths,    \* lengths of strings, in packets and in answers
    MaxEntries  \* bound on the characters listed in an answer

HeaderSize == 2
CryptoHeaderSize == HeaderSize + 6
BodySize == MaxSize - CryptoHeaderSize - 6

\* What a client's packet holds in front of the RSA block: length, checksum,
\* protocol, platform, version and three signatures.
FirstBlock == HeaderSize + 4 + 1 + 2 + 2 + 12

ASSUME PacketsAssumption ==
    /\ MaxSize \in Nat /\ RsaSize \in Nat /\ MaxString \in Nat /\ MaxEntries \in Nat
    /\ Sizes \subseteq Nat /\ Lengths \subseteq Nat
    /\ FirstBlock + RsaSize < MaxSize - 16

VARIABLES
    in,       \* Connection::m_msg; reach is the end of what it accessed
    reader,   \* where the connection is with its packets
    first,    \* m_receivedFirst
    login,    \* an answer is owed: "none", "refuse" (disconnectClient) or "list"
    out,      \* the OutputMessage
    writer,   \* what is done to it: "free", "build" or "sent"
    todo,     \* the fields still to be put
    needed,   \* ghost: the bytes of all fields put so far, stored or not
    longest,  \* ghost: the longest string among them
    frame     \* the two lengths in the frame that was sent

inVars == <<in, reader, first>>
outVars == <<out, writer, todo, needed, longest, frame>>
vars == <<inVars, login, outVars>>

-----------------------------------------------------------------------------
(* NetworkMessage and OutputMessage.                                          *)

Farther(m, end) == IF end > m.reach THEN end ELSE m.reach

Touch(m, end) == [m EXCEPT !.reach = Farther(m, end)]

\* n bytes are accessed at the position, which moves behind them.
Moved(m, n) ==
    [m EXCEPT !.position = @ + n, !.reach = Farther(m, m.position + n)]

\* get() compares with the unsigned NETWORK_MAX_SIZE - m_position.
CanGet(m, n) == m.position > MaxSize \/ n < MaxSize - m.position

Get(m, n) ==
    IF CanGet(m, n) THEN Moved(m, n) ELSE m

Skip(m, n) == [m EXCEPT !.position = @ + n]

StringFitsUnplaced(m, n) == n < MaxSize

StringFits(m, n) == n < MaxSize - m.position

\* The length says n, or 0 if it cannot be read.
GetString(m, n) ==
    LET length == IF CanGet(m, 2) THEN n ELSE 0
        rest == Get(m, 2)
    IN  IF StringFits(rest, length)
        THEN Moved(rest, length)
        ELSE rest

HasSpace(m, n) == n + m.position < BodySize

Stored(m, n) == [Moved(m, n) EXCEPT !.size = @ + n]

Put(m, n) == IF HasSpace(m, n) THEN Stored(m, n) ELSE m

\* The room it asks for, if it forgot the two bytes of the length.
PutStringUncounted(m, n) ==
    IF HasSpace(m, n) /\ n <= MaxString THEN Stored(m, n) ELSE m

PutString(m, n) == IF n <= MaxString THEN Put(m, n + 2) ELSE m

\* The padding does not move m_position.
PutPadding(m, n) ==
    IF HasSpace(m, n) THEN [Touch(m, m.position + n) EXCEPT !.size = @ + n] ELSE m

\* A header of w bytes in front of what is there.
Header(m, w) ==
    IF m.start - w < 0 THEN m ELSE [m EXCEPT !.start = @ - w, !.size = @ + w]

Padding(size) == (8 - (size % 8)) % 8

-----------------------------------------------------------------------------
Fields == {"char", "uint16", "uint32", "string"}
Width == [char |-> 1, uint16 |-> 2, uint32 |-> 4]

TypeOK ==
    /\ in \in [size : Nat, position : Nat, reach : Nat]
    /\ reader \in {"header", "packet", "first", "login", "decrypt", "closed"}
    /\ first \in BOOLEAN
    /\ login \in {"none", "refuse", "list"}
    /\ out \in [size : Nat, position : Nat, start : 0..CryptoHeaderSize, reach : Nat]
    /\ writer \in {"free", "build", "sent"}
    /\ todo \in Seq(Fields)
    /\ needed \in Nat /\ longest \in Nat
    /\ frame \in [inner : Nat, outer : Nat]

NoFrame == [inner |-> 0, outer |-> 0]
NewMessage == [size |-> 0, position |-> CryptoHeaderSize, reach |-> 0]

Init ==
    /\ in = NewMessage
    /\ reader = "header"
    /\ first = TRUE
    /\ login = "none"
    /\ out = [size |-> 0, position |-> CryptoHeaderSize, start |-> CryptoHeaderSize,
              reach |-> 0]
    /\ writer = "free"
    /\ todo = <<>>
    /\ needed = 0 /\ longest = 0
    /\ frame = NoFrame

-----------------------------------------------------------------------------
(* The packets of a client.                                                   *)

Acceptable(size) == size > 0 /\ size < MaxSize - 16

\* parseHeader starts the packet anew.
ParseHeader ==
    /\ reader = "header"
    /\ \E size \in Sizes :
         \/ /\ Acceptable(size)
            /\ in' = [size |-> size + HeaderSize, position |-> HeaderSize,
                      reach |-> HeaderSize + size]
            /\ reader' = "packet"
         \/ /\ ~Acceptable(size)
            /\ in' = [in EXCEPT !.size = size]
            /\ reader' = "closed"
    /\ UNCHANGED <<first, login, outVars>>

\* What the test of the checksum reads. A packet too short for a checksum has a
\* negative length: as an unsigned number it is beyond every buffer, and nothing is
\* summed. A match is then one with zero.
Summed(m) == Touch(m, IF CanGet(m, 4) THEN m.position + 4 ELSE 0)

\* ServicePort::makeProtocol: the only service demands a checksum.
MakeProtocol(checksum, known) == checksum /\ known

\* parsePacket: with a matching checksum the packet is read from behind it. The first
\* one names its protocol.
ParsePacket ==
    /\ reader = "packet"
    /\ \E matches, known \in BOOLEAN :
         LET msg == IF matches THEN Skip(Summed(in), 4) ELSE Summed(in)
         IN  IF first
             THEN /\ in' = Get(msg, 1)
                  /\ reader' = IF MakeProtocol(matches, known) THEN "first" ELSE "closed"
             ELSE in' = msg /\ reader' = "decrypt"
    /\ first' = FALSE
    /\ UNCHANGED <<login, outVars>>

\* Platform, version and signatures.
Preamble(m) == Get(Get(Get(Get(Skip(m, 2), 2), 4), 4), 4)

\* onRecvFirstMessage up to RSA_decrypt, which puts the block at the buffer's start.
RecvFirstMessage ==
    /\ reader = "first"
    /\ LET msg == Preamble(in)
       IN  IF msg.size - msg.position = RsaSize
           THEN \E zero \in BOOLEAN :
                  /\ in' = Get([Touch(msg, msg.position + RsaSize) EXCEPT !.position = 0], 1)
                  /\ reader' = IF zero THEN "login" ELSE "closed"
           ELSE in' = msg /\ reader' = "closed"
    /\ UNCHANGED <<first, login, outVars>>

Key(m) == Get(Get(Get(Get(m, 4), 4), 4), 4)

\* The rest of it: key, name and password; then the login is refused or delegated.
RecvLogin ==
    /\ reader = "login"
    /\ \E name, password \in Lengths : in' = GetString(GetString(Key(in), name), password)
    /\ login' \in {"refuse", "list"}
    /\ reader' = "header"
    /\ UNCHANGED <<first, outVars>>

\* onRecvMessage: XTEA_decrypt, and a parsePacket that does nothing.
RecvMessage ==
    /\ reader = "decrypt"
    /\ IF (in.size - 6) % 8 # 0
       THEN UNCHANGED in
       ELSE LET length == in.size - 6
                msg == Get(Touch(in, in.position + length), 2)
            IN  \E size \in Lengths :
                  in' = IF size > in.size - 8 THEN msg ELSE [msg EXCEPT !.size = size]
    /\ reader' = "header"
    /\ UNCHANGED <<first, login, outVars>>

\* The connection is gone and the next one has a buffer of its own.
NextConnection ==
    /\ reader = "closed" /\ login = "none" /\ writer = "free"
    /\ in' = NewMessage
    /\ reader' = "header"
    /\ first' = TRUE
    /\ UNCHANGED <<login, outVars>>

-----------------------------------------------------------------------------
(* The answer.                                                                *)

Entry == <<"string", "string", "uint32", "uint16">>
Entries(n) == [i \in 1..(4 * n) |-> Entry[1 + ((i - 1) % 4)]]

\* disconnectClient puts an error and its text, delegate the message of the day, the
\* characters and the premium days. The array of 1300 bytes delegate writes that text to
\* before it is put is left out: here a string comes with any length.
Refusal == <<"char", "string">>
List(n) == <<"char", "string", "char", "char">> \o Entries(n) \o <<"uint16">>

\* getOutputMessage resets the message, but not the offset its output starts at.
GetOutputMessage ==
    /\ writer = "free" /\ login # "none"
    /\ out' = [out EXCEPT !.size = 0, !.position = CryptoHeaderSize, !.reach = 0]
    /\ \/ login = "refuse" /\ todo' = Refusal
       \/ login = "list" /\ \E n \in 0..MaxEntries : todo' = List(n)
    /\ login' = "none"
    /\ writer' = "build"
    /\ UNCHANGED <<inVars, needed, longest, frame>>

\* The next put: a field that finds no room is left out.
PutField ==
    /\ writer = "build" /\ todo # <<>>
    /\ todo' = Tail(todo)
    /\ IF Head(todo) = "string"
       THEN \E n \in Lengths :
              /\ out' = PutString(out, n)
              /\ needed' = needed + n + 2
              /\ longest' = IF n > longest THEN n ELSE longest
       ELSE /\ out' = Put(out, Width[Head(todo)])
            /\ needed' = needed + Width[Head(todo)]
            /\ UNCHANGED longest
    /\ UNCHANGED <<inVars, login, writer, frame>>

\* XTEA_encrypt goes on to the end of the padding, whether there was room for it or not.
Encrypted(m) ==
    LET n == Padding(m.size)
    IN  PutPadding(Touch(m, m.start + m.size + n), n)

\* onSendMessage: the size, the padding, the checksum and the size of all that. It is
\* done for a message that cannot be sent, too.
SendMessage ==
    /\ writer = "build" /\ todo = <<>>
    /\ LET summed == Header(Encrypted(Header(out, 2)), 4)
       IN  /\ out' = Header(summed, 2)
           /\ frame' = [inner |-> out.size, outer |-> summed.size]
    /\ writer' = "sent"
    /\ UNCHANGED <<inVars, login, todo, needed, longest>>

FreeMessageKeepsStart(m) == m

FreeMessage(m) == [m EXCEPT !.start = CryptoHeaderSize]

\* internalReleaseMessage
ReleaseMessage ==
    /\ writer = "sent"
    /\ out' = FreeMessage(out)
    /\ writer' = "free"
    /\ needed' = 0 /\ longest' = 0
    /\ frame' = NoFrame
    /\ UNCHANGED <<inVars, login, todo>>

-----------------------------------------------------------------------------
Next ==
    \/ ParseHeader \/ ParsePacket \/ RecvFirstMessage \/ RecvLogin \/ RecvMessage
    \/ NextConnection
    \/ GetOutputMessage \/ PutField \/ SendMessage \/ ReleaseMessage

Spec == Init /\ [][Next]_vars

-----------------------------------------------------------------------------
(* Properties.                                                                *)

\* No read, write, decryption or encryption leaves the buffer of its NetworkMessage,
\* whatever lengths a packet names and however full the answer is. The array in which
\* delegate prepares the message of the day is not one of these buffers.
StaysInBuffer == in.reach <= MaxSize /\ out.reach <= MaxSize

\* What a receiver must find, stated with the tests XTEA_decrypt makes of a packet of
\* this size: whole blocks behind the checksum, and an inner length that fits.
Decodable(size, inner) == (size - 6) % 8 = 0 /\ inner <= size - 8

\* A frame fills the reserved header exactly and its outer length is that of the rest.
\* It can be decoded if and only if the padding of the answer and its inner length found
\* room below NETWORK_BODY_SIZE: an answer too full for it is encrypted and sent all
\* the same, with a last block its length does not count.
FrameDecodes ==
    writer = "sent" =>
        /\ out.start = 0
        /\ frame.outer + HeaderSize = out.size
        /\ Decodable(out.size, frame.inner)
             <=> Padding(frame.inner + HeaderSize) + out.position < BodySize

\* The answer is whole if and only if all of it and the headers stay below
\* NETWORK_BODY_SIZE and no string is too long, though each field is tested by itself
\* and left out in silence: otherwise a field that was counted or announced is missing.
AnswerIsWhole ==
    writer = "sent" =>
        (frame.inner = needed
           <=> CryptoHeaderSize + needed < BodySize /\ longest <= MaxString)
=============================================================================
