-------------------------- MODULE ReceiveDataParse --------------------------
(***************************************************************************)
(* The byte-level parse of an SSU data datagram by                         *)
(* InboundMessageFragments::receiveData (src/lib/ssu/                      *)
(* InboundMessageFragments.cpp, lines 29-97): flag byte, full-ACK list,    *)
(* partial-ACK fields, fragment count and fragment headers, with the       *)
(* length checks the code makes and the ones it leaves out.  A byte is an  *)
(* integer in 0..255.  A read past the end of the datagram is undefined    *)
(* behaviour in the code; the parse stops there with status "overrun".     *)
(* The datagram builder, and the partial-ACK bitfield encoding, follow the *)
(* wire format of spec 6 and 9, since PacketBuilder is not in the source   *)
(* tree.                                                                   *)
(***************************************************************************)
EXTENDS Naturals, SequencesExt

CONSTANTS
    Contents,   \* what senders put in a datagram: [acks, partial, frags]
    Inputs      \* arbitrary byte sequences arriving from the network

VARIABLES
    sent,       \* the content a sender built dg from, or Unbuilt
    dg          \* the datagram handed to receiveData

vars == <<sent, dg>>

bit(b, i) == (b \div 2^i) % 2 = 1

\* std::distance(begin, end) with begin at position pos.
remaining(bytes, pos) == Len(bytes) - pos + 1

\* parseUint32: four bytes, big-endian (spec 6).
parseUint32(bytes, pos) ==
    ((bytes[pos] * 256 + bytes[pos + 1]) * 256 + bytes[pos + 2]) * 256 + bytes[pos + 3]

\* A parse step's result: status, position after it, and what it read.
result(st, pos, val) == [st |-> st, pos |-> pos, val |-> val]

\* Lines 37-42: numAcks message ids (the length was checked before).
RECURSIVE parseAcks(_, _, _, _)
parseAcks(bytes, pos, k, acc) ==
    IF k = 0 THEN result("ok", pos, acc)
    ELSE parseAcks(bytes, pos + 4, k - 1, Append(acc, parseUint32(bytes, pos)))

\* Line 66, the do/while condition: another byte follows when the high bit
\* is set.
continues(b) == bit(b, 7)

\* Lines 57-64: the inner loop pairs bit i (6 down to 0) with j (0 up to 6)
\* and marks fragment byteNum*7 + j.
fragOfBit(byteNum, i) == byteNum * 7 + (6 - i)

\* Lines 54-67: one bitfield, read byte by byte while the high bit is set,
\* with no length check.
RECURSIVE parseBitfield(_, _, _, _)
parseBitfield(bytes, pos, byteNum, acc) ==
    IF pos > Len(bytes) THEN result("overrun", pos, acc)
    ELSE LET b == bytes[pos]
             set == acc \cup {fragOfBit(byteNum, i) : i \in {i \in 0 .. 6 : bit(b, i)}}
         IN IF continues(b) THEN parseBitfield(bytes, pos + 1, (byteNum + 1) % 256, set)
            ELSE result("ok", pos + 1, set)

\* Lines 48-71: numFields (message id, bitfield) pairs, unchecked.
RECURSIVE parsePartial(_, _, _, _)
parsePartial(bytes, pos, k, acc) ==
    IF k = 0 THEN result("ok", pos, acc)
    ELSE IF remaining(bytes, pos) < 4 THEN result("overrun", pos, acc)
    ELSE LET bf == parseBitfield(bytes, pos + 4, 0, {})
         IN IF bf.st # "ok" THEN result(bf.st, bf.pos, acc)
            ELSE parsePartial(bytes, bf.pos, k - 1,
                              Append(acc, <<parseUint32(bytes, pos), bf.val>>))

\* Mutant: the header length test one byte short.
headerTooShortBy6(bytes, pos) == remaining(bytes, pos) < 6

\* Line 79: a fragment header is a 4-byte id and a 3-byte info field.
headerTooShort(bytes, pos) == remaining(bytes, pos) < 7

\* Mutant: the fragment number shifted one bit too little.
fragNumShift16(info) == info \div 2^16

\* Lines 83-92: the 24-bit info field: fragment number in the top 7 bits,
\* the last flag in bit 16, the size in the low 14 bits.
fragNum(info) == info \div 2^17
fragIsLast(info) == bit(info, 16)
fragSize(info) == info % 2^14

\* Lines 78-97: numFragments fragments, each header and payload checked.
\* Line 95 copies the payload into fragData but never advances begin past
\* it, so the next header is read from this fragment's payload.
RECURSIVE parseFrags(_, _, _, _)
parseFrags(bytes, pos, k, acc) ==
    IF k = 0 THEN result("ok", pos, acc)
    ELSE IF headerTooShort(bytes, pos) THEN result("malformed", pos, acc)
    \* the header read at lines 80-84 when the check above lets too few
    \* bytes through
    ELSE IF remaining(bytes, pos) < 7 THEN result("overrun", pos, acc)
    ELSE LET info == (bytes[pos + 4] * 256 + bytes[pos + 5]) * 256 + bytes[pos + 6]
             size == fragSize(info)
             at   == pos + 7
         IN IF remaining(bytes, at) < size THEN result("malformed", at, acc)
            ELSE parseFrags(bytes, at, k - 1,
                    Append(acc, [id |-> parseUint32(bytes, pos), num |-> fragNum(info),
                                 isLast |-> fragIsLast(info),
                                 data |-> SubSeq(bytes, at, at + size - 1)]))

\* receiveData up to the fragment loop: what it reads, or where it stops.
parseData(bytes) ==
    IF remaining(bytes, 1) < 1 THEN [st |-> "malformed"]
    ELSE LET flag == bytes[1]
             a == IF ~bit(flag, 7) THEN result("ok", 2, <<>>)
                  ELSE IF remaining(bytes, 2) < 1 THEN result("malformed", 2, <<>>)
                  ELSE IF remaining(bytes, 3) < bytes[2] * 4
                       THEN result("malformed", 3, <<>>)
                  ELSE parseAcks(bytes, 3, bytes[2], <<>>)
             p == IF a.st # "ok" \/ ~bit(flag, 6) THEN result(a.st, a.pos, <<>>)
                  ELSE IF a.pos > Len(bytes) THEN result("overrun", a.pos, <<>>)
                  ELSE parsePartial(bytes, a.pos + 1, bytes[a.pos], <<>>)
             f == IF p.st # "ok" THEN result(p.st, p.pos, <<>>)
                  ELSE IF remaining(bytes, p.pos) < 1 THEN result("malformed", p.pos, <<>>)
                  ELSE parseFrags(bytes, p.pos + 1, bytes[p.pos], <<>>)
         IN [st |-> f.st, acks |-> a.val, partial |-> p.val, frags |-> f.val]

-----------------------------------------------------------------------------
(* The datagram as the sender builds it (spec 6).                          *)

u32Bytes(x) == << (x \div 2^24) % 256, (x \div 2^16) % 256, (x \div 2^8) % 256, x % 256 >>

\* Spec 6 and 9: 7 data bits per byte, fragment byteNum*7 + bitPos in bit
\* bitPos, the high bit set on every byte but the last, and
\* (max fragment \div 7) + 1 bytes.
encodeBitfield(S) ==
    LET nbytes == IF S = {} THEN 1 ELSE Max(S) \div 7 + 1
        dataBits(k) == {f \in S : f \div 7 = k}
        byte(k) == (IF k < nbytes - 1 THEN 128 ELSE 0)
                   + MapThenSumSet(LAMBDA f : 2^(f % 7), dataBits(k))
    IN [k \in 1 .. nbytes |-> byte(k - 1)]

fragBytes(fr) ==
    LET info == fr.num * 2^17 + (IF fr.isLast THEN 2^16 ELSE 0) + Len(fr.data)
    IN u32Bytes(fr.id) \o << (info \div 2^16) % 256, (info \div 2^8) % 256, info % 256 >>
                       \o fr.data

buildData(acks, partial, frags) ==
    << (IF acks = <<>> THEN 0 ELSE 128) + (IF partial = <<>> THEN 0 ELSE 64) >>
    \o (IF acks = <<>> THEN <<>>
        ELSE <<Len(acks)>> \o FoldLeft(LAMBDA s, id : s \o u32Bytes(id), <<>>, acks))
    \o (IF partial = <<>> THEN <<>>
        ELSE <<Len(partial)>> \o FoldLeft(LAMBDA s, p : s \o u32Bytes(p[1]) \o encodeBitfield(p[2]),
                                           <<>>, partial))
    \o << Len(frags) >>
    \o FoldLeft(LAMBDA s, fr : s \o fragBytes(fr), <<>>, frags)

-----------------------------------------------------------------------------

\* A datagram whose content no sender chose.
Unbuilt == [acks |-> <<>>, partial |-> <<>>, frags |-> <<>>, built |-> FALSE]

Init == \/ /\ sent \in Contents
           /\ dg = buildData(sent.acks, sent.partial, sent.frags)
        \/ /\ sent = Unbuilt
           /\ dg \in Inputs

Next == UNCHANGED vars

Spec == Init /\ [][Next]_vars

\* Spec 4.3, 6 and 8: a datagram built with full ACKs, partial-ACK fields
\* and fragments parses back to what was put in it: the same ACK ids, the
\* same partial-ACK fields (message id and acked fragment set, in order)
\* and the same fragments (id, number, last flag, payload bytes).  This
\* needs every loop of receiveData to leave begin where the builder put
\* the next field, and the bitfield loop to read bits as they were written.
ParseRoundTrip ==
    sent.built =>
        LET r == parseData(dg) IN
        /\ r.st = "ok"
        /\ r.acks = sent.acks
        /\ r.partial = sent.partial
        /\ r.frags = sent.frags

\* Spec 4.3: a built datagram cut short anywhere is rejected as malformed
\* (receiveData throws) and never read past its end.  Only datagrams with
\* at most one fragment and no partial-ACK fields: the code checks no read
\* of a partial-ACK field (see NoOverread), and reads a second fragment's
\* header from the wrong place (see ParseRoundTrip).
TruncationDetected ==
    sent.built /\ sent.partial = <<>> /\ Len(sent.frags) <= 1 =>
        \A k \in 0 .. Len(dg) - 1 : parseData(SubSeq(dg, 1, k)).st = "malformed"

\* Spec 4.3: any datagram, however malformed, is either parsed or rejected
\* with MalformedPacket; receiveData never reads beyond its end.
NoOverread == parseData(dg).st # "overrun"

=============================================================================
