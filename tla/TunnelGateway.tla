--------------------------- MODULE TunnelGateway ---------------------------
(***************************************************************************)
(* The I2NP TunnelGateway message body (src/i2np/TunnelGateway.cpp):       *)
(* getBytes writes the tunnel id, a 16-bit payload size and the payload;   *)
(* parse reads them back.  A byte is an integer in 0..255.                 *)
(*                                                                         *)
(* parse builds each field from several *(begin++) operands of one         *)
(* expression.  The operands of | are unsequenced, so modifying begin in   *)
(* more than one of them is undefined behaviour; the builds one meets read *)
(* each operand's byte from a distinct position, in whatever order the     *)
(* compiler evaluates the operands.  parse therefore yields a set of       *)
(* results, one per evaluation order.  Tunnel ids are at most 2^31 - 1,    *)
(* the largest TLC integer.                                                *)
(***************************************************************************)
EXTENDS Naturals, SequencesExt

CONSTANT Msgs       \* messages to serialise: [tunnelId, data]

VARIABLE msg        \* the message serialised and parsed back

\* b.insert(b.end(), x) stores x converted to unsigned char.
byte(x) == x % 256

\* Lines 7-20: the id big-endian, then uint16_t size = m_data.size(), then
\* all of m_data.
getBytes(tunnelId, data) ==
    LET size == Len(data) % 2^16
    IN << byte(tunnelId \div 2^24), byte(tunnelId \div 2^16),
          byte(tunnelId \div 2^8), byte(tunnelId),
          byte(size \div 2^8), byte(size) >> \o data

\* The orders in which k unsequenced *(begin++) operands can take the k
\* bytes after begin: operand i reads offset ord[i].
readOrders(k) == SetToSeqs(0 .. k - 1)

\* The operands shifted and or-ed together: operand i supplies the i-th
\* most significant byte.
readBE(bytes, pos, ord) == FoldLeft(LAMBDA acc, o : acc * 256 + bytes[pos + o], 0, ord)

\* Lines 23-31: the tunnel id from 4 bytes and the size from 2, with no
\* length check, then m_data = ByteArray(begin, begin + size).  A read past
\* the end of bytes is reported as overrun.
parse(bytes) ==
    IF Len(bytes) < 6 THEN {[st |-> "overrun"]}
    ELSE {LET size == readBE(bytes, 5, so)
          IN IF 6 + size > Len(bytes) THEN [st |-> "overrun"]
             ELSE [st |-> "ok", tunnelId |-> readBE(bytes, 1, io),
                   data |-> SubSeq(bytes, 7, 6 + size)]
          : io \in readOrders(4), so \in readOrders(2)}

Init == msg \in Msgs

Next == UNCHANGED msg

Spec == Init /\ [][Next]_msg

\* Message::toBytes and Message::fromBytes pair getBytes with parse: every
\* build of parse reads back exactly the tunnel id and payload getBytes
\* wrote.
RoundTrip ==
    parse(getBytes(msg.tunnelId, msg.data))
        = {[st |-> "ok", tunnelId |-> msg.tunnelId, data |-> msg.data]}

=============================================================================
