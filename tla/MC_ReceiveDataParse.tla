------------------------- MODULE MC_ReceiveDataParse -------------------------
(* Inputs for receiveData's parse: short datagrams from the network, and   *)
(* datagrams a sender built.                                               *)
EXTENDS ReceiveDataParse

\* Every byte sequence of length 0 to 3 over bytes that set or clear the
\* two flag bits and small counts.
MCBytes == {0, 1, 64, 128, 192}
MCInputs == UNION {[1 .. k -> MCBytes] : k \in 0 .. 3}

\* Two fragments of one message, the first with a two-byte payload.
MCFirst == [id |-> 16909060, num |-> 0, isLast |-> FALSE, data |-> <<1, 2>>]
MCSecond == [id |-> 16909060, num |-> 1, isLast |-> TRUE, data |-> <<3>>]

\* Built datagrams with one full ACK, no partial-ACK field or one acking
\* fragments {0, 1, 2, 8} of a message, and one or two fragments.
MCRoundTripContents ==
    [acks : {<<2147483647>>},
     partial : {<<>>, <<<<16909060, {0, 1, 2, 8}>>>>},
     frags : {<<MCFirst>>, <<MCFirst, MCSecond>>},
     built : {TRUE}]
=============================================================================
