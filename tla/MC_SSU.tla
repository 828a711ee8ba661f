------------------------------- MODULE MC_SSU -------------------------------
(* Instances of the SSU data path for TLC: one receiver, us, and up to two *)
(* sending peers.                                                          *)
EXTENDS SSU

CONSTANTS us, p1, p2, m1, m2

\* One message of two fragments: reordering, partial ACKs, retransmission
\* of single fragments.
SendsTwoFrag == {[src |-> p1, dst |-> us, id |-> m1, n |-> 2]}

\* One single-fragment message: the shortest path to a completed message
\* that still receives retransmissions.
SendsOneFrag == {[src |-> p1, dst |-> us, id |-> m1, n |-> 1]}

\* Two peers that picked the same message id for messages to us.
SendsSameId == {[src |-> p1, dst |-> us, id |-> m1, n |-> 2],
                [src |-> p2, dst |-> us, id |-> m1, n |-> 1]}

\* Two messages from two peers with distinct ids.
SendsTwoPeers == {[src |-> p1, dst |-> us, id |-> m1, n |-> 2],
                  [src |-> p2, dst |-> us, id |-> m2, n |-> 1]}

\* One peer that hands sendData a second message, for another router, under
\* an id still in flight.
SendsReuseId == {[src |-> p1, dst |-> us, id |-> m1, n |-> 2],
                 [src |-> p1, dst |-> p2, id |-> m1, n |-> 1]}
=============================================================================
