-------------------------------- MODULE SSU ---------------------------------
(***************************************************************************)
(* The SSU data path of i2pcpp: outbound fragmentation and retransmission  *)
(* (src/lib/ssu/OutboundMessageFragments.cpp), inbound reassembly and ACK  *)
(* application (src/lib/ssu/InboundMessageFragments.cpp), the periodic ACK *)
(* flush (src/lib/ssu/AcknowledgementManager.h) and the UDP network        *)
(* between routers.  Every handler runs atomically on the single reactor   *)
(* thread (src/lib/i2p/Router.cpp), so one handler is one action; the      *)
(* order in which ready handlers run is left open.                         *)
(*                                                                         *)
(* Data is abstracted: the payload of a fragment is the router that sent   *)
(* it, so an assembled message tells which senders its fragments came      *)
(* from.  Wire encoding is left to ReceiveDataParse.                          *)
(***************************************************************************)
EXTENDS Naturals, SequencesExt, Functions, TLC

CONSTANTS
    Routers,    \* routers taking part (model values)
    MsgIds,     \* the 32-bit message id space, abstracted to a few ids
    Sends       \* messages the upper layer asks to send:
                \* records [src, dst, id, n] with n the number of fragments

\* The retry ceiling of OutboundMessageFragments::timerCallback (line 73).
RetryLimit == 5

\* Fragment numbers carried by any message (7 bits in the wire header).
FragNums == 0 .. (Max({s.n : s \in Sends}) - 1)

\* "No last fragment seen yet" in an inbound message state.
NoLast == -1

VARIABLES
    omf,        \* omf[r]: msgId -> outbound message state at router r
    imf,        \* imf[r]: msgId -> inbound message state at router r
    posted,     \* sendDataCallback handlers posted to the reactor: <<r, id, d>>,
                \* d the peer of the PeerState the handler was bound to
    net,        \* UDP datagrams in flight
    delivered,  \* bag of upward deliveries (receivedSignal posts)
    everRcvd,   \* history: <<src, dst, id, frag>> fragments a receiver parsed
    outcome,    \* history: outcome[r][id] of an outbound message
    txCount,    \* history: datagrams sent for outbound message [r][id]
    faulted,    \* history: sendDataCallback threw "no ssu fragment"
    issued      \* history: the records of Sends passed to sendData

vars == <<omf, imf, posted, net, delivered, everRcvd, outcome, txCount, faulted, issued>>

Outcomes == {"none", "pending", "acked", "abandoned"}

OMS == [dst : Routers, n : 1 .. Cardinality(FragNums), sent : SUBSET FragNums,
        ackd : SUBSET FragNums, tries : 0 .. RetryLimit + 1, timer : BOOLEAN]

IMS == [hash : Routers, last : FragNums \cup {NoLast}, pending : BOOLEAN]

Frag == [id : MsgIds, num : FragNums, isLast : BOOLEAN]

\* f is a function from part of D into T.
IsPartialFn(f, D, T) == DOMAIN f \subseteq D /\ \A x \in DOMAIN f : f[x] \in T

IsPacket(p) ==
    /\ p.src \in Routers /\ p.dst \in Routers
    /\ p.acks \subseteq MsgIds
    /\ IsPartialFn(p.partial, MsgIds, SUBSET FragNums)
    /\ \A i \in DOMAIN p.frags : p.frags[i] \in Frag

\* Deliveries are counted up to DeliveryCap: "twice" stands for "more than
\* once", which is all the properties tell apart.
DeliveryCap == 2

TypeOK ==
    /\ \A r \in Routers :
          /\ IsPartialFn(omf[r], MsgIds, OMS)
          /\ DOMAIN imf[r] \subseteq MsgIds
          /\ \A m \in DOMAIN imf[r] :
                /\ [hash |-> imf[r][m].hash, last |-> imf[r][m].last,
                    pending |-> imf[r][m].pending] \in IMS
                /\ IsPartialFn(imf[r][m].rcvd, FragNums, Routers)
    /\ posted \subseteq Routers \X MsgIds \X Routers
    /\ \A p \in net : IsPacket(p)
    /\ \A d \in DOMAIN delivered : delivered[d] \in 1 .. DeliveryCap
    /\ outcome \in [Routers -> [MsgIds -> Outcomes]]
    /\ txCount \in [Routers -> [MsgIds -> Nat]]
    /\ faulted \in BOOLEAN
    /\ issued \subseteq Sends

-----------------------------------------------------------------------------
(* Helpers on the data kept per message.  InboundMessageState and          *)
(* OutboundMessageState are not in the source tree; these follow the spec *)
(* (sections 3, 4.3, 4.4).                                                 *)

\* InboundMessageState::addFragment: record the fragment (a fragment that is
\* already present keeps its first copy) and, if it is the last, its index.
addFragment(ims, num, data, isLast) ==
    [ims EXCEPT !.rcvd = ims.rcvd @@ (num :> data),
                !.last = IF isLast THEN num ELSE ims.last,
                !.pending = TRUE]

\* Mutant: completion decided by the last fragment alone.
allFragmentsReceivedLastOnly(ims) == ims.last # NoLast

\* InboundMessageState::allFragmentsReceived: the last fragment is known and
\* every fragment 0..last is present.
allFragmentsReceived(ims) ==
    /\ ims.last # NoLast
    /\ 0 .. ims.last \subseteq DOMAIN ims.rcvd

\* OutboundMessageState: its fragment numbers, and whether all are acked.
fragNums(oms) == 0 .. (oms.n - 1)

allFragmentsAckd(oms) == fragNums(oms) \subseteq oms.ackd

\* PacketBuilder::buildData with empty ACK lists and one fragment, as
\* OutboundMessageFragments sends it to the endpoint of the PeerState d its
\* handler was bound to.
dataPacket(r, d, oms, m, f) ==
    [src |-> r, dst |-> d, acks |-> {}, partial |-> <<>>,
     frags |-> << [id |-> m, num |-> f, isLast |-> f = oms.n - 1] >>]

\* Encrypt the datagram and hand it to the socket (Context::sendPacket).
transmit(r, d, oms, m, f) ==
    /\ net' = net \cup {dataPacket(r, d, oms, m, f)}
    /\ txCount' = [txCount EXCEPT ![r][m] = @ + 1]

-----------------------------------------------------------------------------
(* OutboundMessageFragments                                                *)

\* Mutant: the ceiling tested one try late.
retriesExhaustedLate(oms) == oms.tries > RetryLimit + 1

\* The retry ceiling test of timerCallback.
retriesExhausted(oms) == oms.tries > RetryLimit

\* sendData: arm the 2 s retransmission timer bound to this PeerState,
\* emplace the state and post the first sendDataCallback bound to it.  With
\* the id still in flight emplace keeps the old state (and the new timer is
\* destroyed with the new one), but the callback is posted all the same.
sendData(s) ==
    LET r == s.src IN
    /\ s \notin issued
    /\ omf' = [omf EXCEPT ![r] =
                 @ @@ (s.id :> [dst |-> s.dst, n |-> s.n, sent |-> {}, ackd |-> {},
                               tries |-> 0, timer |-> TRUE])]
    /\ posted' = posted \cup {<<r, s.id, s.dst>>}
    /\ outcome' = [outcome EXCEPT ![r][s.id] = "pending"]
    /\ issued' = issued \cup {s}
    /\ UNCHANGED <<imf, net, delivered, everRcvd, txCount, faulted>>

\* A handler that throws: the exception unwinds out of io_service::run to the
\* service thread of Router::start, which logs it and runs the reactor
\* again.  The handler's remaining effects are lost; the rest of the queue
\* is kept.
unwindToServiceLoop(r, m, d) ==
    /\ faulted' = TRUE
    /\ posted' = posted \ {<<r, m, d>>}

\* sendDataCallback: send the next unsent fragment of the state found by id
\* to the bound peer d, and post itself again while some remain.  With no
\* unsent fragment it throws.
sendDataCallback(r, m, d) ==
    /\ <<r, m, d>> \in posted
    /\ IF m \in DOMAIN omf[r]
       THEN LET oms    == omf[r][m]
                unsent == fragNums(oms) \ oms.sent
            IN IF unsent = {}
               THEN /\ unwindToServiceLoop(r, m, d)
                    /\ UNCHANGED <<omf, net, txCount>>
               ELSE LET f == Min(unsent)
                        o2 == [oms EXCEPT !.sent = @ \cup {f}]
                    IN /\ omf' = [omf EXCEPT ![r][m] = o2]
                       /\ transmit(r, d, oms, m, f)
                       /\ posted' = IF fragNums(o2) \subseteq o2.sent
                                    THEN posted \ {<<r, m, d>>}
                                    ELSE posted
                       /\ UNCHANGED faulted
       ELSE /\ posted' = posted \ {<<r, m, d>>}
            /\ UNCHANGED <<omf, net, txCount, faulted>>
    /\ UNCHANGED <<imf, delivered, everRcvd, outcome, issued>>

\* Mutant: the resend does not count the try.
resendNoCount(oms, f) == [oms EXCEPT !.sent = @ \cup {f}]

\* Lines 83-89: markFragmentSent and incrementTries for a resent fragment.
resend(oms, f) == [oms EXCEPT !.sent = @ \cup {f}, !.tries = @ + 1]

\* Mutant: the erase at the ceiling falls through to the resend.
omfTimerCallbackNoReturn(r, m) ==
    /\ m \in DOMAIN omf[r]
    /\ omf[r][m].timer
    /\ LET oms == omf[r][m] IN
       IF retriesExhausted(oms)
       THEN /\ omf' = [omf EXCEPT ![r] = Restrict(@, DOMAIN @ \ {m})]
            /\ outcome' = [outcome EXCEPT ![r][m] = "abandoned"]
            /\ transmit(r, oms.dst, oms, m, 0)
       ELSE /\ IF fragNums(oms) \subseteq oms.ackd
               THEN /\ omf' = [omf EXCEPT ![r][m].timer = FALSE]
                    /\ UNCHANGED <<net, txCount>>
               ELSE \E f \in fragNums(oms) \ oms.ackd :
                    /\ omf' = [omf EXCEPT ![r][m] = resend(oms, f)]
                    /\ transmit(r, oms.dst, oms, m, f)
            /\ UNCHANGED outcome
    /\ UNCHANGED <<imf, posted, delivered, everRcvd, faulted, issued>>

\* timerCallback: past the retry ceiling drop the state; otherwise resend
\* one unacknowledged fragment, count the try and re-arm the timer.  With
\* no unacknowledged fragment the timer is not re-armed.
omfTimerCallback(r, m) ==
    /\ m \in DOMAIN omf[r]
    /\ omf[r][m].timer
    /\ LET oms == omf[r][m] IN
       IF retriesExhausted(oms)
       THEN /\ omf' = [omf EXCEPT ![r] = Restrict(@, DOMAIN @ \ {m})]
            /\ outcome' = [outcome EXCEPT ![r][m] = "abandoned"]
            /\ UNCHANGED <<net, txCount>>
       ELSE /\ IF fragNums(oms) \subseteq oms.ackd
               THEN /\ omf' = [omf EXCEPT ![r][m].timer = FALSE]
                    /\ UNCHANGED <<net, txCount>>
               ELSE \E f \in fragNums(oms) \ oms.ackd :
                    /\ omf' = [omf EXCEPT ![r][m] = resend(oms, f)]
                    /\ transmit(r, oms.dst, oms, m, f)
            /\ UNCHANGED outcome
    /\ UNCHANGED <<imf, posted, delivered, everRcvd, faulted, issued>>

-----------------------------------------------------------------------------
(* InboundMessageFragments::receiveData, applied to one datagram.          *)

\* Full ACKs: delState for every listed id (removing the state cancels its
\* timer).
applyAcks(t, acks) == Restrict(t, DOMAIN t \ acks)

\* Partial ACKs: mark the listed fragments of a known state, and delState
\* the ones that became fully acknowledged.  Datagrams carry decoded
\* fragment sets: the sets ackPacket put in are the sets marked here, i.e.
\* the bitfield writer (PacketBuilder, not in the tree) is taken to use the
\* bit order the reader of lines 57-64 uses.  Under the spec's bit order
\* the two disagree; ReceiveDataParse checks that at the byte level.
markAckd(t, partial) ==
    [m \in DOMAIN t |->
        IF m \in DOMAIN partial
        THEN [t[m] EXCEPT !.ackd = @ \cup partial[m]]
        ELSE t[m]]

\* Mutant: every partially acked state is dropped.
applyPartialDropAll(t, partial) ==
    Restrict(markAckd(t, partial), DOMAIN t \ DOMAIN partial)

\* Mutant: fully acked states are kept.
applyPartialKeep(t, partial) == markAckd(t, partial)

applyPartial(t, partial) ==
    LET marked == markAckd(t, partial)
    IN Restrict(marked, {m \in DOMAIN marked :
                           ~(m \in DOMAIN partial /\ allFragmentsAckd(marked[m]))})

\* checkAndPost: a complete message is posted upward with its assembled
\* payload (the map from fragment number to the data received for it).
checkAndPost(dlv, r, m, ims) ==
    IF allFragmentsReceived(ims)
    THEN LET d == [at |-> r, from |-> ims.hash, id |-> m, data |-> ims.rcvd]
         IN IF d \in DOMAIN dlv
            THEN [dlv EXCEPT ![d] = IF @ < DeliveryCap THEN @ + 1 ELSE @]
            ELSE (d :> 1) @@ dlv
    ELSE dlv

\* One iteration of the fragment loop: find the state by id alone, or create
\* it (addState arms its 10 s timer); add the fragment; checkAndPost.
receiveFragment(acc, r, rh, fr) ==
    LET t   == acc.imf
        ims == IF fr.id \in DOMAIN t
               THEN addFragment(t[fr.id], fr.num, rh, fr.isLast)
               ELSE addFragment([hash |-> rh, rcvd |-> <<>>, last |-> NoLast,
                                 pending |-> FALSE], fr.num, rh, fr.isLast)
    IN [imf |-> (fr.id :> ims) @@ t,
        delivered |-> checkAndPost(acc.delivered, r, fr.id, ims)]

receiveData(p) ==
    LET r   == p.dst
        t1  == applyAcks(omf[r], p.acks)
        t2  == applyPartial(t1, p.partial)
        gone == DOMAIN omf[r] \ DOMAIN t2
        acc == FoldLeft(LAMBDA a, fr : receiveFragment(a, r, p.src, fr),
                        [imf |-> imf[r], delivered |-> delivered], p.frags)
    IN /\ omf' = [omf EXCEPT ![r] = t2]
       /\ outcome' = [outcome EXCEPT ![r] =
                        [m \in MsgIds |-> IF m \in gone THEN "acked" ELSE @[m]]]
       /\ imf' = [imf EXCEPT ![r] = acc.imf]
       /\ delivered' = acc.delivered
       /\ everRcvd' = everRcvd \cup
                        {<<p.src, r, fr.id, fr.num>> : fr \in ToSet(p.frags)}

\* InboundMessageFragments::timerCallback: 10 s after creation the state is
\* erased, complete or not.
imfTimerCallback(r, m) ==
    /\ m \in DOMAIN imf[r]
    /\ imf' = [imf EXCEPT ![r] = Restrict(@, DOMAIN @ \ {m})]
    /\ UNCHANGED <<omf, posted, net, delivered, everRcvd, outcome, txCount, faulted, issued>>

-----------------------------------------------------------------------------
(* AcknowledgementManager::flushAckCallback (body not in the source tree;  *)
(* from spec 4.5): once a second, for each peer with states whose ACK is   *)
(* pending, send one datagram acking complete messages in full and the     *)
(* others by the fragments received; then clear the pending flags.         *)

ackPacket(r, h) ==
    LET mine == {m \in DOMAIN imf[r] : imf[r][m].hash = h /\ imf[r][m].pending}
        done == {m \in mine : allFragmentsReceived(imf[r][m])}
    IN [src |-> r, dst |-> h, acks |-> done,
        partial |-> [m \in mine \ done |-> DOMAIN imf[r][m].rcvd],
        frags |-> << >>]

flushAckCallback(r) ==
    LET peers == {imf[r][m].hash : m \in {x \in DOMAIN imf[r] : imf[r][x].pending}}
    IN /\ net' = net \cup {ackPacket(r, h) : h \in peers}
       /\ imf' = [imf EXCEPT ![r] = [m \in DOMAIN @ |-> [@[m] EXCEPT !.pending = FALSE]]]
       /\ UNCHANGED <<omf, posted, delivered, everRcvd, outcome, txCount, faulted, issued>>

-----------------------------------------------------------------------------
(* The UDP network: datagrams are reordered (net is a set), lost, or      *)
(* delivered more than once (a receive may leave the datagram in flight). *)

Receive(p) ==
    /\ p \in net
    /\ receiveData(p)
    /\ \/ net' = net \ {p}
       \/ net' = net
    /\ UNCHANGED <<posted, txCount, faulted, issued>>

Lose(p) ==
    /\ p \in net
    /\ net' = net \ {p}
    /\ UNCHANGED <<omf, imf, posted, delivered, everRcvd, outcome, txCount, faulted, issued>>

-----------------------------------------------------------------------------

Init ==
    /\ omf = [r \in Routers |-> <<>>]
    /\ imf = [r \in Routers |-> <<>>]
    /\ posted = {}
    /\ net = {}
    /\ delivered = <<>>
    /\ everRcvd = {}
    /\ outcome = [r \in Routers |-> [m \in MsgIds |-> "none"]]
    /\ txCount = [r \in Routers |-> [m \in MsgIds |-> 0]]
    /\ faulted = FALSE
    /\ issued = {}

Next ==
    \/ \E s \in Sends : sendData(s)
    \/ \E r \in Routers, m \in MsgIds :
          \/ \E d \in Routers : sendDataCallback(r, m, d)
          \/ omfTimerCallback(r, m)
          \/ imfTimerCallback(r, m)
    \/ \E r \in Routers : flushAckCallback(r)
    \/ \E p \in net : Receive(p)
    \/ \E p \in net : Lose(p)

\* The reactor runs every posted handler and every expired timer; the ACK
\* timer re-arms itself forever.  The network and the upper layer get no
\* fairness: datagrams may be lost for ever and sends are optional.
Fairness ==
    /\ \A r \in Routers, m \in MsgIds :
          /\ \A d \in Routers : WF_vars(sendDataCallback(r, m, d))
          /\ WF_vars(omfTimerCallback(r, m))
          /\ WF_vars(imfTimerCallback(r, m))
    /\ \A r \in Routers : WF_vars(flushAckCallback(r))

Spec == Init /\ [][Next]_vars /\ Fairness

-----------------------------------------------------------------------------
(* Properties                                                              *)

\* Spec 3 and 6: completing a message triggers exactly one upward delivery
\* (receivedSignal from checkAndPost), however many retransmitted or
\* duplicated copies of its fragments arrive afterwards.
AtMostOnceDelivery ==
    \A d1, d2 \in DOMAIN delivered :
        (d1.at = d2.at /\ d1.from = d2.from /\ d1.id = d2.id)
            => d1 = d2 /\ delivered[d1] = 1

\* What checkAndPost delivers as message <<from, id>> is exactly that
\* sender's message: all of its fragments, each carrying that sender's data
\* (inbound states are looked up by message id in receiveData).
DeliveryIntegrity ==
    \A d \in DOMAIN delivered :
        \E s \in Sends :
            /\ s.src = d.from /\ s.dst = d.at /\ s.id = d.id
            /\ d.data = [i \in 0 .. s.n - 1 |-> s.src]

\* A message handed to sendData whose id the ACK path of receiveData then
\* removed had every fragment parsed by its receiver: the sender never drops
\* a message as acknowledged while part of it is missing.
AckedImpliesReceived ==
    \A s \in issued :
        outcome[s.src][s.id] = "acked" =>
            \A f \in 0 .. s.n - 1 : <<s.src, s.dst, s.id, f>> \in everRcvd

\* Spec 3: once an outbound state is removed (acked or abandoned) no further
\* datagram of that message is sent, by the sendDataCallback chain or by a
\* retransmission timer.
NoSendAfterRemoval ==
    [][\A r \in Routers, m \in MsgIds :
          txCount'[r][m] # txCount[r][m] => outcome'[r][m] = "pending"]_vars

\* Spec 3 and 4.4: the sendDataCallback chain sends each fragment once and
\* timerCallback resends one fragment per try until the try counter passes
\* the ceiling, so one message never costs more than n + RetryLimit + 1
\* datagrams, however the chain, the timer and the ACKs interleave.
MaxTransmissions ==
    \A s \in Sends : txCount[s.src][s.id] <= s.n + RetryLimit + 1

\* sendDataCallback always finds an unsent fragment to send (it throws
\* "no ssu fragment when sending" otherwise).
NoSendFault == ~faulted

\* A message the sender removed as acknowledged was handed up at the
\* receiver (spec 4.3: full ACKs are "our messages the peer confirms
\* receiving in full"), even when the receiver's 10 s timer erased a
\* half-received state and a retransmitted fragment started a new one.
AckedImpliesDelivered ==
    \A s \in Sends :
        outcome[s.src][s.id] = "acked" =>
            \E d \in DOMAIN delivered : d.at = s.dst /\ d.from = s.src /\ d.id = s.id

\* Every outbound state is eventually removed, by ACKs or by the retry
\* ceiling, so the table and its timers cannot leak.
OutboundEventuallyRemoved ==
    \A r \in Routers, m \in MsgIds :
        (m \in DOMAIN omf[r]) ~> (m \notin DOMAIN omf[r])

=============================================================================
