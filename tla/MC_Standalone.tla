----------------------------- MODULE MC_Standalone -----------------------------
(***************************************************************************)
(* The components whose properties hold and which share no state with one *)
(* another, checked in one run: the SSU data datagram (ReceiveDataParse),  *)
(* the tunnel build response record (BuildResponseRecord) and the router   *)
(* process (RouterLifecycle).  The run checks their disjoint union: the    *)
(* variable part says which component a behaviour is about; that          *)
(* component takes its own steps and the others' variables stay at their  *)
(* initial values.                                                         *)
(***************************************************************************)
EXTENDS Naturals, Sequences

VARIABLES
    sent, dg,                               \* ReceiveDataParse
    record, chosen, tampered, outcome,      \* BuildResponseRecord
    pc, svc, quit, graceful, stopped,       \* RouterLifecycle
    signalled,                              \* RouterLifecycle's sent
    part                                    \* which component this behaviour is about

rdpVars == <<sent, dg>>
brrVars == <<record, chosen, tampered, outcome>>
lcVars == <<pc, svc, quit, graceful, stopped, signalled>>
vars == <<rdpVars, brrVars, lcVars, part>>

\* Message ids 0, 0x7FFFFFFF (the largest TLC integer) and one with four
\* distinct bytes.
MCIds == {0, 16909060, 2147483647}

\* Fragments: the number at 0, 1 and the 7-bit maximum, either last flag,
\* an empty or a two-byte payload.
MCFrags == [id : {16909060, 2147483647}, num : {0, 1, 127},
            isLast : BOOLEAN, data : {<<>>, <<255, 0>>}]

\* Acked fragment sets: one byte, two bytes with a gap, and a set ending on
\* the last bit of the first byte and the first of the second.
MCAckSets == {{0}, {0, 1, 2, 8}, {6, 7, 13}}

\* Partial-ACK fields for one message id: none, one or two fields.
MCPartial == {<<>>} \cup {<<<<16909060, S>>>> : S \in MCAckSets}
             \cup {<<<<16909060, S>>, <<16909060, T>>>> : S, T \in MCAckSets}

\* Up to one full ACK, two partial-ACK fields and one fragment per datagram.
MCContents ==
    [acks : {<<>>} \cup {<<i>> : i \in MCIds},
     partial : MCPartial,
     frags : {<<>>} \cup {<<f>> : f \in MCFrags},
     built : {TRUE}]

\* Reply codes 0 (accept), 10 (probabilistic reject) and 30 (bandwidth
\* reject).
MCReplies == {0, 10, 30}

\* Two paddings: all zero, and one whose bytes differ from position to
\* position.
MCRandoms == {[i \in 1 .. 495 |-> 0], [i \in 1 .. 495 |-> (7 * i) % 256]}

\* Digest bytes in the data (first, middle, last), padding bytes (first,
\* two in the middle, last) and the reply byte.
MCTamperAt == {1, 8, 16, 17, 256, 400, 511, 512}

\* Both signals main.cpp handles, each delivered up to twice (a user may
\* press Ctrl-C again when the first one seems ignored).
MCSignals == {"SIGINT", "SIGUSR1"}
MCMaxDeliveries == 2

RDP == INSTANCE ReceiveDataParse WITH Contents <- MCContents, Inputs <- {}

BRR == INSTANCE BuildResponseRecord
           WITH Replies <- MCReplies, Randoms <- MCRandoms, TamperAt <- MCTamperAt

\* The service loop of lib/i2p/Router.cpp, with a start that may throw.
LC == INSTANCE RouterLifecycle
          WITH CatchInServiceLoop <- TRUE, StartMayFail <- TRUE,
               Signals <- MCSignals, MaxDeliveries <- MCMaxDeliveries,
               sent <- signalled

\* The components not in play keep their initial values.
Init ==
    /\ \/ part = "datagram" /\ RDP!Init
       \/ part \in {"record", "lifecycle"} /\ sent = RDP!Unbuilt /\ dg = <<>>
    /\ BRR!Init
    /\ LC!Init

\* A step of one component leaves the others' variables unchanged.
RecordStep == part = "record" /\ BRR!Next /\ UNCHANGED <<rdpVars, lcVars, part>>
LifecycleStep(A) == part = "lifecycle" /\ A /\ UNCHANGED <<rdpVars, brrVars, part>>

Next ==
    \/ RecordStep
    \/ LifecycleStep(LC!Next)
    \/ part = "datagram" /\ UNCHANGED vars

\* RouterLifecycle's fairness: the OS schedules main and the service thread.
Spec == Init /\ [][Next]_vars
        /\ WF_vars(LifecycleStep(LC!MainStep)) /\ WF_vars(LifecycleStep(LC!ServiceStep))

\* ReceiveDataParse: a built datagram cut short is rejected, not overread.
TruncationDetected == RDP!TruncationDetected

\* BuildResponseRecord: an unchanged record parses as valid with its reply.
AcceptsCompiled == BRR!AcceptsCompiled

\* BuildResponseRecord: a record with one byte changed fails the hash check.
RejectsTampered == BRR!RejectsTampered

\* RouterLifecycle: once main has called Router::stop, the service loop
\* leaves run() even if a handler threw around the stop, and the process
\* exits.
StopLeadsToExit == LC!StopLeadsToExit
=============================================================================
