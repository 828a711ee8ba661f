------------------------ MODULE BuildResponseRecord ------------------------
(***************************************************************************)
(* A tunnel build response record (src/datatypes/BuildResponseRecord.cpp): *)
(* compile fills a 496-byte response with 495 random bytes and the reply   *)
(* byte, hashes it with SHA-256, and stores the first half of the digest   *)
(* in the 16-byte header and the second half before the response in the   *)
(* 512-byte data; parse recomputes the digest and checks it.               *)
(*                                                                         *)
(* SHA-256 is abstracted as collision-free: digest byte i of x is the      *)
(* token <<"sha256", x, i>>, so two digests are equal exactly when their   *)
(* inputs are.  The random bytes are one of a set of 495-byte sequences.   *)
(* The record is compiled by a hop, may have one byte changed on its way   *)
(* back, and is parsed by the tunnel's creator.                            *)
(***************************************************************************)
EXTENDS Naturals, SequencesExt

CONSTANTS
    Replies,        \* reply codes (the Reply enumeration)
    Randoms,        \* what rng.randomize may write: 495-byte sequences
    TamperAt        \* the data positions an on-path change may hit

VARIABLES
    record,         \* [header, data] as sent; both empty before compile
    chosen,         \* history: the reply the hop compiled in
    tampered,       \* history: one byte of the data was changed
    outcome         \* what parse returned; st is "none" before parse

vars == <<record, chosen, tampered, outcome>>

\* Botan's SHA-256 Hash_Filter: a 32-byte digest.
Digest(x) == [i \in 1 .. 32 |-> <<"sha256", x, i>>]

\* Lines 45-66: the response is the random bytes and the reply byte; the
\* digest's first 16 bytes go to m_header, the other 16 to m_data[0..16),
\* the response to m_data[16..512).  The size check at line 59 never fires
\* for SHA-256.
compile(reply, rand) ==
    LET response == rand \o << reply % 256 >>
        h == Digest(response)
    IN [header |-> SubSeq(h, 1, 16), data |-> SubSeq(h, 17, 32) \o response]

\* Mutant: the hash taken from one byte before the response.
hashedPartFrom16(data) == SubSeq(data, 16, Len(data))

\* Line 28: the bytes parse hashes, m_data from offset 16 on.
hashedPart(data) == SubSeq(data, 17, Len(data))

\* Mutant: only the header half of the digest compared.
hashMatchesHeader(given, calc) == SubSeq(given, 1, 16) = SubSeq(calc, 1, 16)

\* Lines 39-42: the record is valid when the two 32-byte hashes are equal.
hashMatches(given, calc) == given = calc

\* Lines 22-43: the reply is m_data.back(); givenHash is m_header followed
\* by m_data[0..16).  Nothing checks the size of m_data: with fewer than
\* 16 bytes both the hash input and givenHash are read out of bounds.
parse(header, data) ==
    IF Len(data) < 16 THEN [st |-> "overrun"]
    ELSE [st |-> "ok",
          reply |-> data[Len(data)],
          valid |-> hashMatches(header \o SubSeq(data, 1, 16), Digest(hashedPart(data)))]

\* The byte at position p of a record's data replaced by another value: a
\* different digest byte in the first 16, a different byte after them.
tamper(data, p) == [data EXCEPT ![p] = IF p <= 16 THEN Digest(<<>>)[p] ELSE (@ + 1) % 256]

-----------------------------------------------------------------------------

\* A record before compile, and parse not yet called.
Unset == [header |-> <<>>, data |-> <<>>]
NotParsed == [st |-> "none"]

\* BuildResponseRecord(Reply r) followed by compile().
compileRecord ==
    /\ record = Unset
    /\ \E reply \in Replies, rand \in Randoms :
          /\ record' = compile(reply, rand)
          /\ chosen' = reply
    /\ UNCHANGED <<tampered, outcome>>

\* The record has one data byte changed between hop and creator.
tamperRecord ==
    /\ record # Unset /\ ~tampered /\ outcome = NotParsed
    /\ \E p \in TamperAt : record' = [record EXCEPT !.data = tamper(@, p)]
    /\ tampered' = TRUE
    /\ UNCHANGED <<chosen, outcome>>

\* The creator calls parse() on the record it received.
parseRecord ==
    /\ record # Unset /\ outcome = NotParsed
    /\ outcome' = parse(record.header, record.data)
    /\ UNCHANGED <<record, chosen, tampered>>

Init ==
    /\ record = Unset
    /\ chosen = 0
    /\ tampered = FALSE
    /\ outcome = NotParsed

\* The record has been parsed: nothing is left to do.
Done == outcome # NotParsed /\ UNCHANGED vars

Next == compileRecord \/ tamperRecord \/ parseRecord \/ Done

Spec == Init /\ [][Next]_vars

\* A record compiled by a hop and delivered unchanged parses as valid and
\* yields the reply the hop chose, whatever the random padding.
AcceptsCompiled ==
    outcome # NotParsed /\ ~tampered =>
        outcome = [st |-> "ok", reply |-> chosen % 256, valid |-> TRUE]

\* A record with any one data byte changed, the digest half in front of
\* the response included, is rejected by parse.
RejectsTampered ==
    outcome # NotParsed /\ tampered => ~outcome.valid

=============================================================================
