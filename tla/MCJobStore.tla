----------------------------- MODULE MCJobStore -----------------------------
(* Small instances of JobStore: postings that meet by id and by content. *)
EXTENDS JobStore, TLC

CONSTANTS pA, pB, pC, rV, rP, rQ

Posting(url, domain, id, content, closesAt) ==
    [url |-> url, domain |-> domain, externalId |-> id, content |-> content,
     closesAt |-> closesAt]

\* pA and pB are one employer's requisition under two URLs and with two texts, of which pB
\* closes; pC has the content of pA and names no employer, only an id that acme uses too.
MCPost ==
    pA :> Posting("uA", "acme", "id1", "text1", -1) @@
    pB :> Posting("uB", "acme", "id1", "text2", 0) @@
    pC :> Posting("uC", None, "id1", "text1", -1)

MCRecord ==
    rV :> [posting |-> pA, verification |-> "VERIFIED", url |-> "valid", wellFormed |-> TRUE] @@
    rP :> [posting |-> pB, verification |-> "PARTIAL", url |-> "valid", wellFormed |-> TRUE] @@
    rQ :> [posting |-> pB, verification |-> "PARTIAL", url |-> "missing", wellFormed |-> TRUE]

\* Two runs that visit the sources in opposite orders wait for each other's rows.
MCFeed == "board" :> <<pB>> @@ "feed" :> <<pC>>
MCOrders == {<<"board", "feed">>, <<"feed", "board">>}
MCEnvelopes == {<<rQ, rV>>, <<rP>>}
=============================================================================
