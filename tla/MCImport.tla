------------------------------ MODULE MCImport ------------------------------
(* Instances of the import pipeline for TLC: uploads as they are sent, and  *)
(* what the parser makes of them.                                           *)
EXTENDS ImportPipeline, TLC

CONSTANTS
  c1, c2, c3, m1, m2, t1, t2, f1, f2,
  Uploaded      \* the bytes of each file

Msg(id, text) == [uuid |-> id, sender |-> "human", text |-> text, dated |-> TRUE]
Conv(id, messages) == [uuid |-> id, dated |-> TRUE, messages |-> messages]
Json(items) == [archive |-> FALSE, payload |-> items]
Zip(name, items) == [archive |-> TRUE, entries |-> <<[name |-> name, payload |-> items]>>]

\* The keys of messages without uuid.
MCPlaces == {SeqKey(1), SeqKey(2)}

\* Two exports of one conversation whose messages have no uuid; in the second, in
\* an archive, one more comes first, so that the old one changes its place.
\* Whatever else is uploaded is not an export.
MCUploaded ==
  [f \in Files |->
     IF f = f1 THEN Json(<<Conv(c1, <<Msg(None, t1)>>)>>)
     ELSE IF f = f2
     THEN Zip("conversations.json",
              <<Conv(None, <<Msg(None, t1)>>), Conv(c1, <<Msg(None, t2), Msg(None, t1)>>)>>)
     ELSE Zip("other", <<>>)]

MCParsed ==
  LET texts(a, b) == [c \in ConvIds |-> SeqKey(1) :> a @@ SeqKey(2) :> b] IN
    [f \in Files |->
       IF f = f1 THEN [order |-> <<c1>>, text |-> texts(t1, None)]
       ELSE IF f = f2 THEN [order |-> <<c1>>, text |-> texts(t2, t1)]
       ELSE Unreadable]

\* Two exports with the same two conversations in opposite orders; in the first, a
\* conversation without messages that have a text, in the second a message twice.
MCCrossingUploaded ==
  [f \in Files |->
     Json(IF f = f1
          THEN <<Conv(c1, <<Msg(m1, t1)>>), Conv(c3, <<Msg(m1, None)>>), Conv(c2, <<Msg(m1, t1)>>)>>
          ELSE <<Conv(c2, <<Msg(m1, t1), Msg(m1, t2)>>), Conv(c1, <<Msg(m1, t2)>>)>>)]

MCCrossing ==
  [f \in Files |->
     [order |-> IF f = f1 THEN <<c1, c3, c2>> ELSE <<c2, c1>>,
      text  |-> [c \in ConvIds |-> [m \in MsgIds |->
                   IF c = c3 THEN None ELSE IF f = f1 THEN t1 ELSE t2]]]]

\* The parser makes of the uploads what the runs work on.
ASSUME MCParsedAssumption == \A f \in Files : Parsed[f] = LoadConversations(Uploaded[f])

MCSymmetry == Permutations(Requests) \cup Permutations(Workers)
=============================================================================
