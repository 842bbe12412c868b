--------------------------- MODULE ClaudeParser ---------------------------
(* load_conversations_from_bytes: from an uploaded file to conversations    *)
(* with keyed messages.  A raw message is [uuid, sender, text, dated], a    *)
(* raw conversation [uuid, dated, messages]; None stands for a field that   *)
(* is missing, empty or of another type, and for an item that is no object. *)
(* "dated" tells whether the timestamps parse.                              *)
EXTENDS Naturals, Sequences, FiniteSets

CONSTANTS
  ConvIds, MsgIds, Texts,      \* external uuids of conversations and messages, contents
  Unreadable,                  \* a file that raises ValueError
  None                         \* the null value

\* A message without uuid is named by its place in the list.
SeqKey(place) == <<"seq", place - 1>>

MessageKey(ms, i) == IF ms[i].uuid # None THEN ms[i].uuid ELSE SeqKey(i)

\* Messages without sender or text are left out; they keep their place.
KeptMessages(ms) ==
  {i \in DOMAIN ms : ms[i] # None /\ ms[i].sender # None /\ ms[i].text # None}

\* Of two messages with one key the import keeps the last.
Places(ms, m) == {i \in KeptMessages(ms) : MessageKey(ms, i) = m}

TextOf(ms, m) ==
  IF Places(ms, m) = {} THEN None
  ELSE ms[CHOOSE i \in Places(ms, m) : \A n \in Places(ms, m) : n <= i].text

Identified(raw) == raw # None /\ raw.uuid # None

\* One timestamp that does not parse fails the file.
Dated(raw) == raw.dated /\ \A i \in KeptMessages(raw.messages) : raw.messages[i].dated

ParsePayload(items) ==
  LET convs == SelectSeq(items, Identified) IN
    IF items = Unreadable \/ \E i \in DOMAIN convs : ~Dated(convs[i]) THEN Unreadable
    ELSE [order |-> [i \in DOMAIN convs |-> convs[i].uuid],
          text  |-> [c \in ConvIds |-> [m \in MsgIds |->
                       IF \E i \in DOMAIN convs : convs[i].uuid = c
                       THEN TextOf((CHOOSE x \in {convs[i] : i \in DOMAIN convs} : x.uuid = c).messages, m)
                       ELSE None]]]

\* An upload is a payload, or an archive of named ones: conversations.json, or
\* else the first .json; a broken archive is one without entries.
PayloadOf(file) ==
  LET named(n) == {i \in DOMAIN file.entries : file.entries[i].name \in n}
      first(S) == file.entries[CHOOSE i \in S : \A j \in S : i <= j].payload
  IN IF ~file.archive THEN file.payload
     ELSE IF named({"conversations.json"}) # {} THEN first(named({"conversations.json"}))
     ELSE IF named({"json"}) # {} THEN first(named({"json"}))
     ELSE Unreadable

LoadConversations(file) ==
  IF PayloadOf(file) = Unreadable THEN Unreadable ELSE ParsePayload(PayloadOf(file))
=============================================================================
