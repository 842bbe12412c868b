--------------------------- MODULE SearchService ---------------------------
(* What a query or a chat message reads of the imports: whether the user    *)
(* has any, and the records a search ranks.  A record belongs to the user   *)
(* of the conversation it names now, whoever uploaded it.                   *)
EXTENDS ImportStore

\* user_has_imported_conversations; without any, no search is made.
HasImports(u) == \E k \in ConvKeys : convs[k] # None /\ convs[k].owner = u

\* The messages with a record that the search joins with one of u's conversations;
\* it returns the nearest of them.
Candidates(u) ==
  {e \in ConvKeys \X MsgIds :
     /\ HasImports(u)
     /\ convs[e[1]] # None /\ convs[e[1]].owner = u
     /\ embs[e[1]][e[2]] # <<>>}
=============================================================================
