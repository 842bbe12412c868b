------------------------------ MODULE Listing ------------------------------
(* A client walks the pages of a list (GET /users, /organizations,          *)
(* /imports) while its rows change.  An answer takes two statements, the    *)
(* count and the page, and each sees what is committed when it runs; a row  *)
(* is placed by created_at, the start of the transaction that inserted it,  *)
(* so it may appear anywhere in the list.                                   *)
EXTENDS Naturals, SequencesExt

CONSTANTS
  Rows,
  Stamps,          \* values of created_at
  PageSize,
  MaxEntered, MaxLeft      \* bounds on the rows that enter and leave the list

ASSUME ListingAssumption ==
  /\ IsFiniteSet(Rows)
  /\ Stamps \subseteq Nat
  /\ PageSize \in 1..100
  /\ MaxEntered \in Nat /\ MaxLeft \in Nat

\* Organizations are listed as users are.
Kinds == {"users", "imports"}

VARIABLES
  kind,            \* which list is walked
  created,         \* created_at of each row
  listed,          \* the committed rows that pass the filter
  page, total,     \* of the request under way or last answered
  pc,              \* "ask", "counted" or "done"
  got,             \* how often each row was in an answer
  standing,        \* rows listed ever since the walk began
  entered, left,   \* rows that entered and left the list since
  gap              \* rows that entered it since the last count

vars == <<kind, created, listed, page, total, pc, got, standing, entered, left, gap>>

(***************************************************************************)
(* The list.                                                               *)
(***************************************************************************)
\* Imports are listed newest first.
Before(r, s) ==
  IF kind = "imports" THEN created[r] > created[s] ELSE created[r] < created[s]

\* Mutant: the statement without its ORDER BY.
ListedUnordered == SetToSeqs(listed)

\* The orders a statement may return the rows in: rows of one created_at come in any.
Listed ==
  {q \in SetToSeqs(listed) :
     \A i, j \in 1..Len(q) : Before(q[i], q[j]) => i < j}

\* Mutant: the incomplete page is not counted.
TotalPagesFull == total \div PageSize

TotalPages == IF total > 0 THEN (total + PageSize - 1) \div PageSize ELSE 0

(***************************************************************************)
(* Actions.                                                                *)
(***************************************************************************)
Init ==
  /\ kind \in Kinds
  /\ created \in [Rows -> Stamps]
  /\ listed \in SUBSET Rows
  /\ page = 1 /\ total = 0
  /\ pc = "ask"
  /\ got = [r \in Rows |-> 0]
  /\ standing = listed
  /\ entered = 0 /\ left = 0 /\ gap = 0

\* paginate: SELECT count(*).
Count ==
  /\ pc = "ask"
  /\ total' = Cardinality(listed)
  /\ gap' = 0
  /\ pc' = "counted"
  /\ UNCHANGED <<kind, created, listed, page, got, standing, entered, left>>

\* paginate: the page; the client goes on to the next one until it has total_pages.
Select ==
  /\ pc = "counted"
  /\ \E q \in Listed :
       LET offset == (page - 1) * PageSize
           items == {q[i] : i \in (offset + 1)..(offset + PageSize) \cap 1..Len(q)}
       IN got' = [r \in Rows |-> IF r \in items THEN got[r] + 1 ELSE got[r]]
  /\ IF page < TotalPages THEN page' = page + 1 /\ pc' = "ask"
                          ELSE page' = page /\ pc' = "done"
  /\ UNCHANGED <<kind, created, listed, total, standing, entered, left, gap>>

\* A row is committed, or changed so that the filter lists it.
Enter(r) ==
  /\ pc # "done"
  /\ r \notin listed
  /\ entered < MaxEntered
  /\ listed' = listed \cup {r}
  /\ entered' = entered + 1
  /\ gap' = gap + 1
  /\ UNCHANGED <<kind, created, page, total, pc, got, standing, left>>

\* A row is deleted, or changed so that the filter does not list it; a user's
\* jobs never are.
Leave(r) ==
  /\ pc # "done"
  /\ kind # "imports"
  /\ r \in listed
  /\ left < MaxLeft
  /\ listed' = listed \ {r}
  /\ standing' = standing \ {r}
  /\ left' = left + 1
  /\ UNCHANGED <<kind, created, page, total, pc, got, entered, gap>>

Next == Count \/ Select \/ \E r \in Rows : Enter(r) \/ Leave(r)

Spec == Init /\ [][Next]_vars

(***************************************************************************)
(* Properties.                                                             *)
(***************************************************************************)
\* Rows with a created_at of their own: the place of the others is not fixed.
Placed == {r \in Rows : \A s \in Rows \ {r} : created[s] # created[r]}

\* A walk over all pages misses no more of the rows that were in the list all
\* along than rows left it, or entered it after the last count.
MissedAreAccounted ==
  pc = "done" =>
    Cardinality({r \in standing \cap Placed : got[r] = 0}) <= left + gap

\* It shows no more of them twice than rows entered it.
RepeatedAreAccounted ==
  pc = "done" =>
    Cardinality({r \in standing \cap Placed : got[r] > 1}) <= entered
=============================================================================
