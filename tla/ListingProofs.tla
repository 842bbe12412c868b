--------------------------- MODULE ListingProofs ---------------------------
(* Theorems about a walk over the pages of a list, for any number of rows,  *)
(* any page size and whatever enters and leaves the list meanwhile.         *)
EXTENDS Listing, FiniteSetTheorems, TLAPS

(***************************************************************************)
(* The inductive invariant.                                                *)
(***************************************************************************)
TypeOK ==
  /\ kind \in Kinds
  /\ created \in [Rows -> Stamps]
  /\ listed \in SUBSET Rows
  /\ page \in Nat \ {0} /\ total \in Nat
  /\ pc \in {"ask", "counted", "done"}
  /\ got \in [Rows -> Nat]
  /\ standing \in SUBSET listed
  /\ entered \in Nat /\ left \in Nat /\ gap \in Nat

\* How many rows a page statement returns before row r.
Ahead(r) == {s \in listed : Before(s, r)}
Rank(r) == Cardinality(Ahead(r))

\* How many places of the list the answered requests asked for.
Asked == IF pc = "done" THEN page * PageSize ELSE (page - 1) * PageSize

\* Rows in the list all along, at a place of their own.
Fixed == standing \cap Placed

\* Those the walk has passed and not shown, and those it has shown and will show
\* again, or has.
Missed == {r \in Fixed : got[r] = 0 /\ Rank(r) < Asked}
Repeated == {r \in Fixed : got[r] > 1 \/ (got[r] > 0 /\ Rank(r) >= Asked)}

\* The list has outgrown the last count only by what entered since; the walk ends
\* when the counted places are asked for.
CountInv ==
  /\ pc # "ask" => Cardinality(listed) <= total + gap
  /\ pc = "done" => total <= Asked

WalkInv == Cardinality(Missed) <= left /\ Cardinality(Repeated) <= entered

Inv == TypeOK /\ CountInv /\ WalkInv

(***************************************************************************)
(* Places in the list.                                                     *)
(***************************************************************************)
LEMMA FiniteRows ==
  ASSUME NEW S \in SUBSET Rows
  PROVE  IsFiniteSet(S) /\ Cardinality(S) \in Nat
  BY ListingAssumption, FS_Subset, FS_CardinalityType

\* A set that gains at most one row, and one that gains none.
LEMMA AtMostOneMore ==
  ASSUME NEW S \in SUBSET Rows, NEW T \in SUBSET Rows, NEW x, T \subseteq S \cup {x}
  PROVE  Cardinality(T) <= Cardinality(S) + 1
<1>1. IsFiniteSet(S) /\ Cardinality(S) \in Nat /\ Cardinality(T) \in Nat BY FiniteRows
<1>2. /\ IsFiniteSet(S \cup {x})
      /\ Cardinality(S \cup {x}) = IF x \in S THEN Cardinality(S) ELSE Cardinality(S) + 1
  BY <1>1, FS_AddElement
<1>3. Cardinality(T) <= Cardinality(S \cup {x}) BY <1>2, FS_Subset
<1>4. QED BY <1>1, <1>2, <1>3

LEMMA NoMore ==
  ASSUME NEW S \in SUBSET Rows, NEW T \in SUBSET S
  PROVE  Cardinality(T) <= Cardinality(S)
  BY FiniteRows, FS_Subset

\* Before is an order on created_at, in which a placed row is before or after any other.
LEMMA BeforeFacts ==
  ASSUME TypeOK
  PROVE  /\ \A r \in Rows : ~Before(r, r)
         /\ \A r, s \in Rows : Before(r, s) => ~Before(s, r)
         /\ \A r, s, t \in Rows : Before(r, s) /\ Before(s, t) => Before(r, t)
         /\ \A r \in Placed, s \in Rows : r # s => Before(r, s) \/ Before(s, r)
<1>1. \A r \in Rows : created[r] \in Nat BY ListingAssumption DEF TypeOK
<1>2. QED BY <1>1 DEF Before, Placed

LEMMA RankType ==
  ASSUME TypeOK, NEW r
  PROVE  IsFiniteSet(Ahead(r)) /\ Rank(r) \in Nat
<1>1. Ahead(r) \in SUBSET Rows BY DEF Ahead, TypeOK
<1>2. QED BY <1>1, FiniteRows DEF Rank

\* A listed row has more rows ahead of it than the rows ahead of it have.
LEMMA RankOrder ==
  ASSUME TypeOK, NEW r \in listed, NEW s \in Rows, Before(r, s)
  PROVE  Rank(r) < Rank(s)
<1>1. r \in Rows BY DEF TypeOK
<1>2. Ahead(r) \subseteq Ahead(s) BY <1>1, BeforeFacts DEF Ahead, TypeOK
<1>3. r \in Ahead(s) /\ r \notin Ahead(r) BY <1>1, BeforeFacts DEF Ahead
<1>4. IsFiniteSet(Ahead(s)) /\ Rank(s) \in Nat /\ Rank(r) \in Nat BY RankType
<1>5. /\ Cardinality(Ahead(r)) <= Cardinality(Ahead(s))
      /\ Cardinality(Ahead(s)) = Cardinality(Ahead(r)) => Ahead(s) = Ahead(r)
  BY <1>2, <1>4, FS_Subset
<1>6. QED BY <1>3, <1>4, <1>5 DEF Rank

\* Placed rows of the list have places of their own.
LEMMA RankDistinct ==
  ASSUME TypeOK, NEW r \in listed \cap Placed, NEW s \in listed \cap Placed, Rank(r) = Rank(s)
  PROVE  r = s
<1>1. SUFFICES ASSUME r # s PROVE FALSE OBVIOUS
<1>2. r \in Rows /\ s \in Rows BY DEF TypeOK
<1>3. Before(r, s) \/ Before(s, r) BY <1>1, <1>2, BeforeFacts
<1>4. Rank(r) \in Nat /\ Rank(s) \in Nat BY RankType
<1>5. QED BY <1>2, <1>3, <1>4, RankOrder

\* A listed row's place is one of the list's.
LEMMA RankBound ==
  ASSUME TypeOK, NEW r \in listed
  PROVE  Rank(r) < Cardinality(listed)
<1>1. r \in Rows /\ listed \in SUBSET Rows BY DEF TypeOK
<1>2. IsFiniteSet(listed) /\ Cardinality(listed) \in Nat BY <1>1, FiniteRows
<1>3. Ahead(r) \subseteq listed /\ r \notin Ahead(r) BY <1>1, BeforeFacts DEF Ahead
<1>4. /\ Cardinality(Ahead(r)) <= Cardinality(listed)
      /\ Cardinality(listed) = Cardinality(Ahead(r)) => listed = Ahead(r)
  BY <1>2, <1>3, FS_Subset
<1>5. Rank(r) \in Nat BY RankType
<1>6. QED BY <1>2, <1>3, <1>4, <1>5 DEF Rank

\* Placed rows at places from n on are no more than the list has places from n on.
LEMMA RanksAbove ==
  ASSUME TypeOK, NEW n \in Nat, NEW S \in SUBSET (listed \cap Placed), \A r \in S : Rank(r) >= n
  PROVE  Cardinality(S) <= (IF Cardinality(listed) > n THEN Cardinality(listed) - n ELSE 0)
<1> DEFINE size == Cardinality(listed)
           f == [r \in S |-> Rank(r)]
<1>1. size \in Nat BY FiniteRows DEF TypeOK
<1>2. \A r \in S : Rank(r) \in Nat /\ Rank(r) >= n /\ Rank(r) < size BY RankType, RankBound
<1> HIDE DEF size
<1>3. \A r \in S : Rank(r) \in n..(size - 1) BY <1>1, <1>2
<1>4. f \in Injection(S, n..(size - 1))
  <2>1. f \in [S -> n..(size - 1)] BY <1>3
  <2>2. \A r, s \in S : f[r] = f[s] => r = s BY RankDistinct
  <2>3. QED BY <2>1, <2>2 DEF Injection, IsInjective
<1>5. /\ IsFiniteSet(n..(size - 1))
      /\ Cardinality(n..(size - 1)) = IF n > size - 1 THEN 0 ELSE size - 1 - n + 1
  BY <1>1, FS_Interval
<1>6. Cardinality(S) <= Cardinality(n..(size - 1)) BY <1>4, <1>5, FS_Injection
<1>7. QED BY <1>1, <1>5, <1>6 DEF size

\* An answer returns a placed row at its place, and there only.
LEMMA AtRank ==
  ASSUME TypeOK, NEW q \in Listed, NEW r \in listed \cap Placed
  PROVE  /\ Rank(r) + 1 \in 1..Len(q)
         /\ \A i \in 1..Len(q) : q[i] = r <=> i = Rank(r) + 1
<1> DEFINE size == Cardinality(listed)
<1>1. listed \in SUBSET Rows /\ IsFiniteSet(listed) /\ size \in Nat
  BY FiniteRows DEF TypeOK
<1>2. /\ q \in [1..size -> listed]
      /\ \A i, j \in 1..size : i # j => q[i] # q[j]
      /\ \A i, j \in 1..Len(q) : Before(q[i], q[j]) => i < j
  BY DEF Listed, SetToSeqs
<1>3. Len(q) = size BY <1>1, <1>2
<1> HIDE DEF size
<1>4. \A x \in listed : \E i \in 1..size : q[i] = x
  <2>1. q \in Injection(1..size, listed) BY <1>2 DEF Injection, IsInjective
  <2>2. IsFiniteSet(1..size) /\ Cardinality(1..size) = size BY <1>1, FS_Interval
  <2>3. q \in Surjection(1..size, listed) BY <1>1, <2>1, <2>2, FS_Injection DEF size
  <2>4. QED BY <2>3 DEF Surjection
<1>5. PICK i \in 1..size : q[i] = r BY <1>4
<1>6. \A j \in 1..size : j < i => Before(q[j], r)
  <2> SUFFICES ASSUME NEW j \in 1..size, j < i PROVE Before(q[j], r) OBVIOUS
  <2>1. q[j] \in Rows /\ q[j] # r BY <1>1, <1>2, <1>5
  <2>2. Before(q[j], r) \/ Before(r, q[j]) BY <2>1, BeforeFacts
  <2>3. ~Before(r, q[j]) BY <1>1, <1>2, <1>3, <1>5
  <2>4. QED BY <2>2, <2>3
<1>7. \A j \in 1..size : Before(q[j], r) => j < i BY <1>2, <1>3, <1>5
<1> DEFINE g == [j \in 1..(i - 1) |-> q[j]]
<1>8. g \in Bijection(1..(i - 1), Ahead(r))
  <2>1. g \in [1..(i - 1) -> Ahead(r)]
    <3>1. \A j \in 1..(i - 1) : j \in 1..size /\ j < i BY <1>1
    <3>2. QED BY <1>2, <1>6, <3>1 DEF Ahead
  <2>2. \A j, n \in 1..(i - 1) : g[j] = g[n] => j = n BY <1>1, <1>2
  <2>3. \A x \in Ahead(r) : \E j \in 1..(i - 1) : g[j] = x
    <3> SUFFICES ASSUME NEW x \in Ahead(r) PROVE \E j \in 1..(i - 1) : g[j] = x OBVIOUS
    <3>1. PICK j \in 1..size : q[j] = x BY <1>4 DEF Ahead
    <3>2. j < i BY <1>7, <3>1 DEF Ahead
    <3>3. j \in 1..(i - 1) BY <1>1, <3>2
    <3>4. QED BY <3>1, <3>3
  <2>4. QED BY <2>1, <2>2, <2>3 DEF Bijection, Injection, IsInjective, Surjection
<1>9. IsFiniteSet(1..(i - 1)) /\ Cardinality(1..(i - 1)) = i - 1 BY <1>1, FS_Interval
<1>10. Rank(r) = i - 1
  <2>1. ExistsBijection(1..(i - 1), Ahead(r)) BY <1>8 DEF ExistsBijection
  <2>2. QED BY <1>9, <2>1, FS_Bijection DEF Rank
<1>11. Rank(r) + 1 = i BY <1>1, <1>10
<1>12. QED BY <1>2, <1>3, <1>5, <1>11

(***************************************************************************)
(* The invariant is kept.                                                  *)
(***************************************************************************)
\* A walk starts with nothing asked for and nothing shown.
LEMMA InitInv == Init => Inv
<1> SUFFICES ASSUME Init PROVE Inv OBVIOUS
<1>1. TypeOK BY DEF Init, TypeOK
<1>2. CountInv BY DEF Init, CountInv
<1>3. Asked = 0 BY ListingAssumption DEF Init, Asked
<1>4. Missed = {} /\ Repeated = {}
  <2>1. \A r \in Fixed : r \in Rows /\ got[r] = 0 /\ Rank(r) \in Nat
    BY <1>1, RankType DEF Init, Fixed, TypeOK
  <2>2. QED BY <1>3, <2>1 DEF Missed, Repeated
<1>5. WalkInv BY <1>4, FS_EmptySet DEF Init, WalkInv
<1>6. QED BY <1>1, <1>2, <1>5 DEF Inv

\* Every step keeps the types.
LEMMA NextTypeOK == TypeOK /\ [Next]_vars => TypeOK'
<1> SUFFICES ASSUME TypeOK, [Next]_vars PROVE TypeOK' OBVIOUS
<1>1. Cardinality(listed) \in Nat BY FiniteRows DEF TypeOK
<1>2. CASE Count BY <1>1, <1>2 DEF Count, TypeOK
<1>3. CASE Select
  <2>1. PICK q \in Listed :
          got' = [r \in Rows |->
                    IF r \in {q[i] : i \in ((page - 1) * PageSize + 1)..((page - 1) * PageSize + PageSize)
                                             \cap 1..Len(q)}
                      THEN got[r] + 1 ELSE got[r]]
    BY <1>3 DEF Select
  <2>2. got' \in [Rows -> Nat] BY <2>1 DEF TypeOK
  <2>3. page' \in Nat \ {0} /\ pc' \in {"ask", "done"} BY <1>3 DEF Select, TypeOK
  <2>4. QED BY <1>3, <2>2, <2>3 DEF Select, TypeOK
<1>4. ASSUME NEW r \in Rows, Enter(r) PROVE TypeOK' BY <1>4 DEF Enter, TypeOK
<1>5. ASSUME NEW r \in Rows, Leave(r) PROVE TypeOK' BY <1>5 DEF Leave, TypeOK
<1>6. CASE UNCHANGED vars BY <1>6 DEF vars, TypeOK
<1>7. QED BY <1>2, <1>3, <1>4, <1>5, <1>6 DEF Next

\* The places asked for are a number, and the sets counted are of rows.
LEMMA WalkTypes ==
  ASSUME TypeOK
  PROVE  /\ Asked \in Nat
         /\ Fixed \subseteq listed \cap Placed /\ Fixed \subseteq Rows
         /\ Missed \in SUBSET Fixed /\ Repeated \in SUBSET Fixed
         /\ \A r \in Fixed : got[r] \in Nat /\ Rank(r) \in Nat
<1>1. PageSize \in Nat /\ page \in Nat /\ page - 1 \in Nat BY ListingAssumption DEF TypeOK
<1>2. page * PageSize \in Nat /\ (page - 1) * PageSize \in Nat BY <1>1
<1>3. Asked \in Nat BY <1>2 DEF Asked
<1>4. Fixed \subseteq listed \cap Placed /\ Fixed \subseteq Rows BY DEF Fixed, TypeOK
<1>5. \A r \in Fixed : got[r] \in Nat /\ Rank(r) \in Nat BY <1>4, RankType DEF TypeOK
<1>6. QED BY <1>3, <1>4, <1>5 DEF Missed, Repeated

\* The count takes what is listed; nothing moves.
LEMMA CountStep == ASSUME Inv, Count PROVE CountInv' /\ WalkInv'
<1>1. CountInv'
  <2>1. Cardinality(listed) \in Nat BY FiniteRows DEF Inv, TypeOK
  <2>2. QED BY <2>1 DEF Count, CountInv
<1>2. /\ Asked' = Asked /\ Fixed' = Fixed
      /\ \A r \in Rows : Rank(r)' = Rank(r)
  BY DEF Count, Asked, Fixed, Placed, Rank, Ahead, Before
<1>3. Missed' = Missed /\ Repeated' = Repeated
  BY <1>2, WalkTypes DEF Count, Inv, Missed, Repeated
<1>4. QED BY <1>1, <1>3 DEF Inv, Count, WalkInv

\* As many pages as total_pages says hold the counted rows.
LEMMA PagesHoldTotal ==
  ASSUME total \in Nat, NEW p \in Nat, p >= TotalPages
  PROVE  total <= p * PageSize
<1>1. PageSize \in Nat /\ PageSize > 0 BY ListingAssumption
<1>2. p * PageSize \in Nat BY <1>1
<1>3. CASE total = 0 BY <1>2, <1>3
<1>4. CASE total > 0
  <2> DEFINE n == (total + PageSize - 1) \div PageSize
  <2>1. n \in Nat /\ total + PageSize - 1 < (n + 1) * PageSize BY <1>1
  <2>2. n <= p BY <1>4 DEF TotalPages
  <2> HIDE DEF n
  <2>3. (n + 1) * PageSize = n * PageSize + PageSize BY <1>1, <2>1
  <2>4. n * PageSize <= p * PageSize BY <1>1, <2>1, <2>2
  <2>5. n * PageSize \in Nat BY <1>1, <2>1
  <2>6. QED BY <1>1, <1>2, <2>1, <2>3, <2>4, <2>5
<1>5. QED BY <1>3, <1>4

\* An answer shows the rows at the places it asks for, so none of them is passed over,
\* and one shown a second time was bound to be.
LEMMA SelectStep == ASSUME Inv, Select PROVE CountInv' /\ WalkInv'
<1> DEFINE offset == (page - 1) * PageSize
<1>1. TypeOK BY DEF Inv
<1>2. /\ PageSize \in Nat /\ page \in Nat /\ page - 1 \in Nat /\ offset \in Nat
      /\ page * PageSize = offset + PageSize
  <2>1. PageSize \in Nat /\ page \in Nat /\ page - 1 \in Nat
    BY <1>1, ListingAssumption DEF TypeOK
  <2>2. offset \in Nat BY <2>1
  <2>3. page * PageSize = (page - 1) * PageSize + PageSize BY <2>1
  <2>4. QED BY <2>1, <2>2, <2>3
<1>3. Asked = offset BY DEF Select, Asked
<1>4. Asked' = page * PageSize
  <2>1. CASE page < TotalPages
    <3>1. page' = page + 1 /\ pc' = "ask" BY <2>1 DEF Select
    <3>2. (page' - 1) = page BY <1>2, <3>1
    <3>3. QED BY <3>1, <3>2 DEF Asked
  <2>2. CASE ~(page < TotalPages)
    <3>1. page' = page /\ pc' = "done" BY <2>2 DEF Select
    <3>2. QED BY <3>1 DEF Asked
  <2>3. QED BY <2>1, <2>2
<1>5. CountInv'
  <2>1. /\ Cardinality(listed) <= total + gap
        /\ UNCHANGED <<listed, total, gap>>
    BY DEF Inv, CountInv, Select
  <2>2. ASSUME pc' = "done" PROVE total' <= Asked'
    <3>1. ~(page < TotalPages) BY <2>2 DEF Select
    <3>2. total \in Nat /\ TotalPages \in Nat
      <4>1. total \in Nat /\ PageSize \in Nat /\ PageSize > 0
        BY <1>1, ListingAssumption DEF TypeOK
      <4>2. total > 0 => (total + PageSize - 1) \div PageSize \in Nat BY <4>1
      <4>3. QED BY <4>1, <4>2 DEF TotalPages
    <3>3. total <= page * PageSize BY <1>2, <3>1, <3>2, PagesHoldTotal
    <3>4. QED BY <1>4, <2>1, <3>3
  <2>3. QED BY <2>1, <2>2 DEF CountInv
<1> DEFINE Shown(q) == {q[i] : i \in (offset + 1)..(offset + PageSize) \cap 1..Len(q)}
<1>6. PICK q \in Listed :
        got' = [r \in Rows |-> IF r \in Shown(q) THEN got[r] + 1 ELSE got[r]]
  BY DEF Select
<1>7. \A r \in Fixed : r \in Shown(q) <=> Asked <= Rank(r) /\ Rank(r) < Asked'
  <2> SUFFICES ASSUME NEW r \in Fixed
               PROVE  r \in Shown(q) <=> Asked <= Rank(r) /\ Rank(r) < Asked'
    OBVIOUS
  <2>1. r \in listed \cap Placed /\ Rank(r) \in Nat BY <1>1, WalkTypes
  <2>2. /\ Rank(r) + 1 \in 1..Len(q)
        /\ \A i \in 1..Len(q) : q[i] = r <=> i = Rank(r) + 1
    BY <1>1, <2>1, AtRank
  <2>3. r \in Shown(q) <=> Rank(r) + 1 \in (offset + 1)..(offset + PageSize)
    BY <2>2
  <2> HIDE DEF offset, Shown
  <2>4. QED BY <1>2, <1>3, <1>4, <2>1, <2>3
<1> HIDE DEF offset, Shown
<1>8. /\ Fixed' = Fixed
      /\ \A r \in Rows : Rank(r)' = Rank(r)
  BY DEF Select, Fixed, Placed, Rank, Ahead, Before
<1>9. \A r \in Fixed : /\ r \in Rows /\ got[r] \in Nat /\ Rank(r) \in Nat
                       /\ got'[r] = IF r \in Shown(q) THEN got[r] + 1 ELSE got[r]
  BY <1>1, <1>6, WalkTypes
<1>10. Missed' \subseteq Missed
  <2> SUFFICES ASSUME NEW r \in Fixed, got'[r] = 0, Rank(r)' < Asked' PROVE r \in Missed
    BY <1>8 DEF Missed
  <2>1. Rank(r) < Asked' BY <1>8, <1>9
  <2>2. got[r] = 0 /\ r \notin Shown(q) BY <1>9
  <2>3. Rank(r) < Asked BY <1>2, <1>3, <1>7, <1>9, <2>1, <2>2
  <2>4. QED BY <2>2, <2>3 DEF Missed
<1>11. Repeated' \subseteq Repeated
  <2> SUFFICES ASSUME NEW r \in Fixed, got'[r] > 1 \/ (got'[r] > 0 /\ Rank(r)' >= Asked')
               PROVE  r \in Repeated
    BY <1>8 DEF Repeated
  <2>1. Rank(r)' = Rank(r) BY <1>8, <1>9
  <2>2. Asked \in Nat /\ Asked' \in Nat /\ Asked <= Asked' BY <1>2, <1>3, <1>4
  <2>3. CASE r \in Shown(q)
    <3>1. Asked <= Rank(r) /\ Rank(r) < Asked' BY <1>7, <2>3
    <3>2. got[r] > 0 BY <1>9, <2>1, <2>2, <2>3, <3>1
    <3>3. QED BY <1>9, <2>2, <3>1, <3>2 DEF Repeated
  <2>4. CASE r \notin Shown(q)
    <3>1. got'[r] = got[r] BY <1>9, <2>4
    <3>2. got[r] > 1 \/ (got[r] > 0 /\ Rank(r) >= Asked) BY <1>9, <2>1, <2>2, <3>1
    <3>3. QED BY <3>2 DEF Repeated
  <2>5. QED BY <2>3, <2>4
<1>12. WalkInv'
  <2>1. Missed \in SUBSET Rows /\ Repeated \in SUBSET Rows BY <1>1, WalkTypes
  <2>2. Cardinality(Missed') <= Cardinality(Missed) BY <1>10, <2>1, NoMore
  <2>3. Cardinality(Repeated') <= Cardinality(Repeated) BY <1>11, <2>1, NoMore
  <2>4. /\ Cardinality(Missed) \in Nat /\ Cardinality(Missed') \in Nat
        /\ Cardinality(Repeated) \in Nat /\ Cardinality(Repeated') \in Nat
    BY <1>10, <1>11, <2>1, FiniteRows
  <2>5. QED BY <1>1, <2>2, <2>3, <2>4 DEF Inv, WalkInv, TypeOK, Select
<1>13. QED BY <1>5, <1>12

\* A row that enters moves the rows after it one place on: of those shown, the one at
\* the last place asked for is to be shown again.
LEMMA EnterStep == ASSUME Inv, NEW x \in Rows, Enter(x) PROVE CountInv' /\ WalkInv'
<1>1. TypeOK /\ listed \in SUBSET Rows BY DEF Inv, TypeOK
<1>2. TypeOK' BY <1>1, NextTypeOK DEF Next
<1>3. Asked' = Asked /\ Fixed' = Fixed /\ Asked \in Nat
  BY <1>1, WalkTypes DEF Enter, Asked, Fixed, Placed
<1>4. CountInv'
  <2>1. Cardinality(listed') <= Cardinality(listed) + 1
    BY <1>1, <1>2, AtMostOneMore DEF Enter, TypeOK
  <2>2. Cardinality(listed) \in Nat /\ Cardinality(listed') \in Nat
    BY <1>1, <1>2, FiniteRows DEF TypeOK
  <2>3. total \in Nat /\ gap \in Nat /\ pc # "done" /\ pc' = pc /\ total' = total /\ gap' = gap + 1
    BY <1>1 DEF Enter, TypeOK
  <2>4. pc # "ask" => Cardinality(listed) <= total + gap BY DEF Inv, CountInv
  <2>5. QED BY <2>1, <2>2, <2>3, <2>4 DEF CountInv
<1>5. \A r \in Fixed : /\ r \in Rows /\ got[r] \in Nat /\ got'[r] = got[r]
                       /\ Rank(r) \in Nat /\ Rank(r)' \in Nat
                       /\ Rank(r) <= Rank(r)' /\ Rank(r)' <= Rank(r) + 1
  <2> SUFFICES ASSUME NEW r \in Fixed
               PROVE  /\ r \in Rows /\ got[r] \in Nat /\ got'[r] = got[r]
                      /\ Rank(r) \in Nat /\ Rank(r)' \in Nat
                      /\ Rank(r) <= Rank(r)' /\ Rank(r)' <= Rank(r) + 1
    OBVIOUS
  <2>1. r \in Rows /\ got[r] \in Nat /\ got'[r] = got[r] BY <1>1, WalkTypes DEF Enter
  <2>2. Ahead(r)' = {s \in listed \cup {x} : Before(s, r)} BY DEF Enter, Ahead, Before
  <2>3. Ahead(r) \in SUBSET Ahead(r)' /\ Ahead(r)' \subseteq Ahead(r) \cup {x}
    BY <2>2 DEF Ahead
  <2>4. Ahead(r) \in SUBSET Rows /\ Ahead(r)' \in SUBSET Rows
    BY <1>1, <2>2 DEF Ahead
  <2>5. Rank(r) \in Nat /\ Rank(r)' \in Nat BY <2>4, FiniteRows DEF Rank
  <2>6. Rank(r) <= Rank(r)' BY <2>3, <2>4, NoMore DEF Rank
  <2>7. Rank(r)' <= Rank(r) + 1 BY <2>3, <2>4, AtMostOneMore DEF Rank
  <2>8. QED BY <2>1, <2>5, <2>6, <2>7
<1>6. Missed' \subseteq Missed BY <1>3, <1>5 DEF Missed
<1>7. \E y : Repeated' \subseteq Repeated \cup {y}
  <2>1. \A r \in Repeated' \ Repeated : r \in listed \cap Placed /\ Rank(r) + 1 = Asked
    <3> SUFFICES ASSUME NEW r \in Repeated' \ Repeated
                 PROVE  r \in listed \cap Placed /\ Rank(r) + 1 = Asked
      OBVIOUS
    <3>1. r \in Fixed /\ (got'[r] > 1 \/ (got'[r] > 0 /\ Rank(r)' >= Asked'))
      BY <1>3 DEF Repeated
    <3>2. ~(got[r] > 1 \/ (got[r] > 0 /\ Rank(r) >= Asked)) BY <3>1 DEF Repeated
    <3>3. Rank(r)' >= Asked /\ Rank(r) < Asked BY <1>3, <1>5, <3>1, <3>2
    <3>4. Rank(r) + 1 = Asked BY <1>3, <1>5, <3>1, <3>3
    <3>5. QED BY <1>1, <3>1, <3>4, WalkTypes
  <2>2. \A r, s \in Repeated' \ Repeated : r = s
    <3> SUFFICES ASSUME NEW r \in Repeated' \ Repeated, NEW s \in Repeated' \ Repeated
                 PROVE  r = s
      OBVIOUS
    <3>1. Rank(r) \in Nat /\ Rank(s) \in Nat BY <1>1, RankType
    <3>2. Rank(r) = Rank(s) BY <2>1, <3>1
    <3>3. QED BY <1>1, <2>1, <3>2, RankDistinct
  <2>3. CASE Repeated' \subseteq Repeated BY <2>3
  <2>4. CASE \E y \in Repeated' : y \notin Repeated BY <2>2, <2>4
  <2>5. QED BY <2>3, <2>4
<1>8. WalkInv'
  <2>1. /\ Missed \in SUBSET Rows /\ Repeated \in SUBSET Rows
        /\ Missed' \in SUBSET Rows /\ Repeated' \in SUBSET Rows
    <3>1. Missed \in SUBSET Rows /\ Repeated \in SUBSET Rows /\ Fixed \subseteq Rows
      BY <1>1, WalkTypes
    <3>2. Repeated' \in SUBSET Fixed BY <1>3 DEF Repeated
    <3>3. QED BY <1>6, <3>1, <3>2
  <2>2. Cardinality(Missed') <= Cardinality(Missed) BY <1>6, <2>1, NoMore
  <2>3. Cardinality(Repeated') <= Cardinality(Repeated) + 1
    <3>1. PICK y : Repeated' \subseteq Repeated \cup {y} BY <1>7
    <3>2. QED BY <2>1, <3>1, AtMostOneMore
  <2>4. /\ Cardinality(Missed) \in Nat /\ Cardinality(Missed') \in Nat
        /\ Cardinality(Repeated) \in Nat /\ Cardinality(Repeated') \in Nat
    BY <2>1, FiniteRows
  <2>5. /\ left' = left /\ entered' = entered + 1 /\ left \in Nat /\ entered \in Nat
    BY <1>1 DEF Enter, TypeOK
  <2>6. Cardinality(Missed) <= left /\ Cardinality(Repeated) <= entered BY DEF Inv, WalkInv
  <2>7. QED BY <2>2, <2>3, <2>4, <2>5, <2>6 DEF WalkInv
<1>9. QED BY <1>4, <1>8

\* A row that leaves moves the rows after it one place up: of those not shown, the one
\* at the next place to ask for is passed over.
LEMMA LeaveStep == ASSUME Inv, NEW x \in Rows, Leave(x) PROVE CountInv' /\ WalkInv'
<1>1. TypeOK /\ listed \in SUBSET Rows BY DEF Inv, TypeOK
<1>2. TypeOK' BY <1>1, NextTypeOK DEF Next
<1>3. Asked' = Asked /\ Fixed' \subseteq Fixed /\ Asked \in Nat
  BY <1>1, WalkTypes DEF Leave, Asked, Fixed, Placed
<1>4. CountInv'
  <2>1. listed' \in SUBSET listed BY DEF Leave
  <2>2. Cardinality(listed') <= Cardinality(listed) BY <1>1, <2>1, NoMore
  <2>3. Cardinality(listed) \in Nat /\ Cardinality(listed') \in Nat
    BY <1>1, <1>2, FiniteRows DEF TypeOK
  <2>4. total \in Nat /\ gap \in Nat /\ pc # "done" /\ pc' = pc /\ total' = total /\ gap' = gap
    BY <1>1 DEF Leave, TypeOK
  <2>5. pc # "ask" => Cardinality(listed) <= total + gap BY DEF Inv, CountInv
  <2>6. QED BY <2>2, <2>3, <2>4, <2>5 DEF CountInv
<1>5. \A r \in Fixed : /\ r \in Rows /\ got[r] \in Nat /\ got'[r] = got[r]
                       /\ Rank(r) \in Nat /\ Rank(r)' \in Nat
                       /\ Rank(r)' <= Rank(r) /\ Rank(r) <= Rank(r)' + 1
  <2> SUFFICES ASSUME NEW r \in Fixed
               PROVE  /\ r \in Rows /\ got[r] \in Nat /\ got'[r] = got[r]
                      /\ Rank(r) \in Nat /\ Rank(r)' \in Nat
                      /\ Rank(r)' <= Rank(r) /\ Rank(r) <= Rank(r)' + 1
    OBVIOUS
  <2>1. r \in Rows /\ got[r] \in Nat /\ got'[r] = got[r] BY <1>1, WalkTypes DEF Leave
  <2>2. Ahead(r)' = {s \in listed \ {x} : Before(s, r)} BY DEF Leave, Ahead, Before
  <2>3. Ahead(r)' \in SUBSET Ahead(r) /\ Ahead(r) \subseteq Ahead(r)' \cup {x}
    BY <2>2 DEF Ahead
  <2>4. Ahead(r) \in SUBSET Rows /\ Ahead(r)' \in SUBSET Rows
    BY <1>1, <2>2 DEF Ahead
  <2>5. Rank(r) \in Nat /\ Rank(r)' \in Nat BY <2>4, FiniteRows DEF Rank
  <2>6. Rank(r)' <= Rank(r) BY <2>3, <2>4, NoMore DEF Rank
  <2>7. Rank(r) <= Rank(r)' + 1 BY <2>3, <2>4, AtMostOneMore DEF Rank
  <2>8. QED BY <2>1, <2>5, <2>6, <2>7
<1>6. Repeated' \subseteq Repeated BY <1>3, <1>5 DEF Repeated
<1>7. \E y : Missed' \subseteq Missed \cup {y}
  <2>1. \A r \in Missed' \ Missed : r \in listed \cap Placed /\ Rank(r) = Asked
    <3> SUFFICES ASSUME NEW r \in Missed' \ Missed
                 PROVE  r \in listed \cap Placed /\ Rank(r) = Asked
      OBVIOUS
    <3>1. r \in Fixed /\ got'[r] = 0 /\ Rank(r)' < Asked' BY <1>3 DEF Missed
    <3>2. ~(got[r] = 0 /\ Rank(r) < Asked) BY <3>1 DEF Missed
    <3>3. Rank(r) = Asked BY <1>3, <1>5, <3>1, <3>2
    <3>4. QED BY <1>1, <3>1, <3>3, WalkTypes
  <2>2. \A r, s \in Missed' \ Missed : r = s BY <1>1, <2>1, RankDistinct
  <2>3. CASE Missed' \subseteq Missed BY <2>3
  <2>4. CASE \E y \in Missed' : y \notin Missed BY <2>2, <2>4
  <2>5. QED BY <2>3, <2>4
<1>8. WalkInv'
  <2>1. /\ Missed \in SUBSET Rows /\ Repeated \in SUBSET Rows
        /\ Missed' \in SUBSET Rows /\ Repeated' \in SUBSET Rows
    <3>1. Missed \in SUBSET Rows /\ Repeated \in SUBSET Rows /\ Fixed \subseteq Rows
      BY <1>1, WalkTypes
    <3>2. Missed' \in SUBSET Fixed' BY DEF Missed
    <3>3. QED BY <1>3, <1>6, <3>1, <3>2
  <2>2. Cardinality(Repeated') <= Cardinality(Repeated) BY <1>6, <2>1, NoMore
  <2>3. Cardinality(Missed') <= Cardinality(Missed) + 1
    <3>1. PICK y : Missed' \subseteq Missed \cup {y} BY <1>7
    <3>2. QED BY <2>1, <3>1, AtMostOneMore
  <2>4. /\ Cardinality(Missed) \in Nat /\ Cardinality(Missed') \in Nat
        /\ Cardinality(Repeated) \in Nat /\ Cardinality(Repeated') \in Nat
    BY <2>1, FiniteRows
  <2>5. left' = left + 1 /\ entered' = entered /\ left \in Nat /\ entered \in Nat
    BY <1>1 DEF Leave, TypeOK
  <2>6. Cardinality(Missed) <= left /\ Cardinality(Repeated) <= entered BY DEF Inv, WalkInv
  <2>7. QED BY <2>2, <2>3, <2>4, <2>5, <2>6 DEF WalkInv
<1>9. QED BY <1>4, <1>8

\* The invariant holds in every reachable state.
LEMMA InvHolds == Spec => []Inv
<1>1. ASSUME Inv, [Next]_vars PROVE Inv'
  <2>1. TypeOK' BY <1>1, NextTypeOK DEF Inv
  <2>2. CountInv' /\ WalkInv'
    <3>1. CASE Count BY <1>1, <3>1, CountStep
    <3>2. CASE Select BY <1>1, <3>2, SelectStep
    <3>3. ASSUME NEW x \in Rows, Enter(x) PROVE CountInv' /\ WalkInv'
      BY <1>1, <3>3, EnterStep
    <3>4. ASSUME NEW x \in Rows, Leave(x) PROVE CountInv' /\ WalkInv'
      BY <1>1, <3>4, LeaveStep
    <3>5. CASE UNCHANGED vars
      <4>1. Missed' = Missed /\ Repeated' = Repeated
        BY <3>5 DEF vars, Missed, Repeated, Fixed, Placed, Rank, Ahead, Before, Asked
      <4>2. WalkInv' BY <1>1, <3>5, <4>1 DEF Inv, vars, WalkInv
      <4>3. CountInv' BY <1>1, <3>5 DEF Inv, vars, CountInv, Asked
      <4>4. QED BY <4>2, <4>3
    <3>6. QED BY <1>1, <3>1, <3>2, <3>3, <3>4, <3>5 DEF Next
  <2>3. QED BY <2>1, <2>2 DEF Inv
<1>2. QED BY InitInv, <1>1, PTL DEF Spec

(***************************************************************************)
(* The theorems.                                                           *)
(***************************************************************************)
\* At the end of a walk every row of the list's first places was passed, and what lies
\* beyond them entered after the count: whatever order paginate's statements and the
\* writers' commits came in, the walk misses no more than that.
THEOREM WalkMissesFew == Spec => []MissedAreAccounted
<1>1. ASSUME Inv PROVE MissedAreAccounted
  <2> SUFFICES ASSUME pc = "done"
               PROVE  Cardinality({r \in standing \cap Placed : got[r] = 0}) <= left + gap
    BY DEF MissedAreAccounted
  <2> DEFINE beyond == {r \in Fixed : Rank(r) >= Asked}
             unseen == {r \in Fixed : got[r] = 0}
  <2>1. TypeOK BY <1>1 DEF Inv
  <2>2. /\ Asked \in Nat /\ Fixed \subseteq listed \cap Placed /\ Fixed \subseteq Rows
        /\ Missed \in SUBSET Fixed
        /\ \A r \in Fixed : got[r] \in Nat /\ Rank(r) \in Nat
    BY <2>1, WalkTypes
  <2>3. unseen \subseteq Missed \cup beyond BY <2>2 DEF Missed
  <2>4. /\ Cardinality(listed) \in Nat
        /\ Cardinality(beyond) <= IF Cardinality(listed) > Asked
                                    THEN Cardinality(listed) - Asked ELSE 0
    BY <2>1, <2>2, RanksAbove, FiniteRows DEF TypeOK
  <2>5. Cardinality(listed) <= total + gap /\ total <= Asked BY <1>1 DEF Inv, CountInv
  <2>6. /\ IsFiniteSet(Missed) /\ Cardinality(Missed) \in Nat
        /\ IsFiniteSet(beyond) /\ Cardinality(beyond) \in Nat
        /\ Cardinality(unseen) \in Nat
        /\ Cardinality(Missed \cap beyond) \in Nat
    BY <2>2, FiniteRows
  <2>7. /\ IsFiniteSet(Missed \cup beyond)
        /\ Cardinality(Missed \cup beyond)
             = Cardinality(Missed) + Cardinality(beyond) - Cardinality(Missed \cap beyond)
    BY <2>6, FS_Union
  <2>8. Cardinality(unseen) <= Cardinality(Missed \cup beyond)
    BY <2>3, <2>7, FS_Subset
  <2>9. Cardinality(Missed) <= left BY <1>1 DEF Inv, WalkInv
  <2>10. left \in Nat /\ gap \in Nat /\ total \in Nat BY <2>1 DEF TypeOK
  <2>11. unseen = {r \in standing \cap Placed : got[r] = 0} BY DEF Fixed
  <2> HIDE DEF beyond, unseen
  <2>12. Cardinality(beyond) <= gap BY <2>2, <2>4, <2>5, <2>6, <2>10
  <2>13. QED BY <2>6, <2>7, <2>8, <2>9, <2>10, <2>11, <2>12
<1>2. QED BY InvHolds, <1>1, PTL

\* A row is shown twice only when another entered ahead of it during the walk, and each
\* row that enters has that effect on one row at most.
THEOREM WalkRepeatsFew == Spec => []RepeatedAreAccounted
<1>1. ASSUME Inv PROVE RepeatedAreAccounted
  <2> DEFINE twice == {r \in standing \cap Placed : got[r] > 1}
  <2>1. TypeOK BY <1>1 DEF Inv
  <2>2. Repeated \in SUBSET Rows /\ twice \in SUBSET Repeated
    BY <2>1, WalkTypes DEF Repeated, Fixed
  <2>3. Cardinality(twice) <= Cardinality(Repeated) BY <2>2, NoMore
  <2>4. Cardinality(twice) \in Nat /\ Cardinality(Repeated) \in Nat BY <2>2, FiniteRows
  <2>5. Cardinality(Repeated) <= entered /\ entered \in Nat
    BY <1>1, <2>1 DEF Inv, WalkInv, TypeOK
  <2>6. QED BY <2>3, <2>4, <2>5 DEF RepeatedAreAccounted
<1>2. QED BY InvHolds, <1>1, PTL
=============================================================================
