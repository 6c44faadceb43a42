--------------------------- MODULE CheckingProofs ---------------------------
(***************************************************************************)
(* Proofs about Checking, for every timeout, number of retries, size of    *)
(* the coordinator's window and number of faults.  The loop of attempts    *)
(* needs to remember what the time left and the attempts made say about    *)
(* the target.  What the coordinator counts is a matter of where each row  *)
(* lies in its window, however late it came: the invariant Placed says     *)
(* where, in terms of the rows that have arrived.                          *)
(***************************************************************************)
EXTENDS Checking, FiniteSetTheorems, SequenceTheorems, TLAPS

(* The place of row i among the rows of the set A, the newest first.       *)
Rank(A, i) == 1 + Cardinality(A \cap 1..(i - 1))

(* The rows of A when a newer one is put in front of them.                 *)
Shift(A) == {i + 1 : i \in A}

(* The window tab holds the rows of A in their order, up to limit of them, *)
(* and is only short of some if it is full.                                *)
PlacedIn(A, rows, tab, limit) ==
  /\ \A i \in A : Rank(A, i) <= limit =>
       Rank(A, i) <= Len(tab) /\ tab[Rank(A, i)] = rows[i].status
  /\ Cardinality(A) <= Len(tab) \/ Len(tab) = limit

(* The window after row x, with status s, has come to those of A.          *)
Accept(A, x, s, tab, limit) ==
  IF Rank(A, x) > limit THEN tab ELSE InsertRow(tab, Rank(A, x), s, limit)

-----------------------------------------------------------------------------
(* Lemmas about counting: the place of a row, the streaks of a window.     *)

(* A set of numbers of rows is finite, and so is any part of it.           *)
LEMMA RowsAreFinite ==
  ASSUME NEW n \in Nat, NEW A \in SUBSET (1..n)
  PROVE  /\ IsFiniteSet(A) /\ Cardinality(A) \in Nat /\ Cardinality(A) <= n
         /\ \A B \in SUBSET A :
              IsFiniteSet(B) /\ Cardinality(B) \in Nat /\ Cardinality(B) <= Cardinality(A)
<1>1. IsFiniteSet(1..n) /\ Cardinality(1..n) = n
  BY FS_Interval
<1>2. IsFiniteSet(A) /\ Cardinality(A) <= n
  BY <1>1, FS_Subset
<1>3. ASSUME NEW B \in SUBSET A
      PROVE  IsFiniteSet(B) /\ Cardinality(B) \in Nat /\ Cardinality(B) <= Cardinality(A)
  <2>1. IsFiniteSet(B) /\ Cardinality(B) <= Cardinality(A)
    BY <1>2, FS_Subset
  <2> QED BY <2>1, FS_CardinalityType
<1> QED BY <1>2, <1>3, FS_CardinalityType

(* The first place is 1, and nobody has a place behind all the rows.       *)
LEMMA RankBounds ==
  ASSUME NEW n \in Nat, NEW A \in SUBSET (1..n), NEW i \in Nat \ {0}
  PROVE  /\ Rank(A, i) \in Nat \ {0}
         /\ Rank(A, i) <= i
         /\ Rank(A, i) <= 1 + Cardinality(A)
         /\ i \in A => Rank(A, i) <= Cardinality(A)
<1> DEFINE B == A \cap 1..(i - 1)
<1>1. Cardinality(B) \in Nat /\ Cardinality(B) <= Cardinality(A) /\ Cardinality(A) \in Nat
  BY RowsAreFinite
<1>2. Cardinality(B) <= i - 1
  BY RowsAreFinite, i - 1 \in Nat, B \in SUBSET (1..(i - 1))
<1>3. ASSUME i \in A PROVE 1 + Cardinality(B) <= Cardinality(A)
  <2>1. i \notin B /\ IsFiniteSet(B)
    BY RowsAreFinite
  <2>2. Cardinality(B \cup {i}) = Cardinality(B) + 1
    BY <2>1, FS_AddElement
  <2>3. Cardinality(B \cup {i}) <= Cardinality(A)
    BY RowsAreFinite, <1>3, B \cup {i} \in SUBSET A
  <2> QED BY <2>2, <2>3, <1>1
<1>4. Rank(A, i) = 1 + Cardinality(B)
  BY DEF Rank
<1> HIDE DEF B
<1> QED BY <1>1, <1>2, <1>3, <1>4

(* An older row is further behind, and behind the rows that are there.     *)
LEMMA RankGrows ==
  ASSUME NEW n \in Nat, NEW A \in SUBSET (1..n), NEW i \in Nat \ {0}, NEW j \in Nat, i <= j
  PROVE  /\ Rank(A, i) <= Rank(A, j)
         /\ i \in A /\ i < j => Rank(A, i) + 1 <= Rank(A, j)
<1> DEFINE B == A \cap 1..(i - 1)
           C == A \cap 1..(j - 1)
<1>1. B \in SUBSET C /\ C \in SUBSET A
  OBVIOUS
<1>2. C \in SUBSET (1..n)
  OBVIOUS
<1>3. IsFiniteSet(B) /\ Cardinality(B) \in Nat /\ Cardinality(B) <= Cardinality(C)
      /\ Cardinality(C) \in Nat
  BY <1>1, <1>2, RowsAreFinite
<1>4. ASSUME i \in A, i < j PROVE Cardinality(B) + 1 <= Cardinality(C)
  <2>1. i \notin B
    OBVIOUS
  <2>2. Cardinality(B \cup {i}) = Cardinality(B) + 1
    BY <2>1, <1>3, FS_AddElement
  <2>3. B \cup {i} \in SUBSET C
    BY <1>4
  <2>4. Cardinality(B \cup {i}) <= Cardinality(C)
    BY <2>3, <1>2, RowsAreFinite
  <2> QED BY <2>2, <2>4
<1>5. Rank(A, i) = 1 + Cardinality(B) /\ Rank(A, j) = 1 + Cardinality(C)
  BY DEF Rank
<1> HIDE DEF B, C
<1> QED BY <1>3, <1>4, <1>5

(* One more row moves the older ones one place back.                       *)
LEMMA RankAdd ==
  ASSUME NEW n \in Nat, NEW A \in SUBSET (1..n), NEW x \in (1..n) \ A, NEW j \in Nat \ {0}
  PROVE  Rank(A \cup {x}, j) = IF j <= x THEN Rank(A, j) ELSE Rank(A, j) + 1
<1> DEFINE B == A \cap 1..(j - 1)
<1>1. IsFiniteSet(B) /\ Cardinality(B) \in Nat
  BY RowsAreFinite
<1>2. CASE j <= x
  <2>1. (A \cup {x}) \cap 1..(j - 1) = B
    BY <1>2
  <2> QED BY <2>1, <1>2 DEF Rank
<1>3. CASE ~(j <= x)
  <2>1. (A \cup {x}) \cap 1..(j - 1) = B \cup {x}
    BY <1>3
  <2>2. Cardinality(B \cup {x}) = Cardinality(B) + 1
    BY <1>1, FS_AddElement
  <2>3. Rank(A \cup {x}, j) = 1 + Cardinality(B \cup {x})
    BY <2>1 DEF Rank
  <2>4. Rank(A, j) = 1 + Cardinality(B)
    BY DEF Rank
  <2> HIDE DEF B
  <2> QED BY <2>2, <2>3, <2>4, <1>1, <1>3
<1> QED BY <1>2, <1>3

(* Putting a row in front keeps how many there are.                        *)
LEMMA ShiftCount ==
  ASSUME NEW n \in Nat, NEW A \in SUBSET (1..n)
  PROVE  Cardinality(Shift(A)) = Cardinality(A)
<1> DEFINE f == [i \in A |-> i + 1]
<1>1. f \in [A -> Shift(A)]
  BY DEF Shift
<1>2. \A a, b \in A : f[a] = f[b] => a = b
  OBVIOUS
<1>3. \A t \in Shift(A) : \E a \in A : f[a] = t
  BY DEF Shift
<1>4. f \in Bijection(A, Shift(A))
  BY <1>1, <1>2, <1>3 DEF Bijection, Injection, Surjection, IsInjective
<1>5. ExistsBijection(A, Shift(A))
  BY <1>4 DEF ExistsBijection
<1> QED BY <1>5, RowsAreFinite, FS_Bijection

LEMMA RankShift ==
  ASSUME NEW n \in Nat, NEW A \in SUBSET (1..n), NEW i \in Nat \ {0}, NEW m \in Nat,
         i + 1 <= m
  PROVE  Rank(Shift(A) \cap 1..m, i + 1) = Rank(A, i)
<1>1. (Shift(A) \cap 1..m) \cap 1..((i + 1) - 1) = Shift(A \cap 1..(i - 1))
  BY DEF Shift
<1>2. Cardinality(Shift(A \cap 1..(i - 1))) = Cardinality(A \cap 1..(i - 1))
  BY ShiftCount, A \cap 1..(i - 1) \in SUBSET (1..n)
<1> QED BY <1>1, <1>2 DEF Rank

(* A streak counts k rows exactly if it reaches the k-th.                  *)
LEMMA StreakCount ==
  ASSUME NEW n \in Nat, NEW S \in SUBSET (1..n), \A i \in S : 1..i \subseteq S,
         NEW k \in Nat \ {0}
  PROVE  Cardinality(S) >= k <=> k \in S
<1>1. Cardinality(S) \in Nat
  BY RowsAreFinite
<1>2. ASSUME k \in S PROVE Cardinality(S) >= k
  <2>1. Cardinality(1..k) = k
    BY FS_Interval
  <2>2. Cardinality(1..k) <= Cardinality(S)
    BY <1>2, RowsAreFinite, 1..k \in SUBSET S
  <2> QED BY <2>1, <2>2, <1>1
<1>3. ASSUME k \notin S PROVE ~(Cardinality(S) >= k)
  <2>1. ASSUME NEW s \in S PROVE s \in 1..(k - 1)
    <3>1. CASE k <= s
      BY <3>1, <1>3
    <3> QED BY <3>1
  <2>2. S \in SUBSET (1..(k - 1)) /\ k - 1 \in Nat
    BY <2>1
  <2>3. Cardinality(S) <= k - 1
    BY <2>2, RowsAreFinite
  <2> QED BY <2>3, <1>1
<1> QED BY <1>2, <1>3

(* CountConsecutiveFailures (sqlite.go) reaches k exactly if the newest k  *)
(* rows are all failures, whatever is behind them; and so for successes.   *)
THEOREM FailureStreak ==
  ASSUME NEW S, NEW w \in Seq(S), NEW k \in Nat \ {0}
  PROVE  CountConsecutiveFailures(w) >= k <=> k <= Len(w) /\ \A j \in 1..k : w[j] # "up"
<1> DEFINE R == {i \in DOMAIN w : \A j \in 1..i : w[j] # "up"}
<1>1. Len(w) \in Nat /\ DOMAIN w = 1..Len(w)
  BY LenProperties
<1>2. R \in SUBSET (1..Len(w)) /\ \A i \in R : 1..i \subseteq R
  BY <1>1
<1>3. k \in R <=> k <= Len(w) /\ \A j \in 1..k : w[j] # "up"
  BY <1>1
<1>4. CountConsecutiveFailures(w) = Cardinality(R)
  BY DEF CountConsecutiveFailures
<1> HIDE DEF R
<1> QED BY <1>1, <1>2, <1>3, <1>4, StreakCount

(* CountConsecutiveSuccesses, which decides about a recovery.              *)
THEOREM SuccessStreak ==
  ASSUME NEW S, NEW w \in Seq(S), NEW k \in Nat \ {0}
  PROVE  CountConsecutiveSuccesses(w) >= k <=> k <= Len(w) /\ \A j \in 1..k : w[j] = "up"
<1> DEFINE R == {i \in DOMAIN w : \A j \in 1..i : w[j] = "up"}
<1>1. Len(w) \in Nat /\ DOMAIN w = 1..Len(w)
  BY LenProperties
<1>2. R \in SUBSET (1..Len(w)) /\ \A i \in R : 1..i \subseteq R
  BY <1>1
<1>3. k \in R <=> k <= Len(w) /\ \A j \in 1..k : w[j] = "up"
  BY <1>1
<1>4. CountConsecutiveSuccesses(w) = Cardinality(R)
  BY DEF CountConsecutiveSuccesses
<1> HIDE DEF R
<1> QED BY <1>1, <1>2, <1>3, <1>4, StreakCount

(* InsertCheckResult and the LIMIT of the counting queries: the rows in    *)
(* front of the new one keep their places, the older ones move one back,   *)
(* and only a row that does not fit any more is forgotten.                 *)
LEMMA InsertRowPlaces ==
  ASSUME NEW S, NEW w \in Seq(S), NEW s \in S, NEW limit \in Nat \ {0},
         Len(w) <= limit, NEW pos \in 1..(Len(w) + 1), pos <= limit,
         NEW new, new = InsertRow(w, pos, s, limit)
  PROVE  /\ new \in Seq(S)
         /\ Len(new) = IF Len(w) < limit THEN Len(w) + 1 ELSE limit
         /\ new[pos] = s
         /\ \A i \in 1..(pos - 1) : new[i] = w[i]
         /\ \A i \in pos..Len(w) : i + 1 <= limit => new[i + 1] = w[i]
<1> DEFINE n == IF Len(w) < limit THEN Len(w) + 1 ELSE limit
           r == [i \in 1..n |-> IF i < pos THEN w[i] ELSE IF i = pos THEN s ELSE w[i - 1]]
<1>1. n \in Nat /\ n <= limit /\ n <= Len(w) + 1 /\ pos <= n /\ Len(w) <= n
  OBVIOUS
<1>2. \A i \in 1..n : (IF i < pos THEN w[i] ELSE IF i = pos THEN s ELSE w[i - 1]) \in S
  <2> TAKE i \in 1..n
  <2>1. CASE i < pos
    <3>1. i \in 1..Len(w)
      BY <2>1, <1>1
    <3> QED BY <2>1, <3>1
  <2>2. CASE i = pos
    BY <2>2
  <2>3. CASE i > pos
    <3>1. i - 1 \in 1..Len(w)
      BY <2>3, <1>1
    <3> QED BY <2>3, <3>1
  <2> QED BY <2>1, <2>2, <2>3, <1>1
<1>3. r \in [1..n -> S]
  BY <1>2
<1>4. new = r
  BY DEF InsertRow
<1>5. /\ r[pos] = s
      /\ \A i \in 1..(pos - 1) : r[i] = w[i]
      /\ \A i \in pos..Len(w) : i + 1 <= limit => r[i + 1] = w[i]
  BY <1>1
<1>6. r \in Seq(S) /\ Len(r) = n
  <2> HIDE DEF r, n
  <2> QED BY <1>3, <1>1
<1> QED BY <1>4, <1>5, <1>6

-----------------------------------------------------------------------------
(* Lemmas about a window and the rows that have arrived in it.             *)

(* A row that arrives is put where it belongs, and everyone else stays in  *)
(* or moves to the place it has now.                                       *)
LEMMA PlacedInsert ==
  ASSUME NEW S, NEW n \in Nat, NEW A \in SUBSET (1..n), NEW x \in (1..n) \ A,
         NEW limit \in Nat \ {0}, NEW tab \in Seq(S), Len(tab) <= limit,
         NEW rows, rows[x].status \in S, PlacedIn(A, rows, tab, limit)
  PROVE  LET new == Accept(A, x, rows[x].status, tab, limit) IN
         /\ new \in Seq(S) /\ Len(new) <= limit
         /\ PlacedIn(A \cup {x}, rows, new, limit)
         /\ Len(tab) <= Cardinality(A) => Len(new) <= Cardinality(A \cup {x})
<1> DEFINE p == Rank(A, x)
           new == Accept(A, x, rows[x].status, tab, limit)
<1>0. new = IF p > limit THEN tab ELSE InsertRow(tab, p, rows[x].status, limit)
  BY DEF Accept
<1> SUFFICES /\ new \in Seq(S) /\ Len(new) <= limit
             /\ PlacedIn(A \cup {x}, rows, new, limit)
             /\ Len(tab) <= Cardinality(A) => Len(new) <= Cardinality(A \cup {x})
  OBVIOUS
<1> HIDE DEF new
<1>1. /\ p \in Nat \ {0} /\ p <= 1 + Cardinality(A)
      /\ IsFiniteSet(A) /\ Cardinality(A) \in Nat
      /\ Len(tab) \in Nat
      /\ x \in Nat \ {0} /\ A \subseteq Nat \ {0}
  <2>1. x \in Nat \ {0} /\ A \subseteq Nat \ {0}
    OBVIOUS
  <2> QED BY <2>1, RankBounds, RowsAreFinite, LenProperties
<1>2. Cardinality(A \cup {x}) = Cardinality(A) + 1
  BY <1>1, FS_AddElement
<1>3. /\ Rank(A \cup {x}, x) = p
      /\ \A j \in A : /\ Rank(A, j) \in Nat \ {0}
                      /\ j < x => Rank(A \cup {x}, j) = Rank(A, j) /\ Rank(A, j) < p
                      /\ j > x => Rank(A \cup {x}, j) = Rank(A, j) + 1 /\ p <= Rank(A, j)
  <2>1. Rank(A \cup {x}, x) = p
    BY RankAdd
  <2>2. ASSUME NEW j \in A
        PROVE  /\ Rank(A, j) \in Nat \ {0}
               /\ j < x => Rank(A \cup {x}, j) = Rank(A, j) /\ Rank(A, j) < p
               /\ j > x => Rank(A \cup {x}, j) = Rank(A, j) + 1 /\ p <= Rank(A, j)
    <3>1. Rank(A, j) \in Nat \ {0}
      BY <1>1, RankBounds
    <3>2. ASSUME j < x PROVE Rank(A \cup {x}, j) = Rank(A, j) /\ Rank(A, j) < p
      <4>1. Rank(A \cup {x}, j) = Rank(A, j)
        BY <1>1, <3>2, RankAdd
      <4>2. j \in Nat \ {0} /\ x \in Nat /\ j <= x
        BY <1>1, <3>2
      <4>3. Rank(A, j) + 1 <= Rank(A, x)
        BY <4>2, <3>2, RankGrows
      <4> QED BY <4>1, <4>3, <3>1, <1>1
    <3>3. ASSUME j > x PROVE Rank(A \cup {x}, j) = Rank(A, j) + 1 /\ p <= Rank(A, j)
      <4>1. Rank(A \cup {x}, j) = Rank(A, j) + 1
        BY <1>1, <3>3, RankAdd
      <4>2. x \in Nat \ {0} /\ j \in Nat /\ x <= j
        BY <1>1, <3>3
      <4>3. Rank(A, x) <= Rank(A, j)
        BY <4>2, RankGrows
      <4> QED BY <4>1, <4>3
    <3> QED BY <3>1, <3>2, <3>3
  <2> QED BY <2>1, <2>2
<1>4. /\ \A j \in A : Rank(A, j) <= limit =>
           Rank(A, j) <= Len(tab) /\ tab[Rank(A, j)] = rows[j].status
      /\ Cardinality(A) <= Len(tab) \/ Len(tab) = limit
  BY DEF PlacedIn
<1>5. CASE p > limit
  <2>1. new = tab /\ Len(tab) = limit
    BY <1>5, <1>0, <1>1, <1>4
  <2>2. \A j \in A \cup {x} : Rank(A \cup {x}, j) <= limit =>
           Rank(A \cup {x}, j) <= Len(new) /\ new[Rank(A \cup {x}, j)] = rows[j].status
    <3> SUFFICES ASSUME NEW j \in A \cup {x}, Rank(A \cup {x}, j) <= limit
                 PROVE  /\ Rank(A \cup {x}, j) <= Len(new)
                        /\ new[Rank(A \cup {x}, j)] = rows[j].status
      OBVIOUS
    <3> HIDE DEF p
    <3>1. j # x
      BY <1>1, <1>3, <1>5
    <3>2. j \in A /\ ~(j > x)
      <4>1. j \in A
        BY <3>1
      <4>2. ASSUME j > x PROVE FALSE
        <5>1. Rank(A \cup {x}, j) = Rank(A, j) + 1 /\ p <= Rank(A, j) /\ Rank(A, j) \in Nat
          BY <4>1, <4>2, <1>3
        <5> QED BY <5>1, <1>1, <1>5
      <4> QED BY <4>1, <4>2
    <3>3. j < x
      BY <3>1, <3>2, <1>1
    <3> QED BY <3>2, <3>3, <1>3, <1>4, <2>1
  <2>3. Cardinality(A) >= limit
    <3> HIDE DEF p
    <3> QED BY <1>1, <1>5
  <2>4. PlacedIn(A \cup {x}, rows, new, limit)
    BY <2>1, <2>2 DEF PlacedIn
  <2> QED BY <2>1, <2>3, <2>4, <1>1, <1>2
<1>6. CASE p <= limit
  <2>1. p \in 1..(Len(tab) + 1)
    BY <1>1, <1>4, <1>6
  <2>2. new = InsertRow(tab, p, rows[x].status, limit)
    BY <1>6, <1>0, <1>1
  <2> HIDE DEF p
  <2>3. /\ new \in Seq(S)
        /\ Len(new) = IF Len(tab) < limit THEN Len(tab) + 1 ELSE limit
        /\ new[p] = rows[x].status
        /\ \A i \in 1..(p - 1) : new[i] = tab[i]
        /\ \A i \in p..Len(tab) : i + 1 <= limit => new[i + 1] = tab[i]
    <3>1. rows[x].status \in S /\ tab \in Seq(S) /\ limit \in Nat \ {0} /\ Len(tab) <= limit
          /\ p \in 1..(Len(tab) + 1) /\ p <= limit
      BY <2>1, <1>6
    <3> HIDE DEF new
    <3> QED BY ONLY <3>1, <2>2, InsertRowPlaces
  <2>4. \A j \in A \cup {x} : Rank(A \cup {x}, j) <= limit =>
           Rank(A \cup {x}, j) <= Len(new) /\ new[Rank(A \cup {x}, j)] = rows[j].status
    <3> SUFFICES ASSUME NEW j \in A \cup {x}, Rank(A \cup {x}, j) <= limit
                 PROVE  /\ Rank(A \cup {x}, j) <= Len(new)
                        /\ new[Rank(A \cup {x}, j)] = rows[j].status
      OBVIOUS
    <3>1. CASE j = x
      BY <3>1, <1>1, <1>3, <1>6, <2>1, <2>3
    <3>2. CASE j \in A /\ j < x
      <4>1. Rank(A, j) \in 1..(p - 1) /\ Rank(A, j) <= Len(tab) /\ Rank(A \cup {x}, j) = Rank(A, j)
            /\ tab[Rank(A, j)] = rows[j].status
        <5>1. Rank(A, j) \in Nat \ {0} /\ Rank(A \cup {x}, j) = Rank(A, j) /\ Rank(A, j) < p
          BY <3>2, <1>3
        <5> QED BY <5>1, <3>2, <1>1, <1>4
      <4> QED BY <4>1, <2>3, <1>1
    <3>3. CASE j \in A /\ j > x
      <4>1. /\ Rank(A \cup {x}, j) = Rank(A, j) + 1 /\ Rank(A, j) \in p..Len(tab)
            /\ Rank(A, j) + 1 <= limit /\ tab[Rank(A, j)] = rows[j].status
        <5>1. /\ Rank(A, j) \in Nat \ {0} /\ Rank(A \cup {x}, j) = Rank(A, j) + 1
              /\ p <= Rank(A, j)
          BY <3>3, <1>3
        <5>2. Rank(A, j) + 1 <= limit
          BY <5>1
        <5>3. Rank(A, j) <= limit
          BY <5>1, <5>2
        <5> QED BY <5>1, <5>2, <5>3, <3>3, <1>1, <1>4
      <4> QED BY <4>1, <2>3, <1>1
    <3> QED BY <3>1, <3>2, <3>3
  <2>5. Len(new) <= limit /\ (Cardinality(A) <= Len(tab) \/ Len(tab) = limit)
    BY <2>3, <1>1, <1>4
  <2>6. Cardinality(A) + 1 <= Len(new) \/ Len(new) = limit
    BY <2>3, <2>5, <1>1
  <2>7. PlacedIn(A \cup {x}, rows, new, limit)
    BY <2>4, <2>6, <1>2 DEF PlacedIn
  <2>8. Len(tab) <= Cardinality(A) => Len(new) <= Cardinality(A) + 1
    BY <2>3, <1>1
  <2> QED BY <2>3, <2>5, <2>7, <2>8, <1>2
<1> QED BY <1>5, <1>6, <1>1

(* A newer row that has not arrived moves the others on without touching   *)
(* the window, and so does forgetting the oldest rows.                     *)
LEMMA PlacedShift ==
  ASSUME NEW n \in Nat, NEW A \in SUBSET (1..n), NEW limit \in Nat \ {0},
         NEW tab, Len(tab) \in Nat, NEW rows, PlacedIn(A, rows, tab, limit),
         NEW m \in Nat, m <= n + 1, NEW new,
         \A i \in 1..n : i + 1 <= m => new[i + 1].status = rows[i].status
  PROVE  PlacedIn(Shift(A) \cap 1..m, new, tab, limit)
<1> DEFINE B == Shift(A) \cap 1..m
<1>1. Shift(A) \in SUBSET (1..(n + 1)) /\ Cardinality(Shift(A)) = Cardinality(A)
  <2>1. Shift(A) \in SUBSET (1..(n + 1))
    BY DEF Shift
  <2> QED BY <2>1, ShiftCount
<1>2. Cardinality(B) \in Nat /\ Cardinality(B) <= Cardinality(A) /\ Cardinality(A) \in Nat
  BY <1>1, RowsAreFinite, n + 1 \in Nat
<1>3. \A j \in B : Rank(B, j) <= limit => Rank(B, j) <= Len(tab) /\ tab[Rank(B, j)] = new[j].status
  <2> SUFFICES ASSUME NEW j \in B, Rank(B, j) <= limit
               PROVE  Rank(B, j) <= Len(tab) /\ tab[Rank(B, j)] = new[j].status
    OBVIOUS
  <2>1. PICK i \in A : j = i + 1
    BY DEF Shift
  <2>2. i \in Nat \ {0} /\ i + 1 <= m
    <3>1. j \in 1..m
      OBVIOUS
    <3>2. i \in 1..n
      OBVIOUS
    <3> QED BY <3>1, <3>2, <2>1
  <2>3. Rank(B, j) = Rank(A, i)
    BY <2>1, <2>2, RankShift
  <2>4. i \in 1..n /\ new[j].status = rows[i].status
    BY <2>1, <2>2
  <2> HIDE DEF B
  <2> QED BY <2>1, <2>3, <2>4 DEF PlacedIn
<1>4. Cardinality(A) <= Len(tab) \/ Len(tab) = limit
  BY DEF PlacedIn
<1> HIDE DEF B
<1>5. PlacedIn(B, new, tab, limit)
  BY <1>2, <1>3, <1>4 DEF PlacedIn
<1> QED BY <1>5 DEF B

(* The newest n results after one more.                                    *)
LEMMA NewestCons ==
  ASSUME NEW S, NEW s \in Seq(S), NEW r \in S, NEW n \in Nat \ {0}, Len(s) <= n,
         NEW t, t = Newest(<<r>> \o s, n)
  PROVE  /\ t \in Seq(S)
         /\ Len(t) = IF Len(s) < n THEN Len(s) + 1 ELSE n
         /\ t[1] = r
         /\ \A i \in 1..Len(s) : i + 1 <= Len(t) => t[i + 1] = s[i]
<1> DEFINE c == <<r>> \o s
           k == IF Len(s) < n THEN Len(s) + 1 ELSE n
<1>1. Len(s) \in Nat /\ <<r>> \in Seq(S) /\ Len(<<r>>) = 1 /\ <<r>>[1] = r
  BY LenProperties
<1>2. /\ c \in Seq(S) /\ Len(c) = 1 + Len(s)
      /\ \A i \in 1..(1 + Len(s)) : c[i] = IF i <= 1 THEN <<r>>[i] ELSE s[i - 1]
  BY <1>1, ConcatProperties
<1>3. c[1] = r /\ \A i \in 1..Len(s) : c[i + 1] = s[i]
  BY <1>1, <1>2
<1> HIDE DEF c
<1>4. k \in Nat \ {0} /\ k <= Len(c) /\ Newest(c, n) = SubSeq(c, 1, k)
  BY <1>1, <1>2 DEF Newest
<1> HIDE DEF k
<1>5. \A i \in 1..k : c[i] \in S
  BY <1>2, <1>4
<1>6. /\ SubSeq(c, 1, k) \in Seq(S) /\ Len(SubSeq(c, 1, k)) = k
      /\ \A i \in 1..k : SubSeq(c, 1, k)[i] = c[i]
  BY <1>4, <1>5
<1>7. Newest(<<r>> \o s, n) = SubSeq(c, 1, k)
  BY <1>4 DEF c
<1>8. k = IF Len(s) < n THEN Len(s) + 1 ELSE n
  BY DEF k
<1>9. SubSeq(c, 1, k)[1] = r /\ \A i \in 1..Len(s) : i + 1 <= k => SubSeq(c, 1, k)[i + 1] = s[i]
  BY <1>1, <1>3, <1>4, <1>6
<1> QED BY <1>6, <1>7, <1>8, <1>9

-----------------------------------------------------------------------------
(* The inductive invariant.                                                *)

Arrived == {j \in DOMAIN made : made[j].at = "table"}

(* Between two attempts none has got what the monitor asks for, there is   *)
(* one left to make, and the first has the whole timeout.  The deadline is *)
(* the check's, except that a resolver does not keep to it.                *)
LoopInv ==
  /\ pc # "waiting" => mon.type \in CheckTypes
  /\ pc = "probe" =>
       /\ ~met /\ attempts < MaxAttempts
       /\ attempts = 0 => left = Timeout
       /\ attempts > 0 => excused
  /\ mon.type # "icmp" => spent + left <= Timeout

(* The result being pushed is the newest, and still on the node.           *)
PushHolds == pc = "push" => made # << >> /\ made[1].at = "node"

(* Where the coordinator's window holds the rows that have arrived.  As    *)
(* long as no result has been left out of made, it holds no others.        *)
Placed ==
  /\ PlacedIn(Arrived, made, table, ResultLimit)
  /\ Len(made) < MaxMade => Len(table) <= Cardinality(Arrived)

IndInv ==
  /\ TypeOK
  /\ VerdictIsDeserved
  /\ LoopInv
  /\ PushHolds
  /\ Placed

-----------------------------------------------------------------------------
Rows == [status : Statuses, own : BOOLEAN, at : {"node", "wire", "table", "lost"}]

LEMMA MaxMadeType == MaxMade \in Nat /\ MaxMade > ResultLimit
BY CheckingAssumption DEF MaxMade

(* What TypeOK says of the two sequences.                                  *)
LEMMA RowTypes ==
  ASSUME TypeOK
  PROVE  /\ made \in Seq(Rows) /\ Len(made) \in Nat /\ DOMAIN made = 1..Len(made)
         /\ \A i \in DOMAIN made : made[i] \in Rows /\ made[i].status \in Statuses
         /\ Arrived \in SUBSET (1..Len(made))
         /\ table \in Seq(Statuses) /\ Len(table) \in Nat /\ Len(table) <= ResultLimit
<1>1. made \in Seq(Rows) /\ table \in Seq(Statuses) /\ Len(table) <= ResultLimit
  BY DEF TypeOK, Rows
<1>2. \A i \in DOMAIN made : made[i] \in Rows
  BY <1>1
<1> QED BY <1>1, <1>2, LenProperties DEF Arrived, Rows

(* A result is "up" exactly if the answer has all the monitor asks for.    *)
LEMMA ResultIsMeets ==
  ASSUME NEW m \in Configs, NEW a \in Answers, m.type \in CheckTypes
  PROVE  Result(m, a) \in Statuses /\ (Result(m, a) = "up" <=> Meets(m, a))
<1>1. m.status \in Nat /\ (m.type = "dns" /\ m.expected => m.record = RecordType(m))
  BY ConfigsAssumption
<1>2. CASE ~Reached(a)
  BY <1>2 DEF Result, Meets, Statuses
<1>3. CASE Reached(a) /\ m.type \in {"http", "https"}
  <2>1. StatusAccepted(m, a) <=> a.code = m.status \/ (m.status = 0 /\ a.code < 400)
    <3>1. CASE m.status = 0
      BY <3>1 DEF StatusAccepted
    <3>2. CASE m.status > 0
      BY <3>2 DEF StatusAccepted
    <3> QED BY <1>1, <3>1, <3>2
  <2>2. Result(m, a) = HTTPChecker(m, a)
    BY <1>3 DEF Result
  <2>3. Meets(m, a) <=> (m.type = "https" => ~a.expiring) /\ StatusAccepted(m, a)
    BY <1>3, <2>1 DEF Meets
  <2> QED BY <2>2, <2>3 DEF HTTPChecker, Statuses
<1>4. CASE Reached(a) /\ m.type = "http_keyword"
  BY <1>4 DEF Result, Meets, Statuses, KeywordChecker
<1>5. CASE Reached(a) /\ m.type = "dns"
  BY <1>1, <1>5 DEF Result, Meets, Statuses, DNSChecker
<1>6. CASE Reached(a) /\ m.type \in {"icmp", "tcp"}
  BY <1>6 DEF Result, Meets, Statuses
<1> QED BY <1>2, <1>3, <1>4, <1>5, <1>6 DEF CheckTypes

LEMMA DurationType ==
  ASSUME NEW m \in Configs, NEW a \in Answers, NEW l \in Nat
  PROVE  Duration(m, a, l) \in Nat /\ (m.type # "icmp" => Duration(m, a, l) <= l)
BY CheckingAssumption DEF Duration

LEMMA InitInd == Init => IndInv
<1> SUFFICES ASSUME Init PROVE IndInv
  OBVIOUS
<1>1. MaxAttempts \in Nat
  BY ConfigsAssumption DEF Init, MaxAttempts
<1>2. Arrived = {} /\ Len(made) = 0 /\ Len(table) = 0
  BY DEF Init, Arrived
<1>3. TypeOK
  <2>1. /\ phase = "up" /\ pc = "waiting" /\ attempts = 0 /\ left = 0 /\ last = "down"
        /\ made = << >> /\ table = << >> /\ faults = 0
        /\ spent = 0 /\ met = FALSE /\ excused = FALSE
    BY DEF Init
  <2>2. 0 <= MaxMade /\ 0 \in 0..MaxFaults /\ 0 \in 0..Timeout /\ 0 <= ResultLimit
        /\ 0 \in 0..MaxAttempts
    BY <1>1, MaxMadeType, CheckingAssumption
  <2>3. made \in Seq([status : Statuses, own : BOOLEAN, at : {"node", "wire", "table", "lost"}])
        /\ table \in Seq(Statuses)
    BY <2>1
  <2>4. mon \in Configs /\ remote \in BOOLEAN /\ target \in Answers
    BY DEF Init
  <2> QED BY <1>1, <1>2, <2>1, <2>2, <2>3, <2>4 DEF TypeOK, Statuses
<1>4. Placed
  BY <1>2, FS_EmptySet DEF Placed, PlacedIn
<1> QED BY <1>3, <1>4, CheckingAssumption DEF Init, IndInv, VerdictIsDeserved, LoopInv, PushHolds

(* A step that leaves the window alone, and what it is made of.            *)
LEMMA UntouchedWindow ==
  ASSUME IndInv, UNCHANGED table, DOMAIN made' = DOMAIN made, Len(made') = Len(made),
         \A i \in DOMAIN made : /\ made'[i].status = made[i].status
                              /\ (made'[i].at = "table" <=> made[i].at = "table")
  PROVE  Placed'
<1>1. Arrived' = Arrived
  <2>1. Arrived' = {j \in DOMAIN made : made'[j].at = "table"}
    BY DEF Arrived
  <2>2. \A j \in DOMAIN made : made'[j].at = "table" <=> made[j].at = "table"
    OBVIOUS
  <2>3. {j \in DOMAIN made : made'[j].at = "table"} = {j \in DOMAIN made : made[j].at = "table"}
    BY <2>2
  <2> QED BY <2>1, <2>3 DEF Arrived
<1>2. \A i \in Arrived : made'[i].status = made[i].status
  BY DEF Arrived
<1> QED BY <1>1, <1>2 DEF IndInv, Placed, PlacedIn

LEMMA StutterInd == IndInv /\ UNCHANGED vars => IndInv'
BY DEF vars, checkVars, IndInv, TypeOK, MaxAttempts, VerdictIsDeserved, LoopInv, PushHolds,
       Placed, PlacedIn, Arrived

(* The target, a new check, the signal to stop: nothing of the results.    *)
LEMMA AroundInd ==
  ASSUME IndInv, (\E a \in Answers : ChangeTarget(a)) \/ Begin \/ Cancel
  PROVE  IndInv'
<1>1. UNCHANGED <<made, table, mon, remote>>
  BY DEF ChangeTarget, Begin, Cancel
<1>2. Placed'
  BY <1>1, UntouchedWindow
<1>3. CASE \E a \in Answers : ChangeTarget(a)
  BY <1>1, <1>2, <1>3
     DEF ChangeTarget, checkVars, IndInv, TypeOK, MaxAttempts, VerdictIsDeserved, LoopInv, PushHolds
<1>4. CASE Begin
  <2>1. MaxAttempts' = MaxAttempts /\ MaxAttempts \in Nat \ {0}
    BY <1>1, ConfigsAssumption DEF MaxAttempts, IndInv, TypeOK
  <2>2. UNCHANGED <<target, phase, faults>> /\ pc' = "probe" /\ attempts' = 0 /\ left' = Timeout
        /\ last' = "down" /\ spent' = 0 /\ met' = FALSE /\ excused' = FALSE
        /\ mon.type \in CheckTypes
    BY <1>4 DEF Begin
  <2>3. 0 \in 0..MaxAttempts /\ Timeout \in 0..Timeout /\ 0 < MaxAttempts /\ 0 + Timeout <= Timeout
    BY <2>1, CheckingAssumption
  <2>4. TypeOK'
    BY <1>1, <2>1, <2>2, <2>3 DEF IndInv, TypeOK, Statuses
  <2>5. VerdictIsDeserved' /\ LoopInv' /\ PushHolds'
    BY <1>1, <2>1, <2>2, <2>3 DEF VerdictIsDeserved, LoopInv, PushHolds
  <2> QED BY <1>2, <2>4, <2>5 DEF IndInv
<1>5. CASE Cancel
  BY <1>1, <1>2, <1>5, CheckingAssumption
     DEF Cancel, Fault, checkVars, IndInv, TypeOK, MaxAttempts, VerdictIsDeserved, LoopInv, PushHolds
<1> QED BY <1>3, <1>4, <1>5

(* One attempt, answered or not.                                           *)
LEMMA AttemptInd ==
  ASSUME IndInv, Attempt
  PROVE  IndInv'
<1>1. UNCHANGED <<mon, remote, target, phase, made, table, faults>> /\ pc = "probe"
  BY DEF Attempt
<1>2. PICK answered \in Answered :
         LET status == IF answered THEN Result(mon, target) ELSE "down"
             duration == IF phase = "up" THEN Duration(mon, target, left) ELSE 0 IN
         /\ last' = status
         /\ pc' = IF GoesOn(status) THEN "probe" ELSE "store"
         /\ left' = Remaining(duration) /\ spent' = spent + duration
         /\ met' = (met \/ (answered /\ Meets(mon, target)))
  BY DEF Attempt
<1> DEFINE duration == IF phase = "up" THEN Duration(mon, target, left) ELSE 0
<1>3. /\ mon \in Configs /\ target \in Answers /\ mon.type \in CheckTypes
      /\ left \in Nat /\ left <= Timeout /\ spent \in Nat /\ attempts \in Nat
      /\ ~met /\ attempts < MaxAttempts /\ attempts' = attempts + 1
      /\ target.delay \in Nat /\ Timeout \in Nat /\ MaxAttempts \in Nat
  BY <1>1, CheckingAssumption, ConfigsAssumption DEF Attempt, IndInv, TypeOK, LoopInv, MaxAttempts
<1>4. duration \in Nat /\ (mon.type # "icmp" => duration <= left)
  BY <1>3, DurationType
<1>5. left' = Remaining(duration) /\ spent' = spent + duration
  BY <1>2
<1> HIDE DEF duration
<1>6. left' \in 0..Timeout /\ spent' \in Nat /\ (mon.type # "icmp" => spent' + left' <= Timeout)
  BY <1>3, <1>4, <1>5 DEF Remaining, IndInv, LoopInv
<1>7. answered \in BOOLEAN
  BY <1>2 DEF Answered
<1>8. /\ last' \in Statuses /\ (last' = "up" <=> met') /\ met' \in BOOLEAN
      /\ met' <=> answered /\ Meets(mon, target)
  BY <1>2, <1>3, <1>7, ResultIsMeets DEF Statuses
<1>9. excused' = (excused \/ phase # "up" \/ ~Meets(mon, target) \/ target.delay >= Timeout)
  BY DEF Attempt
<1>10. last' = "up" \/ excused'
  <2>1. CASE answered
    BY <2>1, <1>8, <1>9
  <2>2. CASE ~answered /\ phase = "up"
    <3>1. target.kind = "never" \/ target.delay >= left
      <4>1. CASE target.kind # "never" /\ ~(target.delay > left) /\ target.delay # left
        <5>1. Answered = {TRUE}
          BY <2>2, <4>1 DEF Answered
        <5> QED BY <5>1, <2>2
      <4> QED BY <4>1, <1>3
    <3>2. CASE target.kind = "never"
      BY <3>2, <1>9 DEF Meets, Reached
    <3>3. CASE target.delay >= left /\ attempts = 0
      BY <3>3, <1>1, <1>9 DEF IndInv, LoopInv
    <3>4. CASE attempts > 0
      BY <3>4, <1>1, <1>9 DEF IndInv, LoopInv
    <3> QED BY <3>1, <3>2, <3>3, <3>4, <1>3
  <2>3. CASE phase # "up"
    BY <2>3, <1>9
  <2> QED BY <2>1, <2>2, <2>3
<1>11. pc' \in {"probe", "store"} /\ (pc' = "probe" => last' # "up" /\ attempts' < MaxAttempts)
  BY <1>2, <1>3 DEF GoesOn
<1>12. excused' \in BOOLEAN
  BY <1>9
<1>13. MaxAttempts' = MaxAttempts
  BY <1>1 DEF MaxAttempts
<1>14. TypeOK'
  BY <1>1, <1>3, <1>6, <1>8, <1>11, <1>12, <1>13 DEF IndInv, TypeOK
<1>15. VerdictIsDeserved' /\ LoopInv' /\ PushHolds'
  <2>1. pc' # "push" /\ attempts' > 0 /\ mon' = mon
    BY <1>1, <1>3, <1>11
  <2>2. VerdictIsDeserved' /\ PushHolds'
    BY <1>8, <1>10, <2>1 DEF VerdictIsDeserved, PushHolds
  <2>3. pc' = "probe" => ~met' /\ excused' /\ attempts' < MaxAttempts
    BY <1>8, <1>10, <1>11
  <2>4. attempts' # 0
    BY <1>3
  <2>5. LoopInv'
    BY <1>3, <1>6, <1>13, <2>1, <2>3, <2>4 DEF LoopInv
  <2> QED BY <2>2, <2>5
<1>16. Placed'
  BY <1>1, UntouchedWindow
<1> QED BY <1>14, <1>15, <1>16 DEF IndInv

(* The verdict of a check and its history are forgotten with it.           *)
LEMMA ForgetInd ==
  ASSUME IndInv, Forget, UNCHANGED mon,
         pc' = "waiting" \/ (pc' = "push" /\ mon.type \in CheckTypes)
  PROVE  /\ LoopInv' /\ VerdictIsDeserved'
         /\ attempts' \in 0..MaxAttempts' /\ left' \in 0..Timeout /\ last' \in Statuses
         /\ spent' \in Nat /\ met' \in BOOLEAN /\ excused' \in BOOLEAN
<1>1. attempts' = 0 /\ left' = 0 /\ last' = "down" /\ spent' = 0 /\ met' = FALSE /\ excused' = FALSE
  BY DEF Forget
<1>2. MaxAttempts' = MaxAttempts /\ MaxAttempts \in Nat /\ Timeout \in Nat
  BY ConfigsAssumption, CheckingAssumption DEF MaxAttempts, IndInv, TypeOK
<1>3. VerdictIsDeserved' /\ LoopInv'
  BY <1>1, <1>2 DEF VerdictIsDeserved, LoopInv
<1>4. attempts' \in 0..MaxAttempts' /\ left' \in 0..Timeout /\ spent' \in Nat
  BY <1>1, <1>2
<1>5. last' \in Statuses /\ met' \in BOOLEAN /\ excused' \in BOOLEAN
  BY <1>1 DEF Statuses
<1> QED BY <1>3, <1>4, <1>5

(* InsertCheckResult on the node, or on the coordinator by its own agent.  *)
LEMMA StoreInd ==
  ASSUME IndInv, Store
  PROVE  IndInv'
<1>1. /\ pc = "store" /\ Forget /\ UNCHANGED <<mon, remote, target, phase>>
      /\ last \in Statuses /\ mon.type \in CheckTypes
      /\ faults' \in 0..MaxFaults
  BY CheckingAssumption DEF Store, Fault, IndInv, TypeOK, LoopInv
<1>2. PICK own \in BOOLEAN :
        /\ made' = Newest(<<[status |-> last, own |-> own,
                             at |-> IF remote THEN "node" ELSE IF own THEN "table" ELSE "lost"]>>
                           \o made, MaxMade)
        /\ table' = IF own /\ ~remote THEN InsertRow(table, 1, last, ResultLimit) ELSE table
        /\ pc' = AfterStore(own)
  BY DEF Store
<1> DEFINE r == [status |-> last, own |-> own,
                 at |-> IF remote THEN "node" ELSE IF own THEN "table" ELSE "lost"]
<1>3. /\ r \in Rows /\ r.status = last
      /\ r.at = "node" <=> remote
      /\ r.at = "table" <=> own /\ ~remote
  BY <1>1 DEF Rows, IndInv, TypeOK
<1>4. /\ made \in Seq(Rows) /\ Len(made) \in Nat /\ DOMAIN made = 1..Len(made)
      /\ Arrived \in SUBSET (1..Len(made))
      /\ table \in Seq(Statuses) /\ Len(table) \in Nat /\ Len(table) <= ResultLimit
      /\ Len(made) <= MaxMade /\ MaxMade \in Nat \ {0} /\ ResultLimit \in Nat \ {0}
  BY RowTypes, MaxMadeType, CheckingAssumption DEF IndInv, TypeOK
<1>5. made' = Newest(<<r>> \o made, MaxMade)
  BY <1>2
<1> HIDE DEF r
<1>6. /\ made' \in Seq(Rows)
      /\ Len(made') = IF Len(made) < MaxMade THEN Len(made) + 1 ELSE MaxMade
      /\ made'[1] = r
      /\ \A i \in 1..Len(made) : i + 1 <= Len(made') => made'[i + 1] = made[i]
  <2>1. r \in Rows /\ made \in Seq(Rows) /\ Len(made) <= MaxMade /\ MaxMade \in Nat \ {0}
    BY <1>3, <1>4
  <2> QED BY ONLY <2>1, <1>5, NewestCons
<1>7. DOMAIN made' = 1..Len(made') /\ Len(made') \in Nat \ {0} /\ Len(made') <= Len(made) + 1
      /\ Len(made') <= MaxMade
  BY <1>4, <1>6, LenProperties
<1> DEFINE A == Shift(Arrived) \cap 1..Len(made')
<1>8. /\ PlacedIn(A, made', table, ResultLimit)
      /\ Len(made') = Len(made) + 1 => Cardinality(A) = Cardinality(Arrived)
  <2>1. \A i \in 1..Len(made) : i + 1 <= Len(made') => made'[i + 1].status = made[i].status
    BY <1>6
  <2>2. PlacedIn(Arrived, made, table, ResultLimit)
    BY DEF IndInv, Placed
  <2>3. Len(made') \in Nat /\ Len(made') <= Len(made) + 1
    BY <1>7
  <2> HIDE DEF A
  <2>4. PlacedIn(Shift(Arrived) \cap 1..Len(made'), made', table, ResultLimit)
    BY <1>4, <2>1, <2>2, <2>3, PlacedShift
  <2>5. Len(made') = Len(made) + 1
          => Cardinality(Shift(Arrived) \cap 1..Len(made')) = Cardinality(Arrived)
    <3>1. Shift(Arrived) \subseteq 1..(Len(made) + 1)
      BY <1>4 DEF Shift
    <3>2. Cardinality(Shift(Arrived)) = Cardinality(Arrived)
      BY <1>4, ShiftCount
    <3>3. Len(made') = Len(made) + 1 => Shift(Arrived) \cap 1..Len(made') = Shift(Arrived)
      BY <3>1
    <3> QED BY <3>2, <3>3
  <2> QED BY <2>4, <2>5 DEF A
<1>9. A \in SUBSET (1..Len(made')) /\ 1 \notin A
  BY <1>4 DEF Shift
<1>10. Arrived' = IF r.at = "table" THEN A \cup {1} ELSE A
  <2>1. \A j \in 1..Len(made') : j # 1 => (made'[j].at = "table" <=> j \in A)
    <3> SUFFICES ASSUME NEW j \in 1..Len(made'), j # 1
                 PROVE  made'[j].at = "table" <=> j \in A
      OBVIOUS
    <3>1. j - 1 \in 1..Len(made) /\ j = (j - 1) + 1 /\ j \in Int
      BY <1>4, <1>7
    <3>2. made'[j] = made[j - 1]
      BY <3>1, <1>6
    <3>3. j \in A <=> j - 1 \in Arrived
      <4>1. \A i \in Arrived : i \in Int
        BY <1>4
      <4>2. j \in Shift(Arrived) <=> j - 1 \in Arrived
        BY <3>1, <4>1 DEF Shift
      <4> QED BY <4>2
    <3> QED BY <3>1, <3>2, <3>3, <1>4 DEF Arrived
  <2>2. Arrived' = {j \in 1..Len(made') : made'[j].at = "table"}
    BY <1>7 DEF Arrived
  <2> HIDE DEF A
  <2>3. 1 \in 1..Len(made')
    BY <1>7
  <2> QED BY <2>1, <2>2, <2>3, <1>6, <1>9
<1> HIDE DEF A
<1>11. /\ table' \in Seq(Statuses) /\ Len(table') <= ResultLimit
       /\ PlacedIn(Arrived', made', table', ResultLimit)
       /\ Len(table) <= Cardinality(A) => Len(table') <= Cardinality(Arrived')
  <2>1. CASE r.at = "table"
    <3>1. Rank(A, 1) = 1
      <4>1. A \in SUBSET (1..Len(made')) /\ Len(made') \in Nat /\ 1 \in Nat \ {0}
        BY <1>7, <1>9
      <4>2. Rank(A, 1) \in Nat \ {0} /\ Rank(A, 1) <= 1
        BY <4>1, RankBounds
      <4> QED BY <4>2
    <3>2. table' = Accept(A, 1, made'[1].status, table, ResultLimit)
      BY <2>1, <3>1, <1>2, <1>3, <1>4, <1>6 DEF Accept
    <3>3. 1 \in (1..Len(made')) \ A /\ made'[1].status \in Statuses
      BY <1>1, <1>3, <1>6, <1>7, <1>9
    <3>4. Arrived' = A \cup {1}
      BY <2>1, <1>10
    <3> QED BY <3>2, <3>3, <3>4, <1>4, <1>7, <1>8, <1>9, PlacedInsert
  <2>2. CASE r.at # "table"
    BY <2>2, <1>2, <1>3, <1>4, <1>8, <1>10
  <2> QED BY <2>1, <2>2
<1>12. Placed'
  <2>1. ASSUME Len(made') < MaxMade PROVE Len(table') <= Cardinality(Arrived')
    <3>1. Len(made) < MaxMade /\ Len(made') = Len(made) + 1
      BY <2>1, <1>4, <1>6
    <3>2. Len(table) <= Cardinality(Arrived)
      BY <3>1 DEF IndInv, Placed
    <3> QED BY <3>1, <3>2, <1>8, <1>11
  <2> QED BY <2>1, <1>11 DEF Placed
<1>13. pc' \in {"waiting", "push"} /\ (pc' = "push" => remote)
  BY <1>2 DEF AfterStore
<1>14. PushHolds'
  <2>1. pc' = "push" => made'[1].at = "node" /\ Len(made') # 0
    BY <1>3, <1>6, <1>7, <1>13
  <2>2. made' # << >>
    BY <1>7
  <2> QED BY <2>1, <2>2 DEF PushHolds
<1>15. VerdictIsDeserved' /\ LoopInv'
  BY <1>1, <1>13, ForgetInd
<1>16. TypeOK'
  <2>1. /\ attempts' \in 0..MaxAttempts' /\ left' \in 0..Timeout /\ last' \in Statuses
        /\ spent' \in Nat /\ met' \in BOOLEAN /\ excused' \in BOOLEAN
    BY <1>1, <1>13, ForgetInd
  <2>2. made' \in Seq([status : Statuses, own : BOOLEAN, at : {"node", "wire", "table", "lost"}])
    BY <1>6 DEF Rows
  <2> QED BY <2>1, <2>2, <1>1, <1>7, <1>11, <1>13 DEF IndInv, TypeOK
<1> QED BY <1>12, <1>14, <1>15, <1>16 DEF IndInv

(* A result that gets somewhere else stays the same result.                *)
LEMMA MovedRow ==
  ASSUME TypeOK, NEW i \in DOMAIN made, NEW at \in {"node", "wire", "table", "lost"},
         made' = [made EXCEPT ![i].at = at]
  PROVE  /\ made' \in Seq(Rows) /\ Len(made') = Len(made) /\ DOMAIN made' = DOMAIN made
         /\ made'[i].status = made[i].status /\ made'[i].at = at
         /\ \A j \in DOMAIN made : j # i => made'[j] = made[j]
<1> DEFINE row == [made[i] EXCEPT !.at = at]
<1>1. made \in Seq(Rows) /\ DOMAIN made = 1..Len(made) /\ made[i] \in Rows
  BY RowTypes
<1>2. row \in Rows /\ row.status = made[i].status /\ row.at = at
  BY <1>1 DEF Rows
<1>3. made' = [made EXCEPT ![i] = row]
  OBVIOUS
<1> HIDE DEF row
<1>4. /\ made' \in Seq(Rows) /\ Len(made') = Len(made)
      /\ \A j \in 1..Len(made) : made'[j] = IF j = i THEN row ELSE made[j]
  BY <1>1, <1>2, <1>3, ExceptSeq
<1>5. DOMAIN made' = DOMAIN made
  BY <1>1, <1>3
<1> QED BY <1>1, <1>2, <1>4, <1>5

(* handlePeerResult, in time or late.                                      *)
LEMMA ArrivalKeepsPlaces ==
  ASSUME IndInv, NEW i \in DOMAIN made, made[i].at # "table", StoreAtCoordinator(i)
  PROVE  /\ Placed' /\ table' \in Seq(Statuses) /\ Len(table') <= ResultLimit
         /\ made' \in Seq(Rows) /\ Len(made') = Len(made) /\ DOMAIN made' = DOMAIN made
         /\ \A j \in DOMAIN made : j # i => made'[j] = made[j]
<1>1. /\ made \in Seq(Rows) /\ Len(made) \in Nat /\ DOMAIN made = 1..Len(made)
      /\ \A j \in DOMAIN made : made[j].status \in Statuses
      /\ Arrived \in SUBSET (1..Len(made))
      /\ table \in Seq(Statuses) /\ Len(table) \in Nat /\ Len(table) <= ResultLimit
      /\ ResultLimit \in Nat \ {0}
  BY RowTypes, CheckingAssumption DEF IndInv
<1>2. /\ made' = [made EXCEPT ![i].at = "table"]
      /\ table' = IF Place(i) > ResultLimit THEN table
                  ELSE InsertRow(table, Place(i), made[i].status, ResultLimit)
  BY DEF StoreAtCoordinator
<1>3. /\ made' \in Seq(Rows) /\ Len(made') = Len(made) /\ DOMAIN made' = DOMAIN made
      /\ made'[i].status = made[i].status /\ made'[i].at = "table"
      /\ \A j \in DOMAIN made : j # i => made'[j] = made[j]
  BY <1>2, MovedRow DEF IndInv
<1>4. Place(i) = Rank(Arrived, i)
  <2>1. {j \in 1..(i - 1) : made[j].at = "table"} = Arrived \cap 1..(i - 1)
    BY <1>1 DEF Arrived
  <2> QED BY <2>1 DEF Place, Rank
<1>5. i \in (1..Len(made)) \ Arrived
  BY <1>1 DEF Arrived
<1>6. Arrived' = Arrived \cup {i}
  <2>1. Arrived' = {j \in DOMAIN made : made'[j].at = "table"}
    BY <1>3 DEF Arrived
  <2> QED BY <2>1, <1>3 DEF Arrived
<1>7. PlacedIn(Arrived, made, table, ResultLimit)
  BY DEF IndInv, Placed
<1>8. made[i].status \in Statuses
  BY <1>1
<1>9. table' = Accept(Arrived, i, made[i].status, table, ResultLimit)
  BY <1>2, <1>4 DEF Accept
<1>10. /\ table' \in Seq(Statuses) /\ Len(table') <= ResultLimit
       /\ PlacedIn(Arrived \cup {i}, made, table', ResultLimit)
       /\ Len(table) <= Cardinality(Arrived) => Len(table') <= Cardinality(Arrived \cup {i})
  BY <1>1, <1>5, <1>7, <1>8, <1>9, PlacedInsert
<1>11. \A j \in Arrived' : made'[j].status = made[j].status
  BY <1>3 DEF Arrived
<1>12. Placed'
  <2>1. PlacedIn(Arrived', made', table', ResultLimit)
    BY <1>6, <1>10, <1>11 DEF PlacedIn
  <2>2. Len(made') < MaxMade => Len(table') <= Cardinality(Arrived')
    BY <1>3, <1>6, <1>10 DEF IndInv, Placed
  <2> QED BY <2>1, <2>2 DEF Placed
<1> QED BY <1>3, <1>10, <1>12

(* PushResult in time, and the request that is served after it was given   *)
(* up.                                                                     *)
LEMMA ArriveInd ==
  ASSUME IndInv, PushResult \/ \E i \in DOMAIN made : Arrive(i)
  PROVE  IndInv'
<1>1. /\ UNCHANGED <<mon, remote, target, phase, faults, attempts, left, last, spent, met, excused>>
      /\ pc' = pc \/ (pc = "push" /\ pc' = "waiting")
  BY DEF PushResult, Arrive, AfterPush, checkVars
<1>2. PICK i \in DOMAIN made : /\ made[i].at # "table" /\ StoreAtCoordinator(i)
                               /\ pc' = "push" => i # 1 \/ made[i].at = "wire"
  <2>1. CASE PushResult
    <3>1. pc' = "waiting" /\ StoreAtCoordinator(1) /\ made # << >> /\ made[1].at = "node"
      BY <2>1 DEF PushResult, AfterPush, IndInv, PushHolds
    <3>2. 1 \in DOMAIN made
      BY <3>1, RowTypes DEF IndInv
    <3> QED BY <3>1, <3>2
  <2>2. CASE \E i \in DOMAIN made : Arrive(i)
    BY <2>2 DEF Arrive
  <2> QED BY <2>1, <2>2
<1>3. /\ Placed' /\ table' \in Seq(Statuses) /\ Len(table') <= ResultLimit
      /\ made' \in Seq(Rows) /\ Len(made') = Len(made) /\ DOMAIN made' = DOMAIN made
      /\ \A j \in DOMAIN made : j # i => made'[j] = made[j]
  BY <1>2, ArrivalKeepsPlaces
<1>4. MaxAttempts' = MaxAttempts
  BY <1>1 DEF MaxAttempts
<1>5. TypeOK'
  <2>1. made' \in Seq([status : Statuses, own : BOOLEAN, at : {"node", "wire", "table", "lost"}])
    BY <1>3 DEF Rows
  <2>2. pc' \in {"waiting", "probe", "store", "push"} /\ Len(made') <= MaxMade
    BY <1>1, <1>3 DEF IndInv, TypeOK
  <2> QED BY <2>1, <2>2, <1>1, <1>3, <1>4 DEF IndInv, TypeOK
<1>6. VerdictIsDeserved' /\ LoopInv'
  BY <1>1, <1>4 DEF IndInv, VerdictIsDeserved, LoopInv
<1>7. PushHolds'
  <2> SUFFICES ASSUME pc' = "push" PROVE made' # << >> /\ made'[1].at = "node"
    BY DEF PushHolds
  <2>1. pc = "push" /\ made # << >> /\ made[1].at = "node"
    BY <1>1 DEF IndInv, PushHolds
  <2>2. 1 \in DOMAIN made /\ DOMAIN made' = DOMAIN made
    BY <2>1, <1>3, RowTypes DEF IndInv
  <2>3. i # 1
    BY <2>1, <1>2
  <2> QED BY <2>1, <2>2, <2>3, <1>3
<1> QED BY <1>3, <1>5, <1>6, <1>7 DEF IndInv

(* The push fails, the request is given up, or is not served after all.    *)
LEMMA LoseInd ==
  ASSUME IndInv, (\E at \in {"wire", "lost"} : PushFails(at)) \/ (\E i \in DOMAIN made : Drop(i))
  PROVE  IndInv'
<1>1. /\ UNCHANGED <<mon, remote, target, phase, table, attempts, left, last, spent, met, excused>>
      /\ pc' = pc \/ pc' = "waiting"
      /\ faults' \in 0..MaxFaults
  BY CheckingAssumption DEF PushFails, Drop, AfterPush, Fault, checkVars, IndInv, TypeOK
<1>2. PICK i \in DOMAIN made, at \in {"wire", "lost"} :
        /\ made' = [made EXCEPT ![i].at = at] /\ made[i].at # "table"
        /\ pc' = "waiting" \/ made[i].at = "wire"
  <2>1. ASSUME NEW at \in {"wire", "lost"}, PushFails(at)
        PROVE  /\ 1 \in DOMAIN made /\ made' = [made EXCEPT ![1].at = at]
               /\ made[1].at = "node" /\ pc' = "waiting"
    <3>1. /\ pc' = "waiting" /\ made' = [made EXCEPT ![1].at = at]
          /\ made # << >> /\ made[1].at = "node"
      BY <2>1 DEF PushFails, AfterPush, IndInv, PushHolds
    <3> QED BY <3>1, RowTypes DEF IndInv
  <2>2. ASSUME NEW i \in DOMAIN made, Drop(i)
        PROVE  made' = [made EXCEPT ![i].at = "lost"] /\ made[i].at = "wire"
    BY <2>2 DEF Drop
  <2>3. CASE \E at \in {"wire", "lost"} : PushFails(at)
    <3>1. PICK at \in {"wire", "lost"} : PushFails(at)
      BY <2>3
    <3>2. /\ 1 \in DOMAIN made /\ made' = [made EXCEPT ![1].at = at]
          /\ made[1].at = "node" /\ pc' = "waiting"
      BY <3>1, <2>1
    <3> QED BY <3>2
  <2>4. CASE \E i \in DOMAIN made : Drop(i)
    BY <2>2, <2>4
  <2> QED BY <2>3, <2>4
<1>3. /\ made' \in Seq(Rows) /\ Len(made') = Len(made) /\ DOMAIN made' = DOMAIN made
      /\ made'[i].status = made[i].status /\ made'[i].at = at
      /\ \A j \in DOMAIN made : j # i => made'[j] = made[j]
  BY <1>2, MovedRow DEF IndInv
<1>4. Placed'
  <2>1. \A j \in DOMAIN made : /\ made'[j].status = made[j].status
                               /\ (made'[j].at = "table" <=> made[j].at = "table")
    BY <1>2, <1>3
  <2> QED BY <2>1, <1>1, <1>3, UntouchedWindow
<1>5. MaxAttempts' = MaxAttempts
  BY <1>1 DEF MaxAttempts
<1>6. TypeOK'
  <2>1. made' \in Seq([status : Statuses, own : BOOLEAN, at : {"node", "wire", "table", "lost"}])
    BY <1>3 DEF Rows
  <2>2. pc' \in {"waiting", "probe", "store", "push"} /\ Len(made') <= MaxMade
    BY <1>1, <1>3 DEF IndInv, TypeOK
  <2> QED BY <2>1, <2>2, <1>1, <1>5 DEF IndInv, TypeOK
<1>7. VerdictIsDeserved' /\ LoopInv'
  BY <1>1, <1>5 DEF IndInv, VerdictIsDeserved, LoopInv
<1>8. PushHolds'
  <2> SUFFICES ASSUME pc' = "push" PROVE made' # << >> /\ made'[1].at = "node"
    BY DEF PushHolds
  <2>1. pc = "push" /\ made # << >> /\ made[1].at = "node" /\ made[i].at = "wire"
    BY <1>1, <1>2 DEF IndInv, PushHolds
  <2>2. 1 \in DOMAIN made /\ DOMAIN made' = DOMAIN made
    BY <2>1, <1>3, RowTypes DEF IndInv
  <2>3. i # 1
    BY <2>1
  <2> QED BY <2>1, <2>2, <2>3, <1>3
<1> QED BY <1>4, <1>6, <1>7, <1>8 DEF IndInv

LEMMA RestartInd ==
  ASSUME IndInv, Restart
  PROVE  IndInv'
<1>1. /\ UNCHANGED <<mon, remote, target, table, faults>> /\ Forget
      /\ phase' = "up" /\ pc' = "waiting"
      /\ made' = [i \in DOMAIN made |-> IF made[i].at = "node" THEN [made[i] EXCEPT !.at = "lost"]
                                         ELSE made[i]]
  BY DEF Restart
<1>2. made \in Seq(Rows) /\ Len(made) \in Nat /\ DOMAIN made = 1..Len(made)
  BY RowTypes DEF IndInv
<1>3. ASSUME NEW i \in 1..Len(made)
      PROVE  /\ made'[i] \in Rows /\ made'[i].status = made[i].status
             /\ (made'[i].at = "table" <=> made[i].at = "table")
  <2>1. made[i] \in Rows
    BY RowTypes, <1>2 DEF IndInv
  <2>2. made'[i] = IF made[i].at = "node" THEN [made[i] EXCEPT !.at = "lost"] ELSE made[i]
    BY <1>1, <1>2
  <2> QED BY <2>1, <2>2 DEF Rows
<1>4. made' \in Seq(Rows) /\ Len(made') = Len(made) /\ DOMAIN made' = DOMAIN made
  <2>1. DOMAIN made' = 1..Len(made)
    BY <1>1, <1>2
  <2>2. made' \in [1..Len(made) -> Rows]
    <3>1. made' = [i \in 1..Len(made) |-> made'[i]]
      BY <1>1, <1>2
    <3> QED BY <3>1, <1>3
  <2> QED BY <2>1, <2>2, <1>2
<1>5. Placed'
  <2>1. \A i \in DOMAIN made : /\ made'[i].status = made[i].status
                               /\ (made'[i].at = "table" <=> made[i].at = "table")
    BY <1>2, <1>3
  <2> QED BY <2>1, <1>1, <1>4, UntouchedWindow
<1>6. /\ LoopInv' /\ VerdictIsDeserved'
      /\ attempts' \in 0..MaxAttempts' /\ left' \in 0..Timeout /\ last' \in Statuses
      /\ spent' \in Nat /\ met' \in BOOLEAN /\ excused' \in BOOLEAN
  BY <1>1, ForgetInd
<1>7. TypeOK'
  <2>1. made' \in Seq([status : Statuses, own : BOOLEAN, at : {"node", "wire", "table", "lost"}])
    BY <1>4 DEF Rows
  <2>2. Len(made') <= MaxMade
    BY <1>4 DEF IndInv, TypeOK
  <2> QED BY <2>1, <2>2, <1>1, <1>6 DEF IndInv, TypeOK
<1>8. PushHolds'
  BY <1>1 DEF PushHolds
<1> QED BY <1>5, <1>6, <1>7, <1>8 DEF IndInv

(* Every reachable state has all of it.                                    *)
THEOREM Invariance == Spec => []IndInv
<1>1. IndInv /\ [Next]_vars => IndInv'
  <2> SUFFICES ASSUME IndInv, [Next]_vars PROVE IndInv'
    OBVIOUS
  <2>1. CASE Begin \/ Cancel \/ \E a \in Answers : ChangeTarget(a)
    BY <2>1, AroundInd
  <2>2. CASE Attempt
    BY <2>2, AttemptInd
  <2>3. CASE Store
    BY <2>3, StoreInd
  <2>4. CASE PushResult \/ \E i \in DOMAIN made : Arrive(i)
    BY <2>4, ArriveInd
  <2>5. CASE (\E at \in {"wire", "lost"} : PushFails(at)) \/ \E i \in DOMAIN made : Drop(i)
    BY <2>5, LoseInd
  <2>6. CASE Restart
    BY <2>6, RestartInd
  <2>7. CASE UNCHANGED vars
    BY <2>7, StutterInd
  <2> QED BY <2>1, <2>2, <2>3, <2>4, <2>5, <2>6, <2>7 DEF Next, Check
<1> QED BY InitInd, <1>1, PTL DEF Spec

(* The variables of a check, its results and the window keep their types,  *)
(* and the window its LIMIT.                                               *)
THEOREM TypeCorrect == Spec => []TypeOK
<1>1. IndInv => TypeOK
  BY DEF IndInv
<1> QED BY Invariance, <1>1, PTL

(* executeCheck reports "up" exactly if an attempt got what the monitor    *)
(* asks for, and "down" only for a target that could not give it.          *)
THEOREM VerdictsAreDeserved == Spec => []VerdictIsDeserved
<1>1. IndInv => VerdictIsDeserved
  BY DEF IndInv
<1> QED BY Invariance, <1>1, PTL

(* All the attempts of a check together take its timeout at most, whatever *)
(* the number of retries.                                                  *)
THEOREM ChecksEnd == Spec => []ChecksEndInTime
<1>1. IndInv => ChecksEndInTime
  <2> SUFFICES ASSUME IndInv, mon.type # "icmp" PROVE spent <= Timeout
    BY DEF ChecksEndInTime
  <2>1. spent + left <= Timeout /\ spent \in Nat /\ left \in Nat /\ Timeout \in Nat
    BY CheckingAssumption DEF IndInv, LoopInv, TypeOK
  <2> QED BY <2>1
<1> QED BY Invariance, <1>1, PTL

-----------------------------------------------------------------------------
(* What the coordinator counts.                                            *)

(* Where the newest k results have arrived, the window begins with them.   *)
LEMMA NewestArrived ==
  ASSUME IndInv, NEW k \in 0..ResultLimit, k <= Len(made),
         \A i \in 1..k : made[i].at = "table"
  PROVE  k <= Len(table) /\ \A i \in 1..k : table[i] = made[i].status
<1>1. /\ Len(made) \in Nat /\ DOMAIN made = 1..Len(made) /\ Len(table) \in Nat
      /\ Arrived \in SUBSET (1..Len(made)) /\ ResultLimit \in Nat
  BY RowTypes, CheckingAssumption DEF IndInv
<1>2. ASSUME NEW i \in 1..k PROVE i <= Len(table) /\ table[i] = made[i].status
  <2>1. i \in Arrived /\ i <= ResultLimit
    BY <1>1 DEF Arrived
  <2>2. Arrived \cap 1..(i - 1) = 1..(i - 1)
    BY <1>1 DEF Arrived
  <2>3. Cardinality(1..(i - 1)) = i - 1
    BY FS_Interval
  <2>4. Rank(Arrived, i) = i
    <3>1. Rank(Arrived, i) = 1 + (i - 1)
      BY <2>2, <2>3 DEF Rank
    <3> QED BY <3>1
  <2> QED BY <2>1, <2>4 DEF IndInv, Placed, PlacedIn
<1> QED BY <1>1, <1>2

(* Once the newest Threshold results of a node have arrived, they alone    *)
(* decide whether the evaluation counts the node as failing or as          *)
(* recovered: neither what was lost before them nor what comes late does.  *)
NewestDecide ==
  Threshold <= Len(made) /\ (\A i \in 1..Threshold : made[i].at = "table")
    => /\ CountConsecutiveFailures(table) >= Threshold
             <=> \A i \in 1..Threshold : made[i].status # "up"
       /\ CountConsecutiveSuccesses(table) >= Threshold
             <=> \A i \in 1..Threshold : made[i].status = "up"

THEOREM NewestResultsDecide == Spec => []NewestDecide
<1>1. IndInv => NewestDecide
  <2> SUFFICES ASSUME IndInv, Threshold <= Len(made), \A i \in 1..Threshold : made[i].at = "table"
               PROVE  /\ CountConsecutiveFailures(table) >= Threshold
                            <=> \A i \in 1..Threshold : made[i].status # "up"
                      /\ CountConsecutiveSuccesses(table) >= Threshold
                            <=> \A i \in 1..Threshold : made[i].status = "up"
    BY DEF NewestDecide
  <2>1. Threshold \in Nat \ {0} /\ Threshold \in 0..ResultLimit
    BY CheckingAssumption
  <2>2. Threshold <= Len(table) /\ \A i \in 1..Threshold : table[i] = made[i].status
    BY <2>1, NewestArrived
  <2>3. table \in Seq(Statuses)
    BY RowTypes DEF IndInv
  <2>4. CountConsecutiveFailures(table) >= Threshold
          <=> Threshold <= Len(table) /\ \A j \in 1..Threshold : table[j] # "up"
    BY <2>1, <2>3, FailureStreak
  <2>5. CountConsecutiveSuccesses(table) >= Threshold
          <=> Threshold <= Len(table) /\ \A j \in 1..Threshold : table[j] = "up"
    BY <2>1, <2>3, SuccessStreak
  <2> QED BY <2>2, <2>4, <2>5
<1> QED BY Invariance, <1>1, PTL

(* The newest rows the node has itself, if it has all the newest.          *)
LEMMA OwnIsNewest ==
  ASSUME TypeOK, NEW k \in 0..ResultLimit,
         k <= Len(made), k = Len(made) \/ k = ResultLimit,
         \A i \in 1..k : made[i].own
  PROVE  Own = [i \in 1..k |-> made[i].status]
<1>1. Len(made) \in Nat /\ DOMAIN made = 1..Len(made) /\ ResultLimit \in Nat \ {0}
  BY RowTypes, CheckingAssumption
<1>2. 1..k \subseteq OwnRows /\ OwnRows \in SUBSET (1..Len(made)) /\ k \in Nat /\ k <= Len(made)
  <2>1. k \in Nat /\ k <= Len(made) /\ Len(made) \in Nat
    BY <1>1
  <2>2. ASSUME NEW i \in 1..k PROVE i \in OwnRows
    <3>1. i \in 1..Len(made)
      BY ONLY <2>1, i \in 1..k
    <3> QED BY <1>1, <3>1 DEF OwnRows
  <2> QED BY <1>1, <2>1, <2>2 DEF OwnRows
<1>3. Cardinality(OwnRows) \in Nat /\ Cardinality(OwnRows) <= Len(made) /\ k <= Cardinality(OwnRows)
  <2>1. Cardinality(1..k) = k
    BY <1>2, FS_Interval
  <2>2. 1..k \in SUBSET OwnRows
    BY <1>2
  <2>3. Cardinality(1..k) <= Cardinality(OwnRows)
    BY <1>1, <1>2, <2>2, RowsAreFinite
  <2>4. Cardinality(OwnRows) \in Nat /\ Cardinality(OwnRows) <= Len(made)
    BY <1>1, <1>2, RowsAreFinite
  <2> QED BY <2>1, <2>3, <2>4
<1>4. (IF Cardinality(OwnRows) < ResultLimit THEN Cardinality(OwnRows) ELSE ResultLimit) = k
  <2>1. CASE k = Len(made)
    BY <2>1, <1>1, <1>2, <1>3
  <2>2. CASE k = ResultLimit
    BY <2>2, <1>1, <1>2, <1>3
  <2> QED BY <2>1, <2>2
<1>5. ASSUME NEW j \in 1..k
      PROVE  (CHOOSE i \in OwnRows : Cardinality(OwnRows \cap 1..i) = j) = j
  <2>1. j \in OwnRows /\ Cardinality(OwnRows \cap 1..j) = j
    <3>1. OwnRows \cap 1..j = 1..j /\ j \in OwnRows /\ j \in Nat \ {0}
      BY <1>2
    <3>2. Cardinality(1..j) = j
      BY <3>1, FS_Interval
    <3> QED BY <3>1, <3>2
  <2>2. ASSUME NEW i \in OwnRows, Cardinality(OwnRows \cap 1..i) = j PROVE i = j
    <3>1. i \in Nat \ {0} /\ j \in Nat /\ j <= k
      BY <1>2
    <3>2. CASE i < j
      <4>1. OwnRows \cap 1..i \in SUBSET (1..i)
        OBVIOUS
      <4>2. Cardinality(OwnRows \cap 1..i) <= i
        BY <3>1, <4>1, RowsAreFinite
      <4> QED BY <2>2, <3>1, <3>2, <4>2
    <3>3. CASE i > j
      <4>1. (1..j) \cup {i} \in SUBSET (OwnRows \cap 1..i)
        BY <1>2, <3>1, <3>3
      <4>2. IsFiniteSet(1..j) /\ Cardinality(1..j) = j
        BY <3>1, FS_Interval
      <4>3. i \notin 1..j
        BY <3>1, <3>3
      <4>4. Cardinality((1..j) \cup {i}) = j + 1
        BY <4>2, <4>3, FS_AddElement
      <4>5. OwnRows \cap 1..i \in SUBSET (1..Len(made))
        BY <1>2
      <4>6. Cardinality((1..j) \cup {i}) <= Cardinality(OwnRows \cap 1..i)
        BY <1>1, <4>1, <4>5, RowsAreFinite
      <4> QED BY <2>2, <3>1, <4>4, <4>6
    <3> QED BY <3>1, <3>2, <3>3
  <2> QED BY <2>1, <2>2
<1>6. Own = [j \in 1..k |-> made[CHOOSE i \in OwnRows : Cardinality(OwnRows \cap 1..i) = j].status]
  BY <1>4 DEF Own
<1>7. \A j \in 1..k : made[CHOOSE i \in OwnRows : Cardinality(OwnRows \cap 1..i) = j].status
                       = made[j].status
  BY <1>5
<1> QED BY <1>6, <1>7

(* The counting queries of the coordinator and of the node agree whenever  *)
(* both have the newest results, however the pushes overtook each other.   *)
THEOREM CountsAlwaysAgree == Spec => []CountsAgree
<1>1. IndInv => CountsAgree
  <2> SUFFICES ASSUME IndInv, \A i \in DOMAIN made : i <= ResultLimit => made[i].own /\ made[i].at = "table"
               PROVE  table = Own
    BY DEF CountsAgree
  <2> DEFINE k == IF Len(made) < ResultLimit THEN Len(made) ELSE ResultLimit
  <2>1. /\ Len(made) \in Nat /\ DOMAIN made = 1..Len(made) /\ ResultLimit \in Nat
        /\ table \in Seq(Statuses) /\ Len(table) \in Nat /\ Len(table) <= ResultLimit
        /\ Arrived \in SUBSET (1..Len(made))
    BY RowTypes, CheckingAssumption DEF IndInv
  <2>2. k \in 0..ResultLimit /\ k <= Len(made) /\ k \in Nat
    BY <2>1
  <2>3. \A i \in 1..k : made[i].own /\ made[i].at = "table"
    BY <2>1, <2>2
  <2>4. k <= Len(table) /\ \A i \in 1..k : table[i] = made[i].status
    <3> HIDE DEF k
    <3> QED BY <2>2, <2>3, NewestArrived
  <2>5. Len(table) = k
    <3>1. CASE Len(made) < ResultLimit
      <4>1. Len(table) <= Cardinality(Arrived)
        BY <3>1, <2>1, MaxMadeType DEF IndInv, Placed
      <4>2. Cardinality(Arrived) <= Len(made) /\ Cardinality(Arrived) \in Nat
        BY <2>1, RowsAreFinite
      <4> QED BY <4>1, <4>2, <3>1, <2>1, <2>4
    <3>2. CASE ~(Len(made) < ResultLimit)
      BY <3>2, <2>1, <2>4
    <3> QED BY <3>1, <3>2
  <2>6. Own = [i \in 1..k |-> made[i].status]
    <3>1. k = Len(made) \/ k = ResultLimit
      OBVIOUS
    <3> HIDE DEF k
    <3> QED BY <2>2, <2>3, <3>1, OwnIsNewest DEF IndInv
  <2> HIDE DEF k
  <2>7. table = [i \in 1..k |-> table[i]]
    BY <2>1, <2>5
  <2> QED BY <2>4, <2>6, <2>7
<1> QED BY Invariance, <1>1, PTL
=============================================================================
